------------------------------ MODULE Contact ------------------------------
(* First contact and repaired channels of the client core                     *)
(* (valanium-core/src/client.rs: deliver, on_key_package, pending_sends,      *)
(* attach_channel, repair_missing_channels and their callers; mls.rs) over    *)
(* the key packages of the relay (valanium-server ws/session.ts, db/index.ts).*)
(*                                                                           *)
(* Two people with one device or more each, who know each other's devices.    *)
(* To write to a device without a channel, a key package of that device is    *)
(* claimed; what is written until it comes waits on disk. An MLS group is     *)
(* named by who made it from which package. Envelopes pass from the durable   *)
(* queue to the relay and on in order for each recipient (modules Outbox,     *)
(* Relay and Delivery say how), and reach a reader once.                      *)
EXTENDS Naturals, FiniteSets, SequencesExt

CONSTANTS
    People,      \* two disjoint sets of devices
    Order,       \* all devices, in the order a list of them has
    Body,        \* texts; each is written once
    Writer,      \* the device that writes each text
    Imported,    \* devices whose history came by pairing: a channel they cannot use
    PerConnect,  \* KEY_PACKAGES_PER_CONNECT
    MaxPool,     \* MAX_KEY_PACKAGES
    MaxWaiting,  \* bound of pending_sends
    MaxQueue,    \* MAX_ITEMS of the durable queue
    Nil,
    Commands,    \* commands of the user beside writing
    MaxEvents    \* bound of a model: lost connections and such commands

Handset == UNION People
ContactAssumption ==
    /\ \A p, q \in People : p = q \/ p \intersect q = {}
    /\ Cardinality(People) = 2
    /\ ToSet(Order) = Handset /\ Len(Order) = Cardinality(Handset)
    /\ Writer \in [Body -> Handset] /\ Imported \subseteq Handset
    /\ PerConnect \in Nat \ {0} /\ MaxPool >= PerConnect
    /\ MaxWaiting \in Nat /\ MaxQueue \in Nat /\ MaxEvents \in Nat
    /\ Commands \subseteq {"clear", "forget", "block", "repair"}
ASSUME ContactAssumption

Ready == "ready"  \* CHANNEL_READY, the control message that opens a repaired channel

VARIABLES
    client,   \* per device: its store and, while a session runs, its memory
    pool,     \* the relay: key packages per device, oldest first
    mail,     \* the relay and the way to the reader: envelopes per device
    read,     \* texts each device has shown
    missed,   \* texts each device has given up as unreadable
    written,  \* texts written (history)
    excused,  \* [to, body] the user took back, or was told about (history)
    torn,     \* groups whose invitation was deleted from the queue (history)
    events    \* lost connections and commands so far

history == <<written, excused, torn>>
contactVars == <<client, pool, mail, read, missed, history, events>>

Peers(d) == Handset \ CHOOSE p \in People : d \in p
PeerOrder(d) == SelectSeq(Order, LAMBDA e : e \in Peers(d))
Group == [by : Handset, of : Handset, n : Nat]
Lost(d, e) == [by |-> e, of |-> d, n |-> 0]  \* a group of another device of the same person
-----------------------------------------------------------------------------
(* The client. Each operator takes the record of a client to the next one.    *)

Blank(d) == [
    waiting |-> << >>,  \* pending_sends_v1, on disk like all up to `blocked`
    queue   |-> << >>,  \* anonymous_outbox_v1
    conv    |-> [e \in Handset |-> Nil],
    root    |-> Nil,   \* the thread, named by its first group
    groups  |-> {},     \* MLS: groups this device is a member of
    keys    |-> {},     \* MLS: its packages that nobody has used yet
    minted  |-> 0,
    blocked |-> {},
    up      |-> FALSE,
    outbox  |-> << >>,  \* Live.outbox
    claims  |-> {},     \* pending
    frames  |-> << >>,  \* written to the relay, not handled yet
    answers |-> << >>]  \* written by the relay, not read yet

\* What pairing installs: the conversation, but no group (link_history).
Restored(d) == LET e == PeerOrder(d)[1] IN
    [Blank(d) EXCEPT !.conv[e] = Lost(d, e), !.root = Lost(d, e)]

Forgotten(c, w) == [c EXCEPT !.waiting = SelectSeq(@, LAMBDA x : x # w)]
Remembered(c, w) == IF w \in ToSet(c.waiting) THEN c ELSE [c EXCEPT !.waiting = Append(@, w)]

Has(c, e) == c.conv[e] \in c.groups
Asked(c, e) == \E k \in c.claims : k.to = e

\* A reference nothing on this connection has.
Fresh(c) ==
    LET used == {k.ref : k \in c.claims} \union {f.ref : f \in ToSet(c.frames)}
                  \union {f.ref : f \in ToSet(c.answers)}
    IN CHOOSE r \in 1 .. Cardinality(used) + 1 : r \notin used

Ask(c, e, b) ==
    LET r == Fresh(c)
    IN [c EXCEPT !.claims = @ \union {[ref |-> r, to |-> e, body |-> b]},
                 !.frames = Append(@, [op |-> "claim", ref |-> r, to |-> e, pkgs |-> << >>])]

\* queue_private_message, if it fits (see Full).
Enqueue(c, w) ==
    LET item == [to |-> w.to, kind |-> IF w.body = Ready THEN "control" ELSE "text",
                 group |-> c.conv[w.to], body |-> w.body]
        twice == \E q \in ToSet(c.queue) : q.kind = "text" /\ q.to = w.to /\ q.body = w.body
    IN IF twice THEN Forgotten(c, w) ELSE [Forgotten(c, w) EXCEPT !.queue = Append(@, item)]

\* Mutant: the channel is used although its group is missing here.
DeliverText_Blind(c, w) ==
    IF w.to \in c.blocked THEN Forgotten(c, w)
    ELSE IF c.conv[w.to] # Nil /\ w.body # Ready THEN Enqueue(c, w)
    ELSE IF Asked(c, w.to) THEN Remembered(c, w) ELSE Ask(Remembered(c, w), w.to, w.body)

\* deliver.
DeliverText(c, w) ==
    IF w.to \in c.blocked THEN Forgotten(c, w)
    ELSE IF Has(c, w.to) /\ w.body # Ready THEN Enqueue(c, w)
    ELSE IF Asked(c, w.to) THEN Remembered(c, w) ELSE Ask(Remembered(c, w), w.to, w.body)

\* remember_send and enqueue_batch refuse: the step that led here is an error.
Full(c) == Len(c.waiting) > MaxWaiting \/ Len(c.queue) > MaxQueue

\* repair_missing_channels.
Repair(c, d) ==
    LET One(x, e) == IF x.conv[e] # Nil /\ ~Has(x, e) /\ e \notin x.blocked /\ ~Asked(x, e)
                     THEN Ask(x, e, Ready) ELSE x
    IN FoldLeft(One, c, PeerOrder(d))

\* The session leaves its connection: what waits is read from disk again.
Left(c) == [c EXCEPT !.up = FALSE, !.outbox = c.waiting, !.claims = {},
                     !.frames = << >>, !.answers = << >>]

\* attach_channel: the first group of a person names the thread.
Attach(c, e, g) ==
    [c EXCEPT !.root = IF \A x \in Handset : c.conv[x] = Nil THEN g ELSE @,
              !.conv[e] = g, !.groups = @ \union {g}]

\* recipients: devices with a channel first.
Recipients(c, d) ==
    SelectSeq(PeerOrder(d), LAMBDA e : c.conv[e] # Nil)
      \o SelectSeq(PeerOrder(d), LAMBDA e : c.conv[e] = Nil)
-----------------------------------------------------------------------------
(* The session.                                                              *)

\* AUTH_OK, up to the main loop: missing channels, packages, what waits.
Connect(d) ==
    LET c == client[d]
        needed == IF Len(pool[d]) < PerConnect THEN PerConnect - Len(pool[d]) ELSE 0
        new == [i \in 1 .. needed |-> c.minted + i]
        asked == Repair([c EXCEPT !.up = TRUE, !.outbox = << >>], d)
        shown == IF needed = 0 THEN asked ELSE
                 [asked EXCEPT !.minted = @ + needed, !.keys = @ \union ToSet(new),
                     !.frames = Append(@, [op |-> "publish", ref |-> 0, to |-> d, pkgs |-> new])]
        Next1(x, w) == IF Full(DeliverText(x, w)) THEN x ELSE DeliverText(x, w)
    IN /\ ~c.up
       /\ client' = [client EXCEPT ![d] = FoldLeft(Next1, shown, c.outbox)]
       /\ UNCHANGED <<pool, mail, read, missed, history, events>>

\* The connection is lost, a deadline passes, or the process is killed and started
\* again: the store is all that either leaves behind.
Break(d) ==
    /\ client[d].up /\ events < MaxEvents
    /\ client' = [client EXCEPT ![d] = Left(@)] /\ events' = events + 1
    /\ UNCHANGED <<pool, mail, read, missed, history>>

\* Command::Send for all devices of the person: whole, up to a refusal, or up to a
\* claim that could not be written, which ends the connection.
WriteText(d, b) ==
    LET c == client[d]
        to == Recipients(c, d)
        Item(i) == [to |-> to[i], body |-> b]
        After(k) == FoldLeft(LAMBDA x, e : DeliverText(x, [to |-> e, body |-> b]),
                             c, SubSeq(to, 1, k))
        Rest(k) == {Item(i) : i \in k + 1 .. Len(to)}
    IN /\ c.up /\ b \notin written /\ Writer[b] = d
       /\ written' = written \union {b}
       /\ \/ /\ ~Full(After(Len(to)))
             /\ client' = [client EXCEPT ![d] = After(Len(to))]
             /\ UNCHANGED <<excused, events>>
          \/ \E k \in DOMAIN to :
                /\ Full(After(k)) /\ ~Full(After(k - 1))
                /\ client' = [client EXCEPT ![d] = After(k - 1)]
                /\ excused' = excused \union Rest(k - 1) /\ UNCHANGED events
          \/ \E k \in DOMAIN to :
                /\ ~Full(After(k)) /\ After(k).frames # After(k - 1).frames
                /\ events < MaxEvents /\ events' = events + 1
                /\ client' = [client EXCEPT ![d] = Left(After(k))]
                /\ excused' = excused \union Rest(k)
       /\ UNCHANGED <<pool, mail, read, missed, torn>>

\* queue_offline, while the session waits to connect again: known channels only.
WriteOffline(d, b) ==
    LET c == client[d]
        done == FoldLeft(LAMBDA x, e : Enqueue(x, [to |-> e, body |-> b]), c, Recipients(c, d))
    IN /\ ~c.up /\ b \notin written /\ Writer[b] = d
       /\ \A e \in Peers(d) : Has(c, e)
       /\ ~Full(done)
       /\ client' = [client EXCEPT ![d] = done]
       /\ written' = written \union {b}
       /\ UNCHANGED <<pool, mail, read, missed, excused, torn, events>>

\* Mutant: the ticker delivers also what a claim is out for.
OnTick_Again(d) ==
    LET c == Repair(client[d], d)
        Next1(s, w) == IF s.ok THEN [c |-> DeliverText(s.c, w), ok |-> TRUE] ELSE s
        end == FoldLeft(Next1, [c |-> c, ok |-> TRUE], c.waiting)
    IN /\ client[d].up
       /\ client' = [client EXCEPT ![d] = end.c]
       /\ UNCHANGED <<pool, mail, read, missed, history, events>>

\* The ticker. A refusal ends the session.
OnTick(d) ==
    LET c == Repair(client[d], d)
        Next1(s, w) ==
            IF ~s.ok \/ \E k \in s.c.claims : k.to = w.to /\ k.body = w.body THEN s
            ELSE IF Full(DeliverText(s.c, w)) THEN [c |-> s.c, ok |-> FALSE]
            ELSE [c |-> DeliverText(s.c, w), ok |-> TRUE]
        end == FoldLeft(Next1, [c |-> c, ok |-> TRUE], c.waiting)
    IN /\ client[d].up
       /\ client' = [client EXCEPT ![d] = IF end.ok THEN end.c ELSE Left(end.c)]
       /\ UNCHANGED <<pool, mail, read, missed, history, events>>

\* The group is made, its invitation queued, then the message the claim was for and
\* all else that waits for the device.
Opened(c, k, g) ==
    LET c1 == [Attach(c, k.to, g) EXCEPT
                 !.queue = Append(@, [to |-> k.to, kind |-> "welcome", group |-> g, body |-> Nil])]
        c2 == Enqueue(c1, [to |-> k.to, body |-> k.body])
    IN FoldLeft(Enqueue, c2, SelectSeq(c2.waiting, LAMBDA w : w.to = k.to))

\* Mutant: an answer without a package leaves the claim open.
OnKeyPackage_Deaf(d) ==
    LET key == Head(client[d].answers)
        c == [client[d] EXCEPT !.answers = Tail(@)]
        claim == {k \in c.claims : k.ref = key.ref}
        over == [c EXCEPT !.claims = @ \ claim]
    IN /\ client[d].answers # << >>
       /\ \/ (claim = {} \/ key.pkg = 0) /\ client' = [client EXCEPT ![d] = c]
          \/ /\ key.pkg # 0
             /\ \E k \in claim : LET done == Opened(over, k, [by |-> d, of |-> k.to, n |-> key.pkg])
                               IN client' = [client EXCEPT ![d] = IF Full(done) THEN over ELSE done]
       /\ UNCHANGED <<pool, mail, read, missed, history, events>>

\* on_key_package: no claim waits for it, there was none, or it does not fit (and all
\* is rolled back): the claim is over, what waits stays.
OnKeyPackage(d) ==
    LET key == Head(client[d].answers)
        c == [client[d] EXCEPT !.answers = Tail(@)]
    IN /\ client[d].answers # << >>
       /\ LET claim == {k \in c.claims : k.ref = key.ref}
              over == [c EXCEPT !.claims = @ \ claim]
          IN IF claim = {} \/ key.pkg = 0 THEN client' = [client EXCEPT ![d] = over] ELSE
             LET k == CHOOSE k \in claim : TRUE
                 done == Opened(over, k, [by |-> d, of |-> k.to, n |-> key.pkg])
             IN client' = [client EXCEPT ![d] = IF Full(done) THEN over ELSE done]
       /\ UNCHANGED <<pool, mail, read, missed, history, events>>
-----------------------------------------------------------------------------
(* Commands handled alike on and off line.                                   *)

Command(name) == name \in Commands /\ events < MaxEvents /\ events' = events + 1

\* pump drops the claims of what no longer waits; off line there are none.
Cancelled(c, gone) ==
    LET left == SelectSeq(c.waiting, LAMBDA w : c.conv[w.to] = Nil)
    IN [c EXCEPT !.waiting = left, !.queue = SelectSeq(@, LAMBDA q : q.kind \notin gone),
                 !.claims = {k \in @ : [to |-> k.to, body |-> k.body] \in ToSet(left)}]

TextsOf(c) == ToSet(c.waiting) \union {[to |-> q.to, body |-> q.body] : q \in ToSet(c.queue)}

\* ClearConversation: invitations and control messages stay.
Clear(d) ==
    LET c == client[d]
        done == Cancelled(c, {"text"})
    IN /\ Command("clear") /\ c.root # Nil
       /\ client' = [client EXCEPT ![d] = done]
       /\ excused' = excused \union (TextsOf(c) \ TextsOf(done))
       /\ UNCHANGED <<pool, mail, read, missed, written, torn>>

\* DeleteConversation: the queue of the thread is emptied, and the row that has the
\* thread's own group is removed; a later group of the thread keeps its row.
Forget(d) ==
    LET c == client[d]
        done == Cancelled(c, {"text", "control", "welcome"})
        conv == [e \in Handset |-> IF c.conv[e] = c.root THEN Nil ELSE c.conv[e]]
    IN /\ Command("forget") /\ c.root # Nil
       /\ client' = [client EXCEPT ![d] =
            [done EXCEPT !.conv = conv, !.root = IF \A e \in Handset : conv[e] = Nil THEN Nil ELSE @]]
       /\ excused' = excused \union (TextsOf(c) \ TextsOf(done))
       /\ torn' = torn \union {q.group : q \in {x \in ToSet(c.queue) : x.kind = "welcome"}}
       /\ UNCHANGED <<pool, mail, read, missed, written>>

\* DirectorySet: what is queued for a blocked device stays, and is not sent.
Block(d, e) ==
    /\ Command("block") /\ e \in Peers(d) \ client[d].blocked
    /\ client' = [client EXCEPT ![d].blocked = @ \union {e}]
    /\ UNCHANGED <<pool, mail, read, missed, history>>

\* RepairChannel.
RepairChannel(d, e) ==
    LET c == client[d]
        done == Ask(Remembered(c, [to |-> e, body |-> Ready]), e, Ready)
    IN /\ Command("repair") /\ c.up
       /\ e \in Peers(d) \ c.blocked /\ c.conv[e] # Nil /\ ~Asked(c, e) /\ ~Full(done)
       /\ client' = [client EXCEPT ![d] = done]
       /\ UNCHANGED <<pool, mail, read, missed, history>>
-----------------------------------------------------------------------------
(* The relay, and what it brings.                                            *)

\* onKeyPackagePublish: the newest are kept.
OnPublish(d) ==
    LET f == Head(client[d].frames)
        all == pool[d] \o f.pkgs
        over == IF Len(all) > MaxPool THEN Len(all) - MaxPool ELSE 0
    IN /\ client[d].frames # << >> /\ f.op = "publish"
       /\ pool' = [pool EXCEPT ![d] = SubSeq(all, over + 1, Len(all))]
       /\ client' = [client EXCEPT ![d].frames = Tail(@)]
       /\ UNCHANGED <<mail, read, missed, history, events>>

Answer(d, f, n) ==
    client' = [client EXCEPT ![d].frames = Tail(@),
                             ![d].answers = Append(@, [ref |-> f.ref, pkg |-> n])]

\* onKeyPackageClaim: the oldest package is given out and deleted; none is 0.
OnClaim(d) ==
    LET f == Head(client[d].frames)
        left == pool[f.to]
    IN /\ client[d].frames # << >> /\ f.op = "claim"
       /\ Answer(d, f, IF left = << >> THEN 0 ELSE Head(left))
       /\ pool' = [pool EXCEPT ![f.to] = IF left = << >> THEN left ELSE Tail(left)]
       /\ UNCHANGED <<mail, read, missed, history, events>>

\* The same, refused by a limiter: the answer does not tell.
OnClaimRefused(d) ==
    /\ client[d].frames # << >> /\ Head(client[d].frames).op = "claim"
    /\ events < MaxEvents /\ events' = events + 1
    /\ Answer(d, Head(client[d].frames), 0)
    /\ UNCHANGED <<pool, mail, read, missed, history>>

\* The relay accepts the next envelope of d's queue for e (Outbox: SEND_OK).
Accept(d, e) ==
    LET mine == {i \in DOMAIN client[d].queue : client[d].queue[i].to = e}
        i == CHOOSE i \in mine : \A j \in mine : i <= j
        q == client[d].queue[i]
    IN /\ client[d].up /\ mine # {} /\ e \notin client[d].blocked
       /\ client' = [client EXCEPT ![d].queue = RemoveAt(@, i)]
       /\ mail' = [mail EXCEPT ![e] = Append(@, [from |-> d, kind |-> q.kind, group |-> q.group, body |-> q.body])]
       /\ UNCHANGED <<pool, read, missed, history, events>>

\* An invitation: the private half of its package is used up; without it, it counts
\* as accepted before. A blocked sender's starts no conversation.
Join(c, m) ==
    IF m.group.n \notin c.keys THEN c
    ELSE LET used == [c EXCEPT !.keys = @ \ {m.group.n}]
         IN IF m.from \in c.blocked THEN [used EXCEPT !.groups = @ \union {m.group}]
            ELSE Attach(used, m.from, m.group)

\* on_envelope (module Delivery has its order of saving and acknowledging, and the
\* second sight of what cannot be read).
OnEnvelope(e) ==
    LET m == Head(mail[e])
        c == client[e]
        shown == m.kind = "text" /\ m.from \notin c.blocked
    IN /\ c.up /\ mail[e] # << >>
       /\ mail' = [mail EXCEPT ![e] = Tail(@)]
       /\ client' = [client EXCEPT ![e] = IF m.kind = "welcome" THEN Join(c, m) ELSE c]
       /\ read' = [read EXCEPT ![e] = IF shown /\ m.group \in c.groups THEN @ \union {m.body} ELSE @]
       /\ missed' = [missed EXCEPT ![e] = IF shown /\ m.group \notin c.groups THEN @ \union {m.body} ELSE @]
       /\ UNCHANGED <<pool, history, events>>
-----------------------------------------------------------------------------
ContactInit ==
    /\ \E old \in SUBSET Imported :
          client = [d \in Handset |-> IF d \in old THEN Restored(d) ELSE Blank(d)]
    /\ pool = [d \in Handset |-> << >>] /\ mail = [d \in Handset |-> << >>]
    /\ read = [d \in Handset |-> {}] /\ missed = [d \in Handset |-> {}]
    /\ written = {} /\ excused = {} /\ torn = {} /\ events = 0

ContactNext ==
    \E d \in Handset :
        \/ Connect(d) \/ Break(d) \/ OnTick(d) \/ OnKeyPackage(d)
        \/ \E b \in Body : WriteText(d, b) \/ WriteOffline(d, b)
        \/ Clear(d) \/ Forget(d)
        \/ \E e \in Peers(d) : Block(d, e) \/ RepairChannel(d, e) \/ Accept(d, e)
        \/ OnPublish(d) \/ OnClaim(d) \/ OnClaimRefused(d) \/ OnEnvelope(d)

ContactSpec == ContactInit /\ [][ContactNext]_contactVars

-----------------------------------------------------------------------------
\* Types, the bounds, and what memory holds without a session: no claim.
ContactTypeOK ==
    \A d \in Handset : LET c == client[d] IN
        /\ c.conv \in [Handset -> Group \union {Nil}] /\ c.root \in Group \union {Nil}
        /\ c.groups \subseteq Group /\ c.keys \subseteq 1 .. c.minted
        /\ ~Full(c) /\ Len(pool[d]) <= MaxPool
        /\ \A k, l \in c.claims : k.to = l.to => k = l
        /\ ~c.up => c.claims = {} /\ c.frames = << >> /\ c.answers = << >>

\* Envelopes on the way from d to e, oldest first.
Way(d, e) ==
    SelectSeq(mail[e], LAMBDA m : m.from = d) \o SelectSeq(client[d].queue, LAMBDA q : q.to = e)

Silent(d, e) == e \in client[d].blocked \/ d \in client[e].blocked

\* What was written is, for every device of the person, either waiting on disk, or on
\* its way, or read, exactly one of them, unless the user took it back, or was told,
\* or one of the two has blocked the other. And no queue is ever over its limit,
\* no person claimed twice at once (ContactTypeOK).
KeptOnce ==
    /\ ContactTypeOK
    /\ \A b \in written : LET d == Writer[b] IN \A e \in Peers(d) :
        LET w == [to |-> e, body |-> b]
            n == Cardinality({i \in DOMAIN Way(d, e) : Way(d, e)[i].body = b})
                   + Cardinality({i \in DOMAIN client[d].waiting : client[d].waiting[i] = w})
                   + Cardinality({b} \intersect read[e]) + Cardinality({b} \intersect missed[e])
        IN n <= 1 /\ (n = 0 => w \in excused \/ Silent(d, e))

\* Every text on its way will find its group: the reader is a member of it, or its
\* invitation is ahead of the text and the reader holds the key for it, used for no
\* other invitation. Deleting a repaired conversation may tear that.
CanBeRead ==
    \A d \in Handset : \A e \in Peers(d) : \A i \in DOMAIN Way(d, e) :
        LET m == Way(d, e)[i]
        IN \/ Silent(d, e) \/ m.group \in torn
           \/ m.kind = "text" /\ m.group \in client[e].groups
           \/ m.kind # "welcome" /\ \E j \in 1 .. i - 1 : Way(d, e)[j].kind = "welcome" /\ Way(d, e)[j].group = m.group
           \/ m.kind = "control"
           \/ m.kind = "welcome" /\ m.group.n \in client[e].keys
                /\ \A k \in DOMAIN mail[e] : mail[e][k].kind = "welcome" /\ mail[e][k].group.n = m.group.n
                                                => mail[e][k].group = m.group

\* What is written is read by every device of the person.
Arrives ==
    \A b \in Body : b \in written ~>
        \A e \in Peers(Writer[b]) :
            \/ b \in read[e] \/ Silent(Writer[b], e)
            \/ [to |-> e, body |-> b] \in excused
            \/ torn # {} /\ b \in missed[e]

\* Both: each word is kept once for everybody it is for, and can be read where it comes.
KeptAndRead == KeptOnce /\ CanBeRead
=============================================================================

------------------------------ MODULE Threads ------------------------------
(* The history a device keeps and the threads it is shown in                  *)
(* (valanium-core/src/store.rs: conversations, threads, peer_devices,         *)
(* messages; client.rs: attach_channel, adopt_thread, merge_threads,          *)
(* remember_peer_devices, deliver_to_person, edit_locally, delete_locally;    *)
(* delivery.rs).                                                              *)
(*                                                                           *)
(* One device of the user writes to people with several devices. Every        *)
(* device has a channel of its own, an MLS group; groups of one person stand  *)
(* in one thread once his list of devices has come, and a message is stored,  *)
(* queued and ticked off under the thread its group has at that moment. How   *)
(* the queue is emptied, and how channels are made, say Outbox and Contact.   *)
EXTENDS Naturals, FiniteSets, FiniteSetsExt

CONSTANTS
    PeerDevice, \* devices of the people the user knows
    PersonOf,   \* whose each is: the identity that signed its certificate
    MsgId,      \* logical ids of messages
    MaxGroup,   \* bound of a model: channels made
    MaxEdit,    \* bound of a model: times a message is edited
    MaxWant,    \* bound of a model: requests to delete or to edit
    NoOne

Stage == {"queued", "accepted", "delivered"}
ThreadsAssumption ==
    /\ MaxGroup \in Nat /\ MaxEdit \in Nat /\ MaxWant \in Nat
    /\ NoOne \notin PeerDevice \union Stage
ASSUME ThreadsAssumption

Group == 1 .. MaxGroup

VARIABLES
    chat,      \* conversations: the group of each device, 0 is no row
    rowid,     \* the place of its row
    thread,    \* threads: where each group stands; without a row, for itself
    known,     \* peer_devices: devices whose identity has been announced
    lists,     \* PEER_DEVICES: the list that came last from a device's person
    of,        \* whom a group is with (the MLS state)
    msgs,      \* messages, by logical id
    letters,   \* the durable queue, as a set
    waits,     \* pending_sends: what waits for a channel
    tracked,   \* delivery records: copies that were queued,
    acked,     \* those the relay has confirmed,
    receipted, \* and those whose recipient sent a receipt
    used,      \* ids in use (history, like all below)
    erased,    \* ids the user deleted or cleared
    waited,    \* ids a copy of which has waited for a channel
    sent,      \* <<id, device>>: copies the relay has taken in
    got,       \* and copies the device has read
    wants      \* requests so far

chats == <<chat, rowid, thread, known, lists, of>>
ticks == <<tracked, acked, receipted>>
past == <<used, erased, waited, sent, got, wants>>
threadsVars == <<chats, msgs, letters, waits, ticks, past>>
-----------------------------------------------------------------------------
(* The store.                                                                *)

What == {"text", "delete", "edit"}
Version == 0 .. MaxEdit
Message == [line : Group, dev : PeerDevice, group : Group, ver : Version, own : BOOLEAN]
Copied == [what : What, id : MsgId, ver : Version, line : Group, dev : PeerDevice]
Waiting == [what : What, id : MsgId, ver : Version, dev : PeerDevice, stored : BOOLEAN]

Listed == {d \in PeerDevice : chat[d] # 0}
Kin(d) == {e \in PeerDevice : PersonOf[e] = PersonOf[d]}

\* list_threads: a line is listed as long as a conversation stands in it.
Lines == {thread[chat[d]] : d \in Listed}

\* The row of a device that has none comes last; one that has keeps its place.
NextRow == 1 + Max({rowid[d] : d \in PeerDevice} \union {0})

\* thread_of_identity: that of the earliest conversation with the person.
Oldest(ds) == {d \in ds : chat[d] # 0 /\ \A e \in ds : chat[e] # 0 => rowid[d] <= rowid[e]}

\* recipients: the devices of the person by the list this device belongs to.
Recipients(d) ==
    IF d \notin known \/ lists[d] = {} THEN {d}
    ELSE {e \in lists[d] : e \in known /\ PersonOf[e] = PersonOf[d]} \union {d}

\* peer_of_conversation: the device whose group has the very name of the line.
PeerOf(line) == {d \in PeerDevice : chat[d] = line}
-----------------------------------------------------------------------------
(* Channels and identities.                                                  *)

\* adopt_thread.
Adopted(d, g) ==
    LET first == Oldest({e \in known : PersonOf[e] = PersonOf[d]})
    IN IF d \notin known \/ first = {} THEN g ELSE thread[chat[CHOOSE e \in first : TRUE]]

\* Mutant: attach_channel does not look for the person's other conversations.
AttachChannel_Alone(d, g) ==
    /\ of[g] = NoOne /\ \A h \in Group : h < g => of[h] # NoOne
    /\ of' = [of EXCEPT ![g] = d]
    /\ chat' = [chat EXCEPT ![d] = g]
    /\ rowid' = [rowid EXCEPT ![d] = IF chat[d] = 0 THEN NextRow ELSE @]
    /\ thread' = IF chat[d] # 0 THEN [thread EXCEPT ![g] = thread[chat[d]]] ELSE thread
    /\ UNCHANGED <<known, lists>>

\* attach_channel: a new group takes the place of the one before it; the first one
\* with a device joins the thread of its person, if we know him.
AttachChannel(d, g) ==
    /\ of[g] = NoOne /\ \A h \in Group : h < g => of[h] # NoOne
    /\ of' = [of EXCEPT ![g] = d]
    /\ chat' = [chat EXCEPT ![d] = g]
    /\ rowid' = [rowid EXCEPT ![d] = IF chat[d] = 0 THEN NextRow ELSE @]
    /\ thread' = [thread EXCEPT ![g] = IF chat[d] # 0 THEN thread[chat[d]] ELSE Adopted(d, g)]
    /\ UNCHANGED <<known, lists>>

\* An invitation (Joined): only the channel.
Joined(d, g) ==
    /\ AttachChannel(d, g)
    /\ UNCHANGED <<msgs, letters, waits, ticks, past>>

\* Announcement::accept: the sender is in it, and all of them are of one person.
Acceptable(d, ds) == d \in ds /\ ds \subseteq Kin(d)

\* merge_threads: the conversations of devices stand in the thread of the earliest.
Merged(ds) ==
    LET line == thread[chat[CHOOSE e \in Oldest(ds) : TRUE]]
    IN [g \in Group |-> IF g # line /\ \E e \in ds : chat[e] = g THEN line ELSE thread[g]]

\* remember_peer_devices: the list is kept for each device in it.
ListKept(ds) == [e \in PeerDevice |-> IF e \in ds THEN ds ELSE lists[e]]

\* Control::Devices: the conversations with all devices of the person come together.
Announced(d, ds) ==
    /\ \E g \in Group : of[g] = d
    /\ Acceptable(d, ds)
    /\ lists' = ListKept(ds)
    /\ known' = known \union ds
    /\ LET all == {e \in known' : PersonOf[e] = PersonOf[d]}
       IN thread' = IF Oldest(all) = {} THEN thread ELSE Merged(all)
    /\ UNCHANGED <<chat, rowid, of, msgs, letters, waits, ticks, past>>
-----------------------------------------------------------------------------
(* Messages.                                                                 *)

\* queue_private_message for ws: own history, the queue and the delivery record in one
\* transaction. A copy of a text that is in the queue already is not queued again.
Twin(w, line) == [what |-> w.what, id |-> w.id, ver |-> w.ver, line |-> line[w.dev], dev |-> w.dev]
NewCopies(ws, line) ==
    {w \in ws : w.what = "text" =>
        ~\E x \in letters : x.what = "text" /\ x.id = w.id /\ x.line = line[w.dev] /\ x.dev = w.dev}
Stored(ws) == {w \in ws : w.what = "text" /\ ~w.stored}
Queue(ws, line, group) ==
    LET new == NewCopies(ws, line) IN
    /\ letters' = letters \union {Twin(w, line) : w \in new}
    /\ msgs' = [i \in MsgId |->
          IF \E w \in Stored(new) : w.id = i
          THEN LET w == CHOOSE w \in Stored(new) : w.id = i
               IN [line |-> line[w.dev], dev |-> w.dev, group |-> group[w.dev], ver |-> w.ver, own |-> TRUE]
          ELSE msgs[i]]
    /\ tracked' = tracked \union {<<line[w.dev], w.id, w.dev>> : w \in {x \in new : x.what = "text"}}

Lined == [d \in PeerDevice |-> IF chat[d] = 0 THEN 0 ELSE thread[chat[d]]]

\* deliver_to_person, for a text: to each device its copy, or the wait for a channel. The
\* devices that have one come first, and the first of all saves our own copy.
SendText(d, id) ==
    LET to == Recipients(d)
        ready == to \intersect Listed
        Copy(e, f) == [what |-> "text", id |-> id, ver |-> 0, dev |-> e, stored |-> e # f]
    IN /\ id \notin used /\ used' = used \union {id}
       /\ \E f \in IF ready # {} THEN ready ELSE to :
             /\ Queue({Copy(e, f) : e \in ready}, Lined, chat)
             /\ waits' = waits \union {Copy(e, f) : e \in to \ ready}
       /\ waited' = IF ready # to THEN waited \union {id} ELSE waited
       /\ UNCHANGED <<chats, acked, receipted, erased, sent, got, wants>>

\* A key package came (on_key_package): the channel is made, and all that waits for it is
\* queued in it.
Open(d, g) ==
    LET mine == {w \in waits : w.dev = d}
    IN /\ mine # {}
       /\ AttachChannel(d, g)
       /\ Queue(mine, [Lined EXCEPT ![d] = thread'[g]], chat')
       /\ waits' = waits \ mine
       /\ UNCHANGED <<acked, receipted, past>>

\* The ticker: what waits for a device that has a channel by now.
OnTicker(d) ==
    LET mine == {w \in waits : w.dev = d}
    IN /\ mine # {} /\ chat[d] # 0
       /\ Queue(mine, Lined, chat)
       /\ waits' = waits \ mine
       /\ UNCHANGED <<chats, acked, receipted, past>>

\* A message from a device, in any group with it: under the thread of that group.
Receive(g, id) ==
    /\ of[g] # NoOne /\ id \notin used
    /\ used' = used \union {id}
    /\ msgs' = [msgs EXCEPT ![id] = [line |-> thread[g], dev |-> of[g], group |-> g, ver |-> 0, own |-> FALSE]]
    /\ UNCHANGED <<chats, letters, waits, ticks, erased, waited, sent, got, wants>>
-----------------------------------------------------------------------------
(* Deleting and editing.                                                     *)

Here(line) == {i \in MsgId : msgs[i] # NoOne /\ msgs[i].line = line}
Without(ids) == [i \in MsgId |-> IF i \in ids THEN NoOne ELSE msgs[i]]
Texts(line) == {x \in letters : x.what = "text" /\ x.line = line}
Shown(line) == Here(line) \union {x.id : x \in Texts(line)}

\* The request to do the same to all devices of the person, if the line is a group with one.
Asks(line, what, id, ver, left) ==
    \/ PeerOf(line) = {} /\ letters' = left /\ UNCHANGED <<waits, wants>>
    \/ \E p \in PeerOf(line) :
         LET to == Recipients(p)
             Request(e) == [what |-> what, id |-> id, ver |-> ver, dev |-> e, stored |-> TRUE]
         IN /\ wants < MaxWant /\ wants' = wants + 1
            /\ letters' = left \union {Twin(Request(e), Lined) : e \in to \intersect Listed}
            /\ waits' = waits \union {Request(e) : e \in to \ Listed}

\* Mutant: what is deleted stays in the queue.
EraseMessage_Late(line, id, both) ==
    /\ msgs' = Without({id} \intersect Here(line))
    /\ erased' = erased \union ({id} \intersect Shown(line))
    /\ IF both THEN Asks(line, "delete", id, 0, letters) ELSE UNCHANGED <<letters, waits, wants>>
    /\ UNCHANGED <<chats, ticks, used, waited, sent, got>>

\* DeleteMessage: what is still queued is not sent.
EraseMessage(line, id, both) ==
    LET left == {x \in letters : x \in Texts(line) => x.id # id}
    IN /\ msgs' = Without({id} \intersect Here(line))
       /\ erased' = erased \union ({id} \intersect Shown(line))
       /\ IF both THEN Asks(line, "delete", id, 0, left) ELSE letters' = left /\ UNCHANGED <<waits, wants>>
       /\ UNCHANGED <<chats, ticks, used, waited, sent, got>>

\* EditMessage: not while a copy is queued.
ReviseMessage(line, id, both) ==
    /\ \A x \in Texts(line) : x.id # id
    /\ id \in Here(line) /\ msgs[id].ver < MaxEdit
    /\ msgs' = [msgs EXCEPT ![id].ver = @ + 1]
    /\ IF both THEN Asks(line, "edit", id, msgs[id].ver + 1, letters) ELSE UNCHANGED <<letters, waits, wants>>
    /\ UNCHANGED <<chats, ticks, used, erased, waited, sent, got>>

\* Control::Delete and Control::Edit of a device, in any group with it. It edits what it sent.
PeerDeletes(g, id) ==
    /\ of[g] # NoOne /\ id \in Here(thread[g])
    /\ msgs' = Without({id})
    /\ UNCHANGED <<chats, letters, waits, ticks, past>>
PeerEdits(g, id) ==
    /\ of[g] # NoOne /\ id \in Here(thread[g]) /\ ~msgs[id].own /\ msgs[id].ver < MaxEdit
    /\ msgs' = [msgs EXCEPT ![id].ver = @ + 1]
    /\ UNCHANGED <<chats, letters, waits, ticks, past>>

\* cancel_pending_thread: what waits for a device whose conversation stands there.
Freed(line) == {w \in waits : chat[w.dev] = 0 \/ thread[chat[w.dev]] # line}

\* ClearConversation: the requests of the queue stay.
ClearThread(line) ==
    /\ letters' = letters \ Texts(line)
    /\ waits' = Freed(line)
    /\ msgs' = Without(Here(line))
    /\ erased' = erased \union Shown(line)
    /\ UNCHANGED <<chats, ticks, used, waited, sent, got, wants>>

\* DeleteConversation: nothing stays in the queue; of the conversations of the thread the
\* one goes whose group named it.
DeleteThread(line) ==
    /\ letters' = {x \in letters : x.line # line}
    /\ waits' = Freed(line)
    /\ msgs' = Without(Here(line))
    /\ erased' = erased \union Shown(line)
    /\ chat' = [d \in PeerDevice |-> IF chat[d] = line THEN 0 ELSE chat[d]]
    /\ rowid' = [d \in PeerDevice |-> IF chat[d] = line THEN 0 ELSE rowid[d]]
    /\ UNCHANGED <<thread, known, lists, of, ticks, used, waited, sent, got, wants>>
-----------------------------------------------------------------------------
(* Delivery evidence. The step of a copy is the furthest it has come.         *)

\* The relay takes in a copy; its confirmation may be lost, and the copy is sent again.
RelayTakes(x) ==
    /\ sent' = sent \union {<<x.id, x.dev>>}
    /\ UNCHANGED <<chats, msgs, letters, waits, ticks, used, erased, waited, got, wants>>

\* acknowledge: the copy leaves the queue as it is ticked off. It was a text, or there is
\* no record of it.
Acknowledge(x) ==
    /\ <<x.id, x.dev>> \in sent
    /\ letters' = letters \ {x}
    /\ acked' = IF x.what = "text" THEN acked \union ({<<x.line, x.id, x.dev>>} \intersect tracked) ELSE acked
    /\ UNCHANGED <<chats, msgs, waits, tracked, receipted, past>>

\* The recipient reads its copy,
Reads(id, d) ==
    /\ <<id, d>> \in sent
    /\ got' = got \union {<<id, d>>}
    /\ UNCHANGED <<chats, msgs, letters, waits, ticks, used, erased, waited, sent, wants>>

\* Mutant: the receipt of one device ticks off the copies of all.
Receipt_All(g, id) ==
    /\ of[g] # NoOne /\ <<id, of[g]>> \in got
    /\ receipted' = receipted \union {t \in tracked : t[1] = thread[g] /\ t[2] = id}
    /\ UNCHANGED <<chats, msgs, letters, waits, tracked, acked, past>>

\* and its receipt (Control::Delivered) ticks off the copy queued under the thread of the
\* group it comes in, if there is a record of one.
Receipt(g, id) ==
    /\ of[g] # NoOne /\ <<id, of[g]>> \in got
    /\ receipted' = receipted \union ({<<thread[g], id, of[g]>>} \intersect tracked)
    /\ UNCHANGED <<chats, msgs, letters, waits, tracked, acked, past>>

StepOf(t) == IF t \in receipted THEN "delivered" ELSE IF t \in acked THEN "accepted" ELSE "queued"
Copies(line, id) == {t \in tracked : t[1] = line /\ t[2] = id}

\* state: the least step of any copy.
State(line, id) ==
    LET steps == {StepOf(t) : t \in Copies(line, id)}
    IN CASE steps = {} -> NoOne
         [] "queued" \in steps -> "queued"
         [] "queued" \notin steps /\ "accepted" \in steps -> "accepted"
         [] OTHER -> "delivered"
-----------------------------------------------------------------------------
ThreadsInit ==
    /\ chat = [d \in PeerDevice |-> 0] /\ rowid = [d \in PeerDevice |-> 0]
    /\ thread = [g \in Group |-> g] /\ of = [g \in Group |-> NoOne]
    /\ known = {} /\ lists = [d \in PeerDevice |-> {}]
    /\ msgs = [i \in MsgId |-> NoOne] /\ letters = {} /\ waits = {}
    /\ tracked = {} /\ acked = {} /\ receipted = {}
    /\ used = {} /\ erased = {} /\ waited = {} /\ sent = {} /\ got = {} /\ wants = 0

ThreadsNext ==
    \/ \E d \in PeerDevice :
          \/ \E g \in Group : Joined(d, g) \/ Open(d, g)
          \/ \E ds \in SUBSET PeerDevice : Announced(d, ds)
          \/ \E id \in MsgId : SendText(d, id) \/ Reads(id, d)
          \/ OnTicker(d)
    \/ \E g \in Group : \E id \in MsgId :
          \/ Receive(g, id) \/ PeerDeletes(g, id) \/ PeerEdits(g, id) \/ Receipt(g, id)
          \/ \E both \in BOOLEAN : EraseMessage(g, id, both) \/ ReviseMessage(g, id, both)
    \/ \E line \in Group : ClearThread(line) \/ DeleteThread(line)
    \/ \E x \in letters : RelayTakes(x) \/ Acknowledge(x)

ThreadsSpec == ThreadsInit /\ [][ThreadsNext]_threadsVars
-----------------------------------------------------------------------------
ThreadsTypeOK ==
    /\ chat \in [PeerDevice -> 0 .. MaxGroup] /\ rowid \in [PeerDevice -> Nat]
    /\ \A d \in PeerDevice : chat[d] # 0 => of[chat[d]] = d
    /\ thread \in [Group -> Group] /\ of \in [Group -> PeerDevice \union {NoOne}]
    /\ known \subseteq PeerDevice /\ lists \in [PeerDevice -> SUBSET PeerDevice]
    /\ msgs \in [MsgId -> Message \union {NoOne}]
    /\ letters \subseteq Copied /\ waits \subseteq Waiting
    /\ tracked \subseteq Group \X MsgId \X PeerDevice /\ acked \subseteq tracked /\ receipted \subseteq tracked

\* Once we know that devices are of one person, their conversations are one thread,
\* whatever channels are replaced, announced or deleted after that (client.rs:1222-1305).
OneLine ==
    /\ ThreadsTypeOK
    /\ \A d, e \in known : PersonOf[d] = PersonOf[e] /\ chat[d] # 0 /\ chat[e] # 0
                           => thread[chat[d]] = thread[chat[e]]

\* What the queue still holds of a message is what the user sees of it: he has not deleted
\* or cleared it, and has not edited it (client.rs:1109-1157, anon_queue.rs:95-112). A copy
\* that waited for a channel is not covered: neither command looks there.
QueueIsAsShown ==
    \A x \in letters : x.what = "text" /\ x.id \notin waited =>
        /\ x.id \notin erased
        /\ msgs[x.id] # NoOne => x.ver = msgs[x.id].ver /\ x.line = msgs[x.id].line

\* What is shown of a message's way is true of every copy that was queued: "delivered" was
\* read by each device, "accepted" is at the relay and will not be sent again, and only
\* what is still in the queue, or was deleted there, is "queued" (delivery.rs).
TicksAreTrue ==
    \A line \in Group, id \in MsgId :
        LET copies == Copies(line, id)
            Queued(t) == \E x \in letters : x.what = "text" /\ <<x.line, x.id, x.dev>> = t
        IN /\ State(line, id) = "delivered" => \A t \in copies : <<id, t[3]>> \in got
           /\ State(line, id) = "accepted" =>
                 \A t \in copies : <<id, t[3]>> \in sent /\ (Queued(t) => <<id, t[3]>> \in got)
           /\ State(line, id) = "queued" =>
                 \E t \in copies : Queued(t) \/ id \in erased

\* A message of a channel in use can be found in the list of conversations. The comment on
\* merge_threads says so (client.rs:1289-1290): "Нитью становится самая ранняя из групп: под
\* ней уже лежит история, и переносить сообщения не требуется".
HistoryShown ==
    \A i \in MsgId : msgs[i] # NoOne /\ chat[msgs[i].dev] = msgs[i].group => msgs[i].line \in Lines
=============================================================================

# Valanium in TLA+

A verification project for Valanium: an end-to-end encrypted messenger made of a
relay (`valanium-server`, TypeScript on uWebSockets and SQLite), a client core
(`valanium-core`, Rust) under several applications, and a separate VPN product
(`valanium-vpn-main`, Python and Rust). The modules here are translated from the
source; `PROJECT.json` maps each definition to the lines it stands for.

The promise a messenger lives by is that *every message arrives, once, in an
order its recipient can decrypt*. No single function of the code implements it. It
follows from the relay's queue, the client's durable outbox, the client's handling
of what it receives, and what each of them does when a socket dies in between.
`Relay`, `Outbox` and `Delivery` model that chain, `Contact` its beginning, before
there is a channel to write on. Around it: who may connect and enter (`Gate`), who
may write to whom (`Door`), and how an account reaches a second device (`Pairing`).
`Groups` is about what the chain carries: the commits that take the members of an MLS
group from one epoch to the next; `Calls` about its most impatient messages. `Engine`
runs the client over one database in every phase of a connection, `Supply` keeps its
anonymous sends going, `Profile` and `Onionize` are the files and the Tor process of
the desktop around it. `Threads` is what the user is shown of all that, `Announce` and
`Showcase` what others are told and shown of him, `Routes` the entrances the client
takes. `Tunnel` and `VpnClient` are the two ends of the VPN.

## 1. The system

| Component | State | Operations | Modules |
|---|---|---|---|
| Relay queue and sessions (`ws/session.ts`, `ws/registry.ts`, `db/index.ts`, `index.ts`) | on disk: `envelopes`, `envelope_retries`, `devices`; in memory: the registry, per connection `devicePub`, `queueInflight`, the bytes uWS has not sent | SEND, SEND_ANON, AUTH, ACK, the uWS drain and close callbacks, DEVICE_REVOKE(_OTHERS), the sweep, restart | `Relay`, `Mailbox` |
| Client outbox (`anon_queue.rs`; `flush_anonymous`, `pump`, `session` in `client.rs`) | on disk: `anonymous_outbox_v1`, the delivery policy, the directory of blocked people; in memory: `direct_inflight`, `anon_inflight`, retry deadlines, the outcome channel | queue on and off line, flush, SEND_OK, outcome, retry, timeout, cancel, clear, forget, block, maximize privacy, reconnect | `Outbox` |
| Client inbox (`on_envelope` in `client.rs`, `process` in `mls.rs`) | on disk: history, MLS snapshot, `failed_envelopes`; in memory: the MLS groups | read, repeat, first miss, second miss, ACK | `Delivery` |
| First contact, pending sends, key packages (`client.rs`, `mls.rs`; the pool of packages in `session.ts` and `db/index.ts`) | on disk: conversation rows, what waits, the durable queue, MLS groups and keys; in memory: the claims of a connection | write on and off line, claim, answer, tick, publish, join, repair, clear, delete, block | `Contact` |
| Access policy and passes (`access.rs`; `ws/session.ts`) | at the client the rule, the book of passes and the gifts in the queue; at the relay `dmPolicy` and the passes | grant, revoke, close and open the door, approve, forget, block, maximize | `Door` |
| Admission (`ws/session.ts`, `auth/nonce.ts`, `util/connections.ts`) | connection counters, one-time challenges | open, close, AUTH, PAY_REQUEST, CALL_JOIN, sweep, restart | `Gate` |
| Payments (`ton/`, `admit`) | invoices, scan cursor, credits, invites | poll, credit, settle, consume, expire | `Payments` |
| Call relay (`ws/calls.ts`) | rooms of two slots | join, pass media, leave, expire | `Rooms` |
| Anonymous tickets (`auth/tickets.ts`) | the spent map in memory, the key on disk | issue, redeem, sweep, restart | `Tickets` |
| MLS groups (`mls.rs`; the group commands, `rekey_stale`, `on_envelope` in `client.rs`) | on disk: the MLS snapshot (tree, epoch, retained epochs), descriptions, conversation rows | create, invite, remove, rotate, write, forget; join, apply, read, miss | `Groups` |
| Device pairing (`pairing.rs`, `store/link_history.rs`) | on each device a session, its task, the stage and the command queue | show, scan, confirm, cancel, snapshot, stage, install | `Pairing` |
| VPN control plane and nodes (`main_server`, `vpn_node`) | accounts, devices, subscriptions; on the node `peers.json` and the live interface | enroll, register and drop a peer, revoke, expire, count traffic, bonus, toggle | `Tunnel` |
| VPN client (`vpn_client/src-tauri`) | one mutex each: status, tunnel, masking relay, token, keys, settings; on the machine: rules, binding, routes | enrol, sign in, connect, toggle, disconnect, settings, revoke, sign out, quit, the tray | `VpnClient` |
| Call sessions (`calls.rs`, `calls/runtime.rs`) | a call per device with a timer or a media task; calls and probes remembered | start, accept, reject, end, probe, signals, ticks | `Calls` |
| Engine (`client.rs`, `engine_lock.rs`, archive of `store.rs`) | the lock on the database, the credentials, the ratchet on disk and in a session, the phase of a connection | open, begin, attempt, AUTH, retry, close, queue, export, import | `Engine` |
| Supply of anonymous sends (`client.rs`) | tickets, prepared sockets, timers | flush, maintain, ask, build, heartbeat | `Supply` |
| Desktop profiles (`main.rs`, Windows) | the key file, the database, the pointer to the profile | start, unlock, set a password, move an old key, open and leave a session | `Profile` |
| Tor of the desktop (`onionize.rs`) | the process handed over, its address, the installation | status, install, start, stop | `Onionize` |
| History, threads, delivery evidence (`store.rs`, `delivery.rs`; `attach_channel`, `merge_threads`, `deliver_to_person`, the edit and delete commands in `client.rs`) | on disk: conversations, threads, devices of a person, messages, delivery records, pending sends | send, store, attach, merge, list, edit, delete, clear, confirm, receipt | `Threads` |
| Rules, pins and the books of who was told (`client.rs`, `access.rs`, `privacy.rs`, `pins.rs`) | on disk: rules, standings, pins, the lists of who was told devices, name, key | own devices arrive, grant, set rules and name, maximize, pin, attach, drop | `Announce` |
| Profile at the relay (`client.rs`, `profile.rs`; `onProfileSet` in `session.ts`) | on disk: rules and name, a publication under way; at the relay the row of the profile | link up, set rules, name, picture, ornaments, get, restore | `Showcase` |
| Entrances (`client.rs`, `onion.rs`) | on disk: onion hosts and their stamp, the policy; in memory the routes of a session | begin, try, HELLO, next route, maximize, end, anonymous socket | `Routes` |
| Sealed store, cryptography, channels, support desk, Android, the site | | | not modelled, see section 7 |

How they interact. A sender's outbox writes a frame to its authenticated socket
(SEND) or to an anonymous onion socket (SEND_ANON, paid with a ticket). The relay
stores the envelope with a retry record and hands it to every session of the
recipient's device at once; on AUTH it drains the stored rows in batches of 200 and
waits for their ACKs before the next batch. The client decrypts, saves,
acknowledges; the ACK deletes the row. A device without a channel is reached by a
key package, which the relay hands out once. Passes and everything else that clients
tell each other travel as such envelopes. Nothing is shared but the socket and, on
each side, a database. The VPN's control plane calls the agent of a node over HTTP;
each has a store of its own.

What is hard: backpressure and ACKs that between them must always leave one party
to resume a queue; live frames that overtake the backlog; SEND_OK lost after the
row was stored; two routes with different latencies to one recipient; a killed
client between storing a message and acknowledging it; user commands and policy
switches in the middle of sends; claims in memory for messages on disk; frames
that are written and never confirmed while what they say is written down; handlers
that interleave at every await over two databases; one of several steps that fails.
The list with the lines where each bites is `hazards` in `PROJECT.json`.

## 2. The modules

### Relay, Mailbox

Handlers of the server are synchronous JavaScript over synchronous SQLite, so one
handler is one step; handlers of different sockets, the clock, the sweep and a
restart interleave. `Drop` is what is lost with a connection, `Restart` drops all.
A *letter* stands for what `retryDigest` hashes; a letter sent again is the retry
of a sender that saw no SEND_OK. `told` records who was answered.

`DrainQueue` is `drainQueue` with all that uWS may answer: a row is sent, buffered,
or refused, and what is buffered stays (`pressed`) until the drain callback.
`Deliver` is `Registry.deliver`, which ignores what `send` returns: a session under
backpressure may miss the frame. `out` is a history of what was written to each
connection; no action but `Record` reads it. AUTH is entered with the
credentials checked; invites and payment belong to `Gate`.

`Mailbox` is the promise to a sender about one letter: taken in once, held until
settled, confirmed only if taken in, and remembered exactly until its retention ends:
no earlier (a sweep or a restart that forgot it would let a retry in twice) and no
later. `PromiseKept` says that `Relay` implements it under the mapping `Slot`,
`Until`, which reads the retry record, the row and the clock.

### Outbox

`pump` is one task on a current-thread runtime: each event it handles, with the
`flush_anonymous` that follows, is one action, and an aborted task has no further
effect. `ready()` is translated as sets (`Candidate` is the envelope that stands
for one device, `Ready` the best of these). The two routes keep separate in-flight
sets. `wire` holds frames written and not yet read by the relay: they survive the
connection they were written to, may be delayed at will, and may be lost
(`Lose`). The relay appears as the log of first acceptances, which `Relay`'s
`OneLiveCopy` justifies.

Left open: how many tickets, prepared sockets and routes there are (a flush starts
any number of the anonymous sends that `ready()` offers, best first); whether
sends to a blocked device skip the flush for a reason of pinning or of blocking.
Left out: the encryption, and the guard that PRIVACY_MAXIMIZE waits for pass gifts
(an account already restricted skips it, so the command is allowed at any time).
`queue_offline` and the group fan-out queue a batch for all devices at once; a
personal message to several devices is queued device by device and is covered by
threads of one device.

### Delivery

Composes `Relay` (every action of it that concerns one receiving device and its
senders) with `on_envelope`. `ReadEnvelope`, `Repeated`, `FirstMiss`, `SecondMiss`
are its four outcomes; `Unreadable` and `Processed` are the verdicts of
`Mls.process`. `mem` is what the MLS state in memory has processed, `disk` what its
snapshot and the history contain: a kill or a reconnect goes back to `disk`. ACKs
travel in order on their connection and may reach the relay after the client left
it. An old session may linger beside the new one.

A frame of a connection is known by the entry of `out` it is in and its number; `pos` is the
one handled last, and `NextFrame` the least that is `Unread`. `Before` is the order the
sender's outbox guarantees (`Outbox!InOrder`): the
relay accepts a letter only after those before it. `Needs` names the Welcome or
commits a letter cannot be read without. The message ratchet of OpenMLS is
external: a sender's sequence and the tolerance after which it answers "too old".
Letters do not expire and are not sent again here (`MaxTime = 0`); those are
questions of `Relay`. Past epochs that OpenMLS retains are not modelled.
`InOrderAndStored` is what the promise rests on: a letter is queued behind what it
needs, no sender runs ahead of the tolerance of his ratchet, and the snapshot is saved.

### Contact

Two people who know each other's devices, and no channel yet, or one that only one
end still has (a paired device receives conversations without their MLS groups).
The client is one record, `client[d]`, and each operator takes it to its next
value: `Deliver` decides between the channel, the box of what waits and a claim;
`Opened` is `on_key_package`; `Repair` is `repair_missing_channels`; `Join` and
`Attach` are what an invitation does at the other end. `Full` is the refusal that
rolls a step back, the ratchet in memory included. `Left` is what the end of a
connection or a kill leaves: the store, and nothing of the claims. `waiting` is the
box on disk, `outbox` the copy a session works from. Key packages are numbered;
`keys` holds the private halves. Groups are named by who made them from which
package. Envelopes travel in order and reach a reader once, as `Outbox`, `Relay`
and `Delivery` establish; the second sight of what cannot be read is there.

Left out: pins, group invitations (`Claim::Invite`), the sender's own copy in its
history, and the group of a blocked sender's invitation, which is held in memory only.

### Groups

The MLS groups of three devices, created as what `kind` says: a conversation of two
(`Founded`), a chat or a channel. A state of a group is the path of the commits that
led to it, so that a fork is two paths of one length, and the tree is computed from
the path (`Leaves`: a new member takes the first empty leaf, as in OpenMLS). `Rotate`
is `rekey_stale`: the member with the least key, after QUEUE_DONE (`Drained`: what was
missed in an earlier session has been looked at again), with nothing of the group in
its queue. `FinishInvite` queues the commit, the Welcome and the description one after
the other; `n` is how many of these were queued when a full queue or a kill stopped
it. `GroupRemove` may stop between saving and queueing. `way` is the durable queue for
each pair of devices, `mail` what the relay keeps for one, with the mark of a first miss.
`Known` and `Sender` are `apply` in `mls.rs`: the epochs that are still readable, and
the author looked up by leaf index in the current tree. `Show` refuses what a member
other than the owner wrote in a channel. `lost` and `given` are histories: devices that a
failure, or two misses, deprived of a commit, and texts given up with the state of the reader.

Left out: pins, the claim of a package for an invitation, blocked members, the invitation
of a device that was a member before, private messages on a row that a group took over, the
sender's own copy of what it wrote. The description of a group is sent in channels
only, as it decides nothing in a chat. `OnePath` ends a behaviour at a fork.

### Door

One owner and the peers that may write to it. The owner's side is `client`:
the rule (`scope`), the book of passes (`granted`), who stands in the directory.
`Grants` is `grant_missing` as the set of its outcomes: the revoke frames, then for
each peer a frame and a gift and the book saved at the end (`Whole`), or an error after any of
these (`Cut`). `frames` are written to the relay and may be lost with the connection;
`queue` and `box` carry the gifts through the durable queue. `broken` records the
passes for which something of this was lost. The relay's side is `dm` (its policy) and
`passes`, with the limit whose refusal nobody reads.

### Gate, Payments, Rooms, Tickets

`Gate` is the sockets of the relay before they have a name: open, challenge, AUTH
or PAY_REQUEST, CALL_JOIN, an anonymous SEND, close, each handler one step with the
`sock.end` it makes: ending a media socket runs the close handler of the other
end of the call within the same step (`Ended`, `Leave`). It extends `Payments`
(invoices, the watcher with its page limit and cursor, crediting, consumption) and
instantiates the state machines of `Rooms` and `Tickets` as operators over its
variables. A scan awaits the lite servers; what follows is synchronous, and
`CrashInScan`, `CrashInAuth` kill the process between two statements of it. A
transfer is known by its place in `chain`; `funded`, `entered` and `lapsed` are histories.

### Pairing

Several devices, one of them with an account. Three actors on each: the user's
thread (a cancellation bumps the epoch and aborts the task before its command is
handled), the core, which handles one command at a time and alone writes to the
store, and the task of the session. A task that gives reads a snapshot of its own;
its records are numbered, and the first says how many messages follow. A task may fail wherever it waits (`Fail`), an
aborted one may finish what it does before it is dropped (`Dropped`), and its
cleanup is a command that may come after the next session has begun.

### Tunnel

One account of the VPN and one node. A call is a handler or a job of the scheduler
between two awaits: `seen` holds the rows as its session loaded them, `mine` the
objects it changed, and a commit writes the columns in which they differ
(SQLAlchemy); a session that has flushed holds SQLite's write lock. The agent of
the node handles one mutation at a time and saves `peers.json` before it synchronises the
interface. Faults of the node: unreachable, an answer that is lost, an interface
that could not be synchronised, a restart that clears the counters. `excused` names
the peers lost for a reason the code has no answer to, `clash` the kinds of trouble
there have been; the properties say what holds without them, so each reason is visible.

### VpnClient

The process of the VPN client. A command is a task between two awaits or two locks; the
tunnel's mutex is held through all of `configure_networking`, so bringing a tunnel up is
one action (`Raise`) that any of its system calls may cut short. `os` is what outlives
the process; `stranded`, `half` and `events` are histories of what the code has no repair
for, and the properties say what holds without them. It shares a run with `Tunnel`, one half
moving at a time: the client sees the control plane as answers that come or not.

### Calls

Two devices that may call each other, with clocks that differ. A signal is a message
that may be late, lost, or overtake another. A lost device is noticed lazily: every
entry prunes first, so an `Active` that is not alive is as none. Only the abort of a
media task comes from the user's thread, ahead of its command (`orders`). `Busy`, `Reject`
and `End` differ in wording only. The sound itself is `Rooms`.

### Threads

The conversations of one device with people of several devices. `chat` is the group of each
device, `thread` where each group stands; `Announced` is `remember_peer_devices` with
`merge_threads`, `AttachChannel` the replacement of a channel with `adopt_thread`. A message is stored,
queued and ticked off under the line its group has at that moment. `letters` is the
queue and `waits` is `pending_sends`; how these are emptied say `Outbox` and `Contact`. `State` is the
aggregation of `delivery.rs`. `used`, `erased`, `waited`, `sent`, `got` are histories. A receipt
comes from a device that has read, once or more often, at any time.

### Announce

What a contact is told inside his channel, each once: the list of the user's devices, his
name, the key of his picture. `DevicesArrive` and `GrantMissing` queue letters one by one and save the
book of each kind at its place in the code; `whole` and the sets of peers say how far they came before
a full queue (`DevicesTorn`: a kill between the two saves). `post` are the letters on their way to a
peer, with the channel they were written in; what is written in a channel that was replaced or
deleted is lost. `missed` names, per peer and kind, what a book may be wrong of by the code's own design.

### Showcase

The relay's row of a profile and one device that writes to it. `Restore` is the name that is set
again after each login; `Picture` and `Ornament` are numbered in the order they were published. Frames keep their order and
are lost with the connection, answers too. `pub` is the publication no answer has shown yet.

### Routes

`Hello` takes a signed list into the two settings, one save after the other; a session computes
its routes once, when it begins (`RoutesFor`), and moves on along them (`TryNext`); `Maximize` is the command in
each phase of a connection. `Anonymous` picks from the list saved at that moment.

### Engine

Processes that may open the one database, killed at any time. `core` is the phase of
each: at rest, opening a connection, in the handshake, established, waiting, in a
pause. `gen` is the sending ratchet on disk, `mem` that of a session: what is written
without a connection advances the one on disk. `late` holds the AUTHs on connections the
client gave up, which the server may still handle. Routes, their rotation and back-off
are left out: an attempt fails or does not.

### Supply

What `Outbox` leaves open: the tickets, the prepared sockets and the times `pump`
sleeps until. `Refill` is `flush_anonymous` with `maintain_anonymous_prewarm` and the
request for tickets; a clock is `none`, `armed` or `due`. Aborted builders stay in the
`JoinSet` until they are joined, and each counts for the pool meanwhile. Letters to one
device hold each other back unless they are light. Missing routes are left out.

### Profile, Onionize

`Profile` is two copies of the desktop application over the key file, the database and
the pointer to the profile, each command a sequence of single writes between which it
may be killed; `overlapped` is set where commands of two copies run at once, for which
nothing is promised. `Onionize` has a thread per command and the mutexes START, INSTALL
and RUNNING; a process dies by itself at any time. `crossed` is set by a stop that falls
between the two lines that publish a process.

## 3. Runs

| Run | Question | Result |
|---|---|---|
| `relay_devices` | three devices of an identity, two sessions, quotas, revocation, passes, retries against clock, sweep and restart | `OneLiveCopy`, `PromiseKept`, `NoSessionAfterRevocation`, `KeptForRecipient` hold |
| `queue_contact` | one session, batches, every pattern of backpressure, live frames and ACKs, a client that reads and acknowledges; and two people who write first, crossing or with a channel lost at one end, against broken connections, refused claims and every command | `NoStalledQueue`, `DrainInOrder`, `QueueDoneIsTrue`, `BacklogDrains`, `KeptAndRead`, `Arrives` hold |
| `talk` | all user commands in the middle of sends over two routes with loss and delay; two devices of a person whose channels are made, replaced, announced and deleted while messages to them are written, edited, deleted and ticked off; a contact who is told things; a profile; entrances | `NothingLost`, `OnionStaysAnonymous`, `InOrder`, `OneLine`, `QueueIsAsShown`, `TicksAreTrue`, `BooksAreTrue`, `ShownIsSet`, `RoutesHold` hold |
| `outbox_fair` | one slot, two devices and a group, policies that change; nothing is deleted and nobody blocked | `Delivered` holds |
| `client_parts` | pairing with cancellations, replaced sessions, restarts and streams that stop short; the engine, killed and raced by a second one; the supply; two copies of the desktop, killed between any two writes; its Tor | `WholeOrNothing`, `CancelHolds`, `RatchetOnce`, `NeverTurnedAway`, `NeverAsleep`, `KeyOpens`, `TorOwned` hold |
| `delivery_order` | two commits, a message that needs both, garbage, live frames ahead of the backlog, a lingering session; and calls whose signals are late or lost | `NoMailLost`, `CallsKept` hold |
| `gate_entry` | two people, an invite, invoices, three sockets under every cap; the watcher, expiry, kills | `BookedOnce`, `PaidIsKept`, `StaysOpen` hold |
| `groups_door` | a conversation of two, a chat, a channel; commits, texts and failures in every order; and an owner who closes, opens, approves, forgets, blocks and revokes while connections break at any frame | `GroupsRead`, `BookIsTrue`, `ClosedAfterGranted` hold |
| `tunnel_calls` | handlers and scheduler jobs interleaving, two at a time, over a node that fails in every way; two commands of the client at once, over system calls that fail | `NoUnexplainedOrphan`, `AccessIsGranted`, `NeverOvercharged`, `MachineKept`, `PartsAgree` hold |
| `delivery_ratchet` | documented behaviour of the inbox | `RepeatedMeansRead` violated, see section 5 |
| `supply_spin` | documented behaviour of the timers | `NoSpin` violated, see section 5 |
| `threads_history` | documented behaviour of merged threads | `HistoryShown` violated, see section 5 |

Some of these are conjunctions of named parts: `DrainInOrder` is `DrainedOnce` and `SecondSightInOrder`, `KeptAndRead`
is `KeptOnce` and `CanBeRead`, `CallsKept` is `EndsOnce` and `MediaAfterConsent`, `BookedOnce` is `TokensOnce` and
`PaymentSeen`, `GroupsRead` is `NobodyLeftBehind` and `ReadInTurn`, `MachineKept` is `NothingForgotten` and `UpIsProtected`.

Modules that share no state are checked in one run where both are small
(`MCContact`, `MCCalls`, `MCTunnel`, `MCClient`, `MCGroups`, `MCTalk`): TLC explores the states of one while
the others are as they were in the beginning, which is each of them on its own. In
`MCContact` the fairness of `Contact` is asked for only there.

### Bounds

They are in the `.cfg` files. The constants that matter were chosen so that the
limit is met: batches of one or two rows for queues of two or three letters,
quotas that a third letter exceeds, one or two slots for three envelopes, one
pass at the relay for two peers, one room, one spent ticket, two challenges for three sockets,
one device on a plan that two ask for.

Why they are enough. The relay treats letters alike and sessions separately,
so that its errors need at most two rows of one device around a batch boundary, or
one letter and its retry around a retention boundary; three letters and batches of
one or two contain both. An order violation of the outbox needs two envelopes, a
third shows that the barrier also holds across a chain. A first contact has two
ends; the interesting histories (crossing invitations, a claim lost with its
connection, a channel that only one end has) need one message of each side and one
command, and `PerConnect` more packages than claims. Of the ticker's refusal
(a full queue) only the rollback in `on_key_package` is reached. The
door needs a peer that gets in and one for whom there is no room. Pairing needs a
session and the one that replaces it, or a second receiver. A text of a group must be
able to fall out of the retained epochs: two are retained (three in the code) and a
conversation of two has four commits (`Limits`); chats and channels have three, enough for an
invitation, a removal and an invitation that takes the empty leaf. The VPN client has two
nodes, two commands at once and four in all, which contains a connection to the second
node over a failed first. Calls have two devices whose clocks are one apart, two calls,
and a restart; a third party would be one more call that finds a device busy. Two engines,
three messages and two kills contain a session overtaken by what was written without
it. The supply has two letters to one device, one of them light, for two flights. Two
copies of the desktop and two secrets contain both overwriting each other's key; three Tor
processes one that runs, one that starts and one that is orphaned. Threads need two devices of one
person, so that their groups can be merged before and after a message is written, and a third
group for a channel that is replaced; what is told, one peer with two channels and two lists, so
that a letter can be of an older list or an older channel; a profile, two publications of which
the first can be answered while the second is on its way; routes, a host of the build, one
that was retired, one that is named, and junk. `Small` and `Slim` in `MCTalk` keep one kind of
letter in play at a time, and changes and ticks apart.

`MaxRef`, `MaxSeq`, `MaxTime`, `MaxMade`, `MaxCalls`, `MaxPeer`, `MaxEvents`,
`MaxSession`, `MaxNonce`, `MaxTicket`, `MaxGen`, `MaxTor`, `MaxGroup`, `MaxList`, `MaxChan`, `MaxIssue` and the like bound what only grows. Views and constraints:
`WithoutLog`, `WithoutSpent` and `WithoutRead` merge states that no action and no
property of the run tells apart (frames already read, late frames of envelopes that
are settled). `FewFrames` bounds what is written and not read, to one policy at a
time. `OnePath` stops at a fork of a group, which nothing can mend.
`OnePart` lets one of payments, calls and tickets be in play, which share only
the sockets and the clock. `FewParts` takes two sessions, or two messages, or a third
device. Symmetry is used where values are only compared: connections of the relay,
handlers, peers, people, rooms, two sockets of one address; no liveness is checked under it.

Deadlock is not checked: a bounded history may end, and an idle messenger is not an error.
That something goes on is what the liveness properties, `NoStalledQueue` and `NeverAsleep` are for.

### Fairness

`Relay!FairSpec`: the socket of a live client is flushed in the end, and every
envelope written to it is answered by an ACK (`on_envelope` ends in one, apart from
a first miss). Nothing is assumed of senders, new sessions, the sweep or time.

`Outbox!Fairness`: `pump` handles what it is told (its `select!` polls every
branch); a session reconnects; the 45 s deadline of a direct send fires; a route
for some anonymous send is found; an anonymous task ends within its timeout.
Strong fairness is assumed of the network alone: of infinitely many attempts one
gets through. `Delivered` is about connections that stay up from some time on.

`Contact!FairSpec`: weak fairness for each device of its reconnection (`session` loops),
its ticker, its handling of what it reads, of the relay's handlers of its frames
and of the acceptance of its queue. Nothing is assumed of users, of refusals or of
broken connections: the number of these is bounded, so from some time on the
connections stay up.

## 4. What is proved

Every theorem is about the specification of its module as TLC runs it, for every value
of its constants that satisfies the named assumption of the module (types of the
constants, little more: finitely many devices in `OutboxAssumption`, without which a
fan-out has no size, and finitely many peers in `DoorAssumption`, which are listed; in `CallsAssumption` that talkers have clocks; names for
"nothing" that name nothing else; in `RoutesAssumption` that the lists of the build are as `onion.rs` has them). Each
rests on an invariant that is inductive; where the property is not, the list says what it
had to be strengthened by, which is what the code relies on. The
invariants were checked by TLC on the runs' instances before they were proved.

`RelayProofs`, `QueueProofs`: the relay.

- `TypeCorrect`; `OneCopy`: one live row per letter. It is not inductive: a row could be in
  the queue without a retry record. The strengthening `Remembered` says
  that every live row of a letter is the one its retry record names and
  expires with it, which `enqueueOnce` establishes in one transaction and
  the sweep keeps because it removes rows and records by the same comparison.
- `RevocationEndsSessions`: a session belongs to an active device; inductive with the types.
- `RelayKeepsPromise`: the refinement of `Mailbox`, from the same invariant: each
  action maps to an action of `Mailbox` or leaves `Slot` and `told` alone.
- `AcceptedMailIsKept`: `KeptForRecipient`, from the types: of all actions only ACK, a
  revocation and the sweep remove rows, the first of a device that has a session, the
  second of devices it marks, the third what has expired.
- `QueueDoneTellsTheTruth`: `QueueDoneIsTrue`. Only `drainQueue` appends QUEUE_DONE, behind
  a batch of fewer than `DrainBatch` rows; `ShortBatchIsAll` shows that such a batch is
  everything pending, because the rows before the first one left behind would have
  filled it. That a least row exists needs a finite table, which is inductive.
- `DrainInOrderHolds`: `OrderInv`, for each session (`Orderly`): batches are
  disjoint, each with all that is older and still pending than its rows; a live frame is the
  first with its number; of the rows handed out, those still in the table are
  in `queueInflight`, which is why the next batch cannot take one again.
- `QueueNeverStalls`: `NoStalledQueue` is inductive with the types and a finite
  table. A batch that was cut short by backpressure leaves a drain callback,
  a full one leaves ACKs, and only the one who takes the last of them away calls `drainQueue`.

- `NoMailLostHolds`: of the relay and the inbox together, under `InOrderAndStored` (section 2), which TLC evaluates on
  the run's instance. `MailInv`: numbers are given in the order letters are accepted, so what a letter needs has a
  smaller one (`Books`); only what is settled was acknowledged, on any connection (`Reader`); what was read of a batch
  is settled, and no live frame yet to be read was missed before (`Seen`). The relay's own invariant `OrderInv` is inherited,
  as each step here is a step of the relay or leaves it alone (`StepsOfRelay`). The argument: a batch takes all older pending rows along,
  so what the queue hands out can be read or never will; a live frame that overtakes something is new
  to the reader, who forgives it; so what misses a second time does so from the queue, and is garbage.

`OutboxProofs`: the client's outbox.

- `OutboxTypes`: type correctness, and that what is in flight belongs to a live connection.
- `OnionNeverDirect`: strengthened by "no connection, nothing in flight on the
  authenticated socket". The policy changes only where no connection is up, or
  together with the end of it, so the set in flight is empty whenever it changes.
- `NoEnvelopeLost`: strengthened by `SuccessIsTrue`: every SEND_OK and every
  successful outcome under way speaks of an envelope the relay accepted. Then the
  only steps that shorten the queue remove what is accepted, expired or was
  removed by a command.
- `InOrderHolds`: `InOrder` speaks of what the relay accepted, which a late frame of
  a dead connection can still change. The invariant is about all that was ever written: no
  envelope has been sent (`Sent`) while an older one that it is `Tied` to still stands in
  the queue (`InTurn`), and of two in flight to one device none is tied to the other.
- `NeverAsleepHolds`: of `Supply`, inductive with the types and "who is blocked is blocked
  with all that waits for him" (`MutedByDevice`). Nearly every event ends in `Refill`, and it leaves each
  letter either in a set of choices as large as what tickets, sockets and slots allow, or with
  what it lacks on the way (`RequestedIs`, `MaintainedIs`); the few that do not take nothing a letter was waiting for.

`EntryProofs`: admission.

- `BookedOnceHolds`: `TokensOnce` and `PaymentSeen`. Who came in did so by a token that is used up (`Book`): an invite
  that is gone, or a transfer whose invoice is gone, and references are not given twice. The map
  of spent tickets holds each that was accepted and has not expired (`TicketInv`): the sweep
  removes one no earlier than its expiry.
  `PaymentSeen` is inductive with the types and `PaidTrue` (an invoice is paid by a transfer
  that names it); a scan moves the cursor only after its last credit.
- `PaidIsKeptHolds`: the same invariant; case by case, what may remove a paid invoice.
- `StaysOpenHolds`: `GateInv`, of the sockets, counters and rooms together (`House`): a socket is marked
  as unnamed exactly while it has no name and no seat (`Marked`), the counters are the cardinalities
  of these sets (`Counted`), and a room has a seat taken and each seat is of a member of it
  (`SeatedRight`). It is stated of values and not of the variables, because a frame that
  ends several sockets passes through houses that are no state of the program. With it, challenges and
  references are drawn once (`RowsTrue`, `IssuedTrue`), and the spent tickets stay below their cap (`SpentFew`).

`TalkProofs`: calls, and what a device keeps and tells.

- `CallsKeptHolds`: `CallInv`, both of its parts together with what they
  need. An identifier not yet given has left no trace anywhere (`Unborn`); one pair
  speaks of each call (`OnePair`); while an offer is on its way its call is unknown to the callee, or
  over there and remembered until the offer is stale (`OffersNew`); nothing has ended of what an
  unanswered probe asks for (`AskedNew`); an Accept on the way is of a call the callee agreed to (`Accepts`).
- `OneLineHolds`: `ChatsOK`. A group stands under a group with the same person (`ThreadsStand`); the group of a
  conversation that others stand under stands for itself (`Heads`), which is why moving the groups that
  stand under it moves all of them; a device nobody has announced stands under groups of its own (`Strangers`).
- `QueueIsAsShownHolds`, `TicksAreTrueHolds`: `MailOK` on top of it. A device gets one copy of a message, which is in
  the queue or waits (`Single`); all queued copies of one message are of one line (`AsShown`); a record that
  the relay confirmed has no copy left to send, and one it has not is queued or was deleted (`Ticks`).
- `BooksAreTrueHolds`: `AnnounceInv`. Beside the property: the last letter with a key is in the channel of
  today (`KeyTold`), as one of an older channel would be lost and leave the book wrong.
- `ShownIsSetHolds`: `ShowcaseInv`. The property speaks of what the relay has read; the invariant of all frames on their way:
  the last one with a name is the name the rules allow (`NameSettled`), and numbers grow towards the end (`InTurn`).
- `RoutesHoldAlways`: `RoutesHold` is inductive by itself.

`DesktopProofs`: the desktop, the engine it starts, and the door its owner keeps.

- `KeyOpensHolds`: `ProfileInv`. Unless commands overlapped, what a command has looked up is still
  so at each of its later lines (`CommandTrue`), and an engine runs under the secret of the key file.
- `TorOwnedHolds`: `OnionInv`, which says for each line of the start what is handed over and published.
- `RatchetOnceHolds`, `NeverTurnedAwayHolds`: `EngineInv`. Only the holder of the lock runs an
  engine (`OneEngine`); unless an older archive was imported, no key beyond the stored ratchet was used and the
  ratchet of a connected session is the stored one (`RatchetInv`); the invite is spent only by this
  device's own registration, and a session keeps it as its entry until that has happened (`InviteInv`).

- `BookIsTrueHolds`: `DoorInv`, which says of the book what the relay *will* hold once it has read the frames that
  wait, in their order: the pass in the book will be honoured (`Honoured`), and any other that was ever given is
  taken back behind the last frame that makes it (`Withdrawn`), unless it broke. Gifts reach a
  peer in the order they were made (`InTurn`), and none is younger than the one in the book, so that
  is the last. `GrantsAreTrue` says what any outcome of `grant_missing` may be, whole or cut.
- `ClosedAfterGrantedHolds`: of the same invariant the part about policies on their way: whom one must not
  shut out has its pass made before it and not taken back before it is read (`SetsInv`).

`PairingProofs`: the second device.

- `WholeOrNothingHolds`: `PairingInv`. On each device a task is of the session that is active until that is
  cancelled (`TaskTrue`), at most one request of it waits for the core and asks for what comes next
  (`Requests`), and what is staged begins with the header (`Staged`). Between two devices: who shows a code meets
  one device at most, before anything was sent (`Single`), so of two at one session one gives and one takes
  (`Opposite`); and a taker has read, or has before it, exactly what its giver wrote, the k-th
  frame being the k-th of the protocol (`Stream`), which is why the first record staged is the header
  and why as many records as it says are all of them.
- `CancelIsKept`: of the same invariant the part that a session whose epoch is
  the current one was not cancelled (`NothingRevoked`).

`VpnProofs`: the two ends of the VPN.

- `MachineKeptHolds`: one invariant (`MachineInv`), inductive by itself, and a
  theory of the plans of `configure_networking`: effects of a group stand next to each other, so
  that of a plan cut at any call all but the orphan of that call is flagged (`MadeIsFlagged`).
- `PartsAgreeHolds`: `PartsInv`. Unless commands mixed, one command at most is in the
  middle of changing the tunnel, and each of its steps has an account of what agrees
  already (`StatusTrue`, `Seen`), of whose key it works with (`OneKey`), and of who is signed in (`SignedOut`).
- `NoUnexplainedOrphanHolds`: `TunnelInv`. A row, and a row as a session loaded it however long ago, says of
  its peer that it has the row's key at the node, is gone, or is excused (`RowTrue`); a
  session changes a peer only to none, after the node has lost it (`Changed`), and a key only at `save` and where no peer is
  known; so whatever a late commit writes back is true (`CommitIs`). What a step of the node
  may do to what others remember is one fact (`Later`), by which all other calls stay as they were (`CallsStay`).
- `AccessIsGrantedHolds`: on top of it `AccessInv` and `LimitInv`. As long as nothing went wrong one call at most runs
  (`Alone`), and its session knows the table; `Account` says line by line how far its view is from a table in
  order (`Calm`): which row is deactivated but still has a peer, which peer is not named yet. At each line the call is
  either back at a calm table or at a line with an account of its own (`Fine`), and a call begins on a calm one (`Fresh`).
- `NeverOverchargedHolds`: `ChargeInv`, on top of `TunnelInv`. A peer was made for one row for good, whose device made its
  key (`Homes`, a witness that follows the steps), so that traffic of a key is charged to its owner. As long as the polls and the interface are in tune
  (`Booked`), so much of each counter is *booked* (`Balanced`), not beyond the last value of the row that will count it, and nothing of a peer
  that no row names yet; units that are charged and units still open fit, one to one, the units the device caused. There are two such accounts: of the table,
  and of the session of the one poller, which holds what the table will once it commits (`Pays`); the others commit no counts (`PollLine`, `Silent`).
  The units are counted as a set (`Charged`), since a sum over rows would be a fold, which cannot be proved about.

Only model-checked:
- `KeptAndRead` and `GroupsRead`: sending in `Contact` and the tree of `Groups` fold over sequences, and what a fold computes for every
  input needs induction over data. `GroupsRead` holds up to the first fork only (`OnePath`), which a
  theorem about the specification could not say.
- `NoSpin`, which says ENABLED.
- Liveness (`BacklogDrains`, `Delivered`, `Arrives`), which rests on fairness and is beyond the prover.

## 5. Findings

Three have a run, whose counterexample is the finding; the lines are in
`PROJECT.json`. `delivery_ratchet`: a message that the ratchet skipped and can no longer
decrypt is taken for a repeated one and acknowledged unread. `supply_spin`: the
select loop of `pump` spins once the deadline of a failed builder is over and nothing
is queued, since only a flush of a non-empty queue clears it; an old socket over an empty queue and the
retry of a letter that may not go yet do the same. `threads_history`: when the list of a person's devices comes
after messages of his second device were stored, `merge_threads` moves the group to the older thread and
leaves the messages where they are, under a line that no list of conversations names.

`NoMailLost` is checked and proved for senders who stay within the tolerance of the message ratchet
(`NoRatchet`, `InOrderAndStored`), so that it speaks of the second-miss rule; `delivery_ratchet` shows what happens otherwise.
It also speaks of one sender's order: a message of one member that overtakes the
Welcome of another is outside it.

## 6. Met while modelling

Places where the code does something a reader may not expect, or text and code part.
The models contain each of them unless it says otherwise; no property claims the contrary.

Outbox and inbox
- Direct and anonymous sends count their slots separately: up to eight are
  active where the documents say four.
- A message may go out beside a signal to the same device (`anon_queue.rs:155-173`;
  ARCHITECTURE.md:134-136 says one send per device); `InOrder` says what holds.
- `invalidate_network` empties the outcome channel (`client.rs:446`; the comments at
  460-462 and 2214-2217 say that late outcomes are not lost). The envelopes are sent again.
- A message read at its second sight stays in `failed_envelopes`; the only removal
  is at its giving up (`client.rs:4066`), and once the cap is reached first misses are not recorded.
- An envelope that is not acknowledged at its first miss keeps the batch of the
  session open; the rest of the queue waits for the next connection
  (ARCHITECTURE.md:157-158 says otherwise).
- A commit is acknowledged even if its snapshot was not saved (`client.rs:2377`).
- `onSend` checks the quota before it looks for a retry record
  (`session.ts:1845`): the retry of a stored letter may be refused.

Contact
- `deliver_to_person` stops at the first device whose claim cannot be written
  (`client.rs:4376`): the later devices never get the message, and the comment at
  3473 says it is in the box. `KeptOnce` excuses them (`excused`).
- `pump` reads the box (`client.rs:2267`) before it pauses (2268): a message cleared during
  the pause is still delivered.
- Deleting a conversation removes only the row whose group is the thread itself
  (`store.rs:778-781`); the rows of a repaired channel and of a second device stay, and what
  is sent on them cannot be read. The comment at 775-776 says the opposite. `torn` marks those groups.
- Blocking someone between the claim and its answer still queues the Welcome and
  the message (a blocked device's items stay in the queue unsent).
- A full queue met by the ticker (`client.rs:3559`) ends the whole session. 128 messages and a
  Welcome cannot fit 128 slots: such a box fails at each heartbeat and uses up a package each time.
- Key packages are published at a connection only; a pool that runs dry waits for the next one.
- `claims_since` is reset only when no claim is left: the 45 s deadline can end a
  connection on which every claim is answered promptly.
- Crossing contacts make two groups; messages may arrive in another order than they were written.
- Clear and Delete do not cancel what waits for a device without a row; Clear drops repair claims.

Threads
- Deleting and editing do not look at what waits for a channel (`client.rs:1109-1157`): such a copy is sent later,
  as it was. `QueueIsAsShown` excuses it (`waited`).
- After a channel was replaced the group of a conversation is not its thread; deleting the conversation, or a message "for both",
  then reaches no further than the messages stored here.
- A late message of a group that was replaced and whose row is gone is stored in a line no list shows.
- "Delivered" speaks of the devices a copy was queued for when the message was written, not of those that came later.

What is told and shown
- `attach_channel` empties only the book of picture keys. A peer who was installed anew, or whose conversation was
  deleted with what was queued in it, is never told the devices or the name again, though
  `client.rs:1382-1388` expects the comparison to repair it.
- A peer held by a pin is written down as told, and nothing was sent to him.
- A kill between the two saves of `own_devices_arrived` leaves the old book beside the new list. Blocked peers are told the devices.
- Without a document of rules a name whose frame was lost is never sent again, and no picture is.
- Picture and ornaments that were open stay open at the relay after the rules were narrowed, until they are set again;
  opened ones stay hidden behind the sealed blob that was there before (`session.ts:772`).
- Other devices of the account write to the same row, each by its own rules.

Routes
- A session keeps the routes it began with, whatever list comes. The time of a list is saved before
  its hosts; a torn save is repaired by the same list when it comes again.
- Maximizing ends the session in `pump` and in the pause before a retry; while connecting only when the restrictions
  could be stored, and otherwise it is refused and changes nothing.

Door
- A grant is written down although its frame may never reach the relay
  (`client.rs:1511`, recorded at 1521 and 1566), and no later comparison repairs it: the
  peer stands in the book, and a closed door shuts it out until the owner revokes the pass.
  The comments at `access.rs:100-102` and `client.rs:2720-2721` say the comparison
  repairs a missed grant. `BookIsTrue` excepts these passes (`broken`).
- A contact online while the door closes is let in on its authenticated session
  only after it reconnects (`client.rs:3109-3111` covers the passes, not the session).
- Two people who both close their doors at once can lock each other out until one opens.
- `sync_server_privacy` opens the door again if the stored policy says so after a policy was set by `AccessSet`.
- The scope "everyone" gives passes to blocked entries too; a revoked pass does not
  end what an open session was admitted to; the refusal at `MAX_PASSES` is not read;
  failing grants leave a pass at the relay at each comparison; a cut after a revoke frame
  leaves the book behind.

Gate, payments
- The first poll and transfers beyond `MAX_PAGES` are passed over by the cursor
  (`source.ts:97`); `PaymentSeen` excepts them by name.
- A paid invoice that was not used until its expiry is swept.
- PAY_REQUEST of a registered identity consumes the challenge and gives no new one;
  `CanTryAgain`, a part of `StaysOpen`, excepts it.
- A crash between consuming a token and creating the user loses the token.
- The restart forgets which tickets were spent, while the key that signed them is kept
  (`tickets.ts:97`); `TicketOnce`, a part of `TokensOnce`, is about one life of the process.

Pairing
- The user can be told "cancelled" after the installation, if the cancellation comes after its last check.
- If the last frame is lost, the source reports a failure though the account is installed.

Tunnel
- If the answer of `add_peer` is lost, the key is registered at the node and every further
  attempt is answered 409: the device cannot register until a new key is made
  (`v1.py:421`; the comment at 419-420 expects the retry to help).
- A revoked device that enrols again is not counted against the limit (`v1.py:173-177`,
  ARCHITECTURE.md:221), nor are two enrolments at the same time; `LimitKept` excepts both.
- Two concurrent first registrations make two rows; every later call of that device fails.
- The bonus activates subscriptions of revoked devices and disabled accounts.
- The admin page polls the node beside the scheduler; both add the same traffic.
- A registration refused for its traffic (402) has already removed the old peer.
- A revocation while the node is unreachable leaves the peer at the node (`v1.py:292-303`).

Groups
- Two members that commit at the same time fork a group for good: nothing arbitrates.
  In a conversation of two it cannot happen, since one of them commits.
- `finish_invite` and `GroupRemove` save the new epoch before they queue its commit;
  a full queue or a crash between leaves the other members behind for good (`client.rs:4204-4209`,
  3300-3301). ARCHITECTURE.md:271-272 says commit and epoch are fixed together
  with the queue, which is so for `rekey_stale` only.
- A commit that overtakes another member's commit twice is given up, though it would
  become readable (`client.rs:4051-4052` says what is not read twice never will be); its
  reader stays behind. `lost` marks it.
- The author of a message of a past epoch is looked up by its leaf in the current tree
  (`mls.rs:447-450`). After a removal and an invitation a newcomer has the leaf, and a late
  text of the removed member, who is never told of his removal, is shown as the newcomer's;
  `command.rs:321` says the sender is who proved possession of the key. In a channel a late
  text of a removed owner may so be refused, or be unreadable where the leaf is empty.
- `attach_channel` runs for every Welcome (`client.rs:3825-3826`), so an invitation to a
  group makes the inviter's conversation row name the group (`store.rs:46`, `mls.rs:375`
  speak of a dialogue of two). Because of that row `rekey_stale` rotates groups too.
- The removed device is never sent its removal.
- `GroupForget` drops queued commits and keeps the keys; a message that waits in its sender's
  queue over four rotations cannot be read.

VPN client
- The first rule of a group whose second one fails stays on the machine, though
  `wg_nt.rs:868-872` says a failure cannot strand a rule; a failed deletion and the end of
  the process (`main.rs:652`) leave theirs. `NothingForgotten` excuses them by name.
- A reconnection that fails after the old tunnel went down leaves the status Connected
  without a kill switch (`wg_nt.rs:729-742`; 716-719 promises it as long as the status says so).

Engine, supply
- An import is taken in every phase, also over a newer state of the same account
  (`store.rs:217-221`): it rolls the sending ratchet back. `RatchetOnce` excuses it.
- Any AUTH_ERR or ERROR during the handshake ends the session for good.
- With the feature `ton`, Connect while an invoice is pending is answered "Authenticated"
  (`client.rs:3513-3535`), and the reconnection after it goes on without the entry.
- An aborted builder of sockets counts toward the pool until it is joined, and each
  puts off the next build by two seconds.

Desktop
- Two first starts overwrite each other's key file, and `unlock_existing` does not look
  for one made meanwhile. `KeyOpens` excuses commands that overlap.
- `fs::write` of `active-profile` is not atomic (`main.rs:449`, whose comment calls it so);
  a torn pointer falls back to the default profile. `start_engine` reads the paths again.
- A stop during the boot of Tor returns as if done, and Tor still comes up. A stop between
  the two lines that publish it leaves a process without an address, which the next start
  orphans. `TorOwned` excuses the second.

## 7. Not modelled

- The sealed store (SQLite transactions are taken as atomic), cryptography and MLS
  itself, transport, frame parsing and circuits (the network loses, delays and reorders instead).
- Recovery and its counters, reserved names, public channels, HTTP pages and the support desk: request and
  answer over one row, no state shared with delivery.
- Read receipts, typing signals, and the text of the privacy documents.
- The Android application, the site, windows, notifications and updates.
- Inside the modelled components: one-time passes and `PassInvite`, avatar keys, the
  passes an owner was itself given, frames of an old connection read after those of
  a new one (`Door`); discovery over UDP, Noise and the QR encoding (`Pairing`); the
  choice of the address key and the limiter per address (`Gate`); the lite servers
  and the parsing of a transaction (`Payments`); plans, servers, legacy users and the
  deletion of accounts (`Tunnel`); the messages a person's other devices sent, and attachments (`Threads`); other
devices that write to the same profile (`Showcase`); which of several routes is tried first (`Routes`); the modes of the command line, the override of DNS, the
  encoding of the driver's configuration and the framing of the masking relay
  (`VpnClient`); codec, encryption and mute (`Calls`); the bounded event queue of the C
  interface, the choice of routes and the commands that only read (`Engine`); the circuits
  shown (`Onionize`).

Much of the repository is of these kinds (user interfaces, parsing, encodings, CRUD,
cryptographic wrappers), which is why the map covers less of it than the control it models.

## 8. Plan

All modules of the plan are written: the chain of delivery (`Relay`, `Mailbox`, `Outbox`,
`Delivery`, `Contact`, `Groups`, `Door`), admission (`Gate`, `Payments`, `Rooms`, `Tickets`), the client around
it (`Pairing`, `Calls`, `Threads`, `Announce`, `Showcase`, `Routes`, `Engine`, `Supply`, `Profile`, `Onionize`) and
the VPN (`Tunnel`, `VpnClient`). Every safety property that a passing run checks has its theorem, but for
the two named at the end of section 4.

------------------------------- MODULE Relay -------------------------------
(***************************************************************************)
(* The relay's durable mail queue and the sessions it is drained to:       *)
(* valanium-server/src/ws/session.ts (SEND, SEND_ANON, ACK, AUTH, the uWS  *)
(* drain and close callbacks) over valanium-server/src/db/index.ts.        *)
(*                                                                         *)
(* Every handler is synchronous JavaScript over synchronous SQLite, so a   *)
(* handler is one step; what interleaves is the handlers of the sockets,   *)
(* the clock, the sweeping timer and a restart of the process.             *)
(*                                                                         *)
(* A letter stands for what retryDigest hashes: the recipient device, the  *)
(* sender's client_ref and the ciphertext.  The digest is taken to be free *)
(* of collisions, so a letter is its own digest.                           *)
(***************************************************************************)
EXTENDS Integers, FiniteSets, Sequences, FiniteSetsExt

CONSTANTS
  Device,        \* device keys that may authenticate
  Identity,      \* the identities that own them
  Owner,         \* the identity a device certificate binds a device to
  Letter,        \* distinct (recipient, client_ref, ciphertext) triples
  To,            \* the recipient device of a letter
  Size,          \* the ciphertext length of a letter
  PassOnly,      \* devices whose owner's dmPolicy is "passes"
  Sock,          \* WebSocket connections
  None,          \* the device of a connection that has not authenticated
  DrainBatch,    \* DRAIN_BATCH
  MaxQueued,     \* config.maxQueuedPerDevice
  MaxBytes,      \* config.maxQueuedBytesPerDevice
  MaxOwnerBytes, \* config.maxQueuedBytesPerIdentity
  MaxDevices,    \* config.maxDevicesPerIdentity
  MaxTtl,        \* config.envelopeTtlSec
  TtlAsked,      \* the lifetimes senders ask for
  MaxSeq,        \* bound: envelopes the model ever stores
  MaxTime        \* bound: the last instant of the clock

ASSUME RelayAssumption ==
  /\ Owner \in [Device -> Identity]
  /\ To \in [Letter -> Device]
  /\ Size \in [Letter -> Nat]
  /\ None \notin Device
  /\ PassOnly \subseteq Device
  /\ DrainBatch \in Nat \ {0}
  /\ {MaxQueued, MaxBytes, MaxOwnerBytes, MaxDevices} \subseteq Nat
  /\ MaxTtl \in Nat \ {0}
  /\ TtlAsked \subseteq Nat \ {0}
  /\ {MaxSeq, MaxTime} \subseteq Nat

VARIABLES
  \* SQLite: survives a restart
  envelopes,  \* rows of the table envelopes
  retries,    \* rows of envelope_retries, by digest
  nextSeq,    \* the AUTOINCREMENT counter of envelopes.seq
  status,     \* rows of devices: "absent", "active" or "revoked"
  now,        \* deps.now()
  \* the server process: lost in a restart
  conn,       \* conn.devicePub of every connection, and Registry.#byDevice
  inflight,   \* conn.queueInflight
  pressed,    \* uWS holds unsent bytes of the connection (backpressure)
  out,        \* what was written to the connection since it authenticated
  \* what the senders have been answered
  told        \* letters answered with SEND_OK

durable == <<envelopes, retries, nextSeq, status>>
session == <<conn, inflight, pressed, out>>
vars == <<durable, now, session, told>>

NoRetry == [id |-> 0, exp |-> 0]

\* An entry of out: one live frame, one drained batch (its rows were written
\* in the order of seq), or QUEUE_DONE.
Live(id)   == [via |-> "live", ids |-> {id}]
Batch(ids) == [via |-> "drain", ids |-> ids]
Done       == [via |-> "done", ids |-> {}]

-----------------------------------------------------------------------------
(* Queries *)

Recipient(e) == To[e.letter]

\* Rows a query with "expires_at > now" can see.
Pending(rows, d) == {e \in rows : Recipient(e) = d /\ e.exp > now}

\* Bug: the newest rows first.
FirstBatch_Newest(rows, d) ==
  {e \in Pending(rows, d) :
     Cardinality({f \in Pending(rows, d) : f.seq > e.seq}) < DrainBatch}

\* "ORDER BY seq LIMIT DRAIN_BATCH"
FirstBatch(rows, d) ==
  {e \in Pending(rows, d) :
     Cardinality({f \in Pending(rows, d) : f.seq < e.seq}) < DrainBatch}

\* Bug: a full batch is taken for the last one.
Short_Full(rows, d) == Cardinality(FirstBatch(rows, d)) <= DrainBatch

\* "pending.length < DRAIN_BATCH": nothing is left behind the batch.
Short(rows, d) == Cardinality(FirstBatch(rows, d)) < DrainBatch

Seqs(rows) == {e.seq : e \in rows}

Held(l) == \E e \in envelopes : e.letter = l /\ e.exp > now

\* Bug: a letter is remembered by its row only.
AcceptedRetry_Row(l) == Held(l)

AcceptedRetry(l) == retries[l].exp > now

QueuedBytes(rows) == MapThenSumSet(LAMBDA e : Size[e.letter], rows)

OwnerRows(i) ==
  {e \in envelopes : /\ Owner[Recipient(e)] = i
                     /\ status[Recipient(e)] = "active"
                     /\ e.exp > now}

HasRoom(l) ==
  LET mine == Pending(envelopes, To[l])
  IN  /\ Cardinality(mine) < MaxQueued
      /\ QueuedBytes(mine) + Size[l] <= MaxBytes
      /\ QueuedBytes(OwnerRows(Owner[To[l]])) + Size[l] <= MaxOwnerBytes

ActiveDevices(i) == {d \in Device : Owner[d] = i /\ status[d] = "active"}

Sockets(d) == {s \in Sock : conn[s] = d}

Lifetime(ttl) == IF ttl < MaxTtl THEN ttl ELSE MaxTtl

-----------------------------------------------------------------------------
(* drainQueue.  p says whether the socket already holds unsent bytes.  uWS  *)
(* answers 1 only while it holds none; a row answered 0 is buffered and     *)
(* ends the loop, a full buffer ends it before the row is written.  What    *)
(* the callback wrote may be left unsent when it returns (q).               *)

\* A QUEUE_DONE that follows another at once is not recorded again.
Record(log, entry) ==
  LET empty == entry = Batch({})
      again == entry = Done /\ log # <<>> /\ log[Len(log)] = Done
  IN  IF empty \/ again THEN log ELSE Append(log, entry)

Write(s, rows, done, p) ==
  LET log == Record(out[s], Batch(Seqs(rows)))
  IN  /\ inflight' = [inflight EXCEPT ![s] = Seqs(rows)]
      /\ out' = [out EXCEPT ![s] = IF done THEN Record(log, Done) ELSE log]
      /\ pressed' = [pressed EXCEPT ![s] = p]

DrainQueue(s, d, rows, p) ==
  LET batch == FirstBatch(rows, d)
      short == Short(rows, d)
  IN  \/ /\ p => batch = {}
         /\ \E done, q \in BOOLEAN :
              /\ done => short
              /\ ~done => p \/ ~short
              /\ p => q
              /\ Write(s, batch, done, q)
      \/ /\ p /\ batch # {}
         /\ Write(s, {}, FALSE, TRUE)
      \/ \E rows1 \in (SUBSET batch) \ {{}} :
           /\ \A e \in rows1, f \in batch \ rows1 : e.seq < f.seq
           /\ p => Cardinality(rows1) = 1
           /\ Write(s, rows1, FALSE, TRUE)

-----------------------------------------------------------------------------
(* Senders *)

\* Bug: the sequence number of a row is not its own.
EnqueueOnce_SameSeq(l, ttl) ==
  LET exp == now + Lifetime(ttl)
  IN  /\ nextSeq <= MaxSeq
      /\ envelopes' = envelopes \cup {[seq |-> nextSeq, letter |-> l, exp |-> exp]}
      /\ retries' = [retries EXCEPT ![l] = [id |-> nextSeq, exp |-> exp]]
      /\ UNCHANGED nextSeq

\* enqueueOnce: the row and its retry record in one transaction.
EnqueueOnce(l, ttl) ==
  LET exp == now + Lifetime(ttl)
  IN  /\ nextSeq <= MaxSeq
      /\ envelopes' = envelopes \cup {[seq |-> nextSeq, letter |-> l, exp |-> exp]}
      /\ retries' = [retries EXCEPT ![l] = [id |-> nextSeq, exp |-> exp]]
      /\ nextSeq' = nextSeq + 1

\* Registry.deliver: every session of the device gets the frame; a socket that
\* holds unsent bytes may drop it, any other may start to hold some.
Deliver(d) ==
  \E lost \in SUBSET {s \in Sockets(d) : pressed[s]},
     slow \in SUBSET Sockets(d) :
    /\ out' = [s \in Sock |-> IF s \in Sockets(d) \ lost
                              THEN Append(out[s], Live(nextSeq)) ELSE out[s]]
    /\ pressed' = [s \in Sock |-> pressed[s] \/ s \in slow]

EnqueueAndRespond(l, ttl) ==
  /\ told' = told \cup {l}
  /\ \/ /\ AcceptedRetry(l)
        /\ UNCHANGED <<durable, session>>
     \/ /\ ~AcceptedRetry(l)
        /\ HasRoom(l)
        /\ EnqueueOnce(l, ttl)
        /\ Deliver(To[l])
        /\ UNCHANGED <<status, conn, inflight>>
  /\ UNCHANGED now

\* SEND: the quota is looked at before the retry record is.
OnSend(l, ttl, admitted) ==
  /\ status[To[l]] = "active"
  /\ HasRoom(l)
  /\ To[l] \in PassOnly => admitted
  /\ EnqueueAndRespond(l, ttl)

\* SEND_ANON, its ticket already redeemed.
OnSendAnon(l, ttl, admitted) ==
  /\ status[To[l]] = "active"
  /\ To[l] \in PassOnly => admitted
  /\ EnqueueAndRespond(l, ttl)

-----------------------------------------------------------------------------
(* Recipients *)

\* AUTH, credentials and admission already checked.  AUTH_OK and the profile
\* may leave unsent bytes (p) before the queue is drained.
OnAuth(s, d) ==
  /\ conn[s] = None
  /\ status[d] # "revoked"
  /\ status[d] = "absent" => Cardinality(ActiveDevices(Owner[d])) < MaxDevices
  /\ status' = [status EXCEPT ![d] = "active"]
  /\ conn' = [conn EXCEPT ![s] = d]
  /\ \E p \in BOOLEAN : DrainQueue(s, d, envelopes, p)
  /\ UNCHANGED <<envelopes, retries, nextSeq, now, told>>

\* Bug: every ACK of the batch resumes the queue.
OnAck_Each(s, id) ==
  LET rest == {e \in envelopes : e.seq # id \/ Recipient(e) # conn[s]}
  IN  /\ conn[s] # None
      /\ envelopes' = rest
      /\ IF id \in inflight[s]
         THEN DrainQueue(s, conn[s], rest, pressed[s])
         ELSE UNCHANGED <<inflight, out, pressed>>
      /\ UNCHANGED <<retries, nextSeq, status, now, conn, told>>

\* Bug: the last ACK of the batch does not resume the queue.
OnAck_Idle(s, id) ==
  /\ conn[s] # None
  /\ envelopes' = {e \in envelopes : e.seq # id \/ Recipient(e) # conn[s]}
  /\ inflight' = [inflight EXCEPT ![s] = @ \ {id}]
  /\ UNCHANGED <<retries, nextSeq, status, now, conn, told, out, pressed>>

\* Bug: an envelope of another device is deleted.
OnAck_AnyOwner(s, id) ==
  /\ conn[s] # None
  /\ envelopes' = {e \in envelopes : e.seq # id}
  /\ inflight' = [inflight EXCEPT ![s] = @ \ {id}]
  /\ UNCHANGED <<retries, nextSeq, status, now, conn, told, out, pressed>>

\* ACK: any id may be named, only an own envelope is deleted.
OnAck(s, id) ==
  LET rest == {e \in envelopes : e.seq # id \/ Recipient(e) # conn[s]}
      left == inflight[s] \ {id}
  IN  /\ conn[s] # None
      /\ envelopes' = rest
      /\ IF id \in inflight[s] /\ left = {}
         THEN DrainQueue(s, conn[s], rest, pressed[s])
         ELSE /\ inflight' = [inflight EXCEPT ![s] = left]
              /\ UNCHANGED <<out, pressed>>
      /\ UNCHANGED <<retries, nextSeq, status, now, conn, told>>

\* Bug: the drain callback does not resume the queue.
HandleDrain_Ignored(s, p) ==
  /\ conn[s] # None /\ pressed[s]
  /\ pressed' = [pressed EXCEPT ![s] = p]
  /\ UNCHANGED <<inflight, out, durable, now, conn, told>>

\* handleDrain: uWS flushed some (p) or all of the unsent bytes.
HandleDrain(s, p) ==
  /\ conn[s] # None /\ pressed[s]
  /\ IF inflight[s] = {}
     THEN DrainQueue(s, conn[s], envelopes, p)
     ELSE /\ pressed' = [pressed EXCEPT ![s] = p]
          /\ UNCHANGED <<inflight, out>>
  /\ UNCHANGED <<durable, now, conn, told>>

\* Sessions of the sockets in S end: handleClose, or end() from the server.
Drop(S) ==
  /\ conn' = [s \in Sock |-> IF s \in S THEN None ELSE conn[s]]
  /\ inflight' = [s \in Sock |-> IF s \in S THEN {} ELSE inflight[s]]
  /\ pressed' = [s \in Sock |-> s \notin S /\ pressed[s]]
  /\ out' = [s \in Sock |-> IF s \in S THEN <<>> ELSE out[s]]

HandleClose(s) ==
  /\ conn[s] # None
  /\ Drop({s})
  /\ UNCHANGED <<durable, now, told>>

\* Bug: the sessions of the revoked devices are left open.
Revoke_Connected(D) ==
  /\ envelopes' = {e \in envelopes : Recipient(e) \notin D}
  /\ status' = [d \in Device |-> IF d \in D THEN "revoked" ELSE status[d]]
  /\ UNCHANGED <<session, retries, nextSeq, now, told>>

\* revokeDevice / revokeOtherDevices in one transaction, then disconnect.
Revoke(D) ==
  /\ envelopes' = {e \in envelopes : Recipient(e) \notin D}
  /\ status' = [d \in Device |-> IF d \in D THEN "revoked" ELSE status[d]]
  /\ Drop({s \in Sock : conn[s] \in D})
  /\ UNCHANGED <<retries, nextSeq, now, told>>

OnDeviceRevoke(s, d) ==
  /\ conn[s] # None /\ d # conn[s]
  /\ d \in ActiveDevices(Owner[conn[s]])
  /\ Revoke({d})

OnDeviceRevokeOthers(s) ==
  /\ conn[s] # None
  /\ Revoke(ActiveDevices(Owner[conn[s]]) \ {conn[s]})

-----------------------------------------------------------------------------
(* The clock, the sweep timer and a restart *)

Tick == /\ now < MaxTime
        /\ now' = now + 1
        /\ UNCHANGED <<durable, session, told>>

\* Bug: retry records are swept a tick early.
Sweep_Early ==
  /\ envelopes' = {e \in envelopes : e.exp > now}
  /\ retries' = [l \in Letter |-> IF retries[l].exp > now + 1 THEN retries[l] ELSE NoRetry]
  /\ UNCHANGED <<nextSeq, status, now, session, told>>

Sweep ==
  /\ envelopes' = {e \in envelopes : e.exp > now}
  /\ retries' = [l \in Letter |-> IF AcceptedRetry(l) THEN retries[l] ELSE NoRetry]
  /\ UNCHANGED <<nextSeq, status, now, session, told>>

Restart == /\ Drop(Sock)
           /\ UNCHANGED <<durable, now, told>>

-----------------------------------------------------------------------------
Init ==
  /\ envelopes = {}
  /\ retries = [l \in Letter |-> NoRetry]
  /\ nextSeq = 1
  /\ status = [d \in Device |-> "absent"]
  /\ now = 0
  /\ conn = [s \in Sock |-> None]
  /\ inflight = [s \in Sock |-> {}]
  /\ pressed = [s \in Sock |-> FALSE]
  /\ out = [s \in Sock |-> <<>>]
  /\ told = {}

Sending ==
  \E l \in Letter, ttl \in TtlAsked, admitted \in BOOLEAN :
    OnSend(l, ttl, admitted) \/ OnSendAnon(l, ttl, admitted)

Next ==
  \/ Sending
  \/ \E s \in Sock :
       \/ \E d \in Device : OnAuth(s, d) \/ OnDeviceRevoke(s, d)
       \/ \E id \in 1 .. nextSeq - 1 : OnAck(s, id)
       \/ \E p \in BOOLEAN : HandleDrain(s, p)
       \/ HandleClose(s)
       \/ OnDeviceRevokeOthers(s)
  \/ Tick
  \/ Sweep
  \/ Restart

Spec == Init /\ [][Next]_vars

Written(s) == UNION {out[s][i].ids : i \in DOMAIN out[s]}

\* A client that reads what it is sent and acknowledges it: its socket is
\* flushed in the end, and each envelope written to it is answered by an ACK.
\* Nothing is assumed of new sessions, senders, the sweep or the clock.
DrainFairness ==
  \A s \in Sock :
    /\ WF_vars(HandleDrain(s, FALSE))
    /\ \A id \in 1 .. MaxSeq : WF_vars(id \in Written(s) /\ OnAck(s, id))

FairSpec == Spec /\ DrainFairness

-----------------------------------------------------------------------------
(* Properties *)

Drained(s) ==
  UNION {out[s][i].ids : i \in {k \in DOMAIN out[s] : out[s][k].via = "drain"}}

Missing(s) == {e \in Pending(envelopes, conn[s]) : e.seq \notin Written(s)}

\* Every variable has its type, and every row was numbered by the counter.
TypeOK ==
  /\ envelopes \subseteq [seq : Nat \ {0}, letter : Letter, exp : Nat]
  /\ retries \in [Letter -> [id : Nat, exp : Nat]]
  /\ nextSeq \in Nat \ {0}
  /\ status \in [Device -> {"absent", "active", "revoked"}]
  /\ now \in Nat
  /\ conn \in [Sock -> Device \cup {None}]
  /\ inflight \in [Sock -> SUBSET Nat]
  /\ pressed \in [Sock -> BOOLEAN]
  /\ out \in [Sock -> Seq([via : {"live", "drain", "done"}, ids : SUBSET Nat])]
  /\ told \in SUBSET Letter
  /\ \A e \in envelopes : e.seq < nextSeq

\* A letter a sender repeats because it never saw SEND_OK is queued once: two
\* unexpired rows never hold the same letter (envelope_retries outlives ACK,
\* a restart and the sweep).
OneLiveCopy ==
  \A e, f \in envelopes :
    e.letter = f.letter /\ e.exp > now /\ f.exp > now => e = f

\* No lost wake-up: when a session's device has mail that was never written to
\* that session, either an ACK of the current batch or the uWS drain callback
\* is still to come, and both resume the queue.
NoStalledQueue ==
  \A s \in Sock : Missing(s) # {} => inflight[s] # {} \/ pressed[s]

\* Whatever the order of the ACKs, a row is handed out by the queue at most once
\* per session ("never resend it per ACK", drainQueue), and the batch a session
\* waits for is the drained mail it has not acknowledged, of DRAIN_BATCH rows at most.
DrainedOnce ==
  \A s \in Sock :
    /\ \A i, j \in DOMAIN out[s] :
          i # j /\ out[s][i].via = "drain" /\ out[s][j].via = "drain"
            => out[s][i].ids \cap out[s][j].ids = {}
    /\ Cardinality(inflight[s]) <= DrainBatch
    /\ inflight[s] \subseteq Drained(s)
    /\ \A e \in envelopes : e.seq \in Drained(s) => e.seq \in inflight[s]

\* A frame that reaches a session a second time comes after all older mail:
\* whatever a first reading lacked (a Welcome, a commit) has arrived by then.
SecondSightInOrder ==
  \A s \in Sock : \A i, j \in DOMAIN out[s] :
    i < j => \A id \in out[s][i].ids \cap out[s][j].ids :
      \A e \in Pending(envelopes, conn[s]) :
        e.seq < id => \E k \in 1 .. j : e.seq \in out[s][k].ids

\* Revoking a device ends its sessions, and none can begin afterwards.
NoSessionAfterRevocation ==
  \A s \in Sock : conn[s] # None => status[conn[s]] = "active"

\* Accepted mail is only ever lost to its recipient: an unexpired row of a
\* device that is not revoked disappears in no step (crash, sweep, another
\* device's ACK or revocation) during which that device has no session.
KeptForRecipient ==
  [][\A e \in envelopes :
       /\ e.exp > now
       /\ Sockets(Recipient(e)) = {}
       /\ status'[Recipient(e)] # "revoked"
       => e \in envelopes']_vars

\* QUEUE_DONE tells the truth: when it is written, every pending row of the
\* device has been written to the session (the client rotates keys on it).
QueueDoneIsTrue ==
  [][\A s \in Sock :
       /\ Len(out'[s]) > Len(out[s])
       /\ out'[s][Len(out'[s])] = Done
       => Missing(s)' = {}]_vars

\* Mail does not wait for a reconnect: a row pending for a session that stays
\* open is in the end acknowledged (or expires, or is revoked), however the
\* batches, the backpressure and the live frames fall.
BacklogDrains ==
  \A s \in Sock, d \in Device, id \in 1 .. MaxSeq :
    (conn[s] = d /\ id \in Seqs(Pending(envelopes, d)))
      ~> (conn[s] # d \/ id \notin Seqs(Pending(envelopes, d)))

\* What the sender is promised: Mailbox.  A letter is kept as long as its retry
\* record is in force; it is held while its unexpired row exists, done once the
\* row is gone.
Kept(l) == retries[l].exp > now

Slot == [l \in Letter |->
           IF ~Kept(l) THEN "free"
           ELSE IF Held(l) THEN "held"
           ELSE "done"]

Until == [l \in Letter |-> IF Kept(l) THEN retries[l].exp ELSE 0]

Promise == INSTANCE Mailbox WITH slot <- Slot, until <- Until
PromiseKept == Promise!Spec

\* Both: each batch is handed out once, in the order of its letters.
DrainInOrder == DrainedOnce /\ SecondSightInOrder
=============================================================================

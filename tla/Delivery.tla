------------------------------ MODULE Delivery ------------------------------
(***************************************************************************)
(* The relay (module Relay) and the client that empties its queue:         *)
(* on_envelope of valanium-core/src/client.rs over process of mls.rs.      *)
(*                                                                         *)
(* The relay's steps are those of Relay, except that an ACK is now one the *)
(* client sent, read from the connection in order.  One device receives;   *)
(* an old session of it may linger at the relay after a reconnect.         *)
(*                                                                         *)
(* Each letter is accepted once (OneLiveCopy, nothing expires here), so a  *)
(* letter and the id of its envelope determine each other.                 *)
(***************************************************************************)
EXTENDS Relay

CONSTANTS
  Phone,       \* the device that receives
  Before,      \* letters the outbox of the sender has seen accepted before
  Needs,       \* letters (Welcome, commits) to be processed before this one
  Garbage,     \* letters that can never be decrypted
  Commit,      \* letters that only change the group state (Handled)
  Ratchet,     \* the sequences of messages of one sender in one epoch
  Tolerance,   \* messages a sender's ratchet remembers that were skipped
  MaxTracked,  \* MAX_TRACKED_FAILURES
  DiskFails    \* whether saving the MLS snapshot may fail

ASSUME DeliveryAssumption ==
  /\ Phone \in Device
  /\ {Before, Needs} \subseteq [Letter -> SUBSET Letter]
  /\ Garbage \subseteq Letter /\ Commit \subseteq Letter
  /\ Ratchet \subseteq Seq(Letter)
  /\ {Tolerance, MaxTracked} \subseteq Nat
  /\ DiskFails \in BOOLEAN

VARIABLES
  cur,     \* the connection of the client, or None
  pos,     \* the frame it has handled last on it
  acks,    \* ACK frames written to a connection and not yet read by the relay
  mem,     \* letters the MLS state in memory has processed
  disk,    \* letters the stored MLS state and history contain
  failed   \* failed_envelopes, on disk

client == <<cur, pos, acks, mem, disk, failed>>
dvars == <<vars, client>>

-----------------------------------------------------------------------------
(* What the client reads: the frames of its session as written, those of a *)
(* batch in the order of seq.  A frame <<k, id>> is in the k-th entry of out. *)

Behind(f, g) == f[1] < g[1] \/ (f[1] = g[1] /\ f[2] < g[2])

Unread == {f \in (DOMAIN out[cur]) \X Written(cur) :
             f[2] \in out[cur][f[1]].ids /\ Behind(pos, f)}

Reading == cur # None /\ conn[cur] = Phone /\ Unread # {}

NextFrame == CHOOSE f \in Unread : \A g \in Unread \ {f} : Behind(f, g)
NextId == NextFrame[2]

Accepted == {l \in Letter : retries[l].id # 0}

LetterOf(id) == CHOOSE l \in Accepted : retries[l].id = id

\* The ratchet of the sender has gone on too far to go back to l.
TooOld(l) ==
  \E r \in Ratchet : \E i, j \in DOMAIN r :
    r[i] = l /\ r[j] \in mem /\ j > i + Tolerance

\* process: read, AlreadyProcessed ("too old" is taken for it), or an error.
Unreadable(l) == l \in Garbage \/ ~(Needs[l] \subseteq mem)

Processed(l) == ~Unreadable(l) /\ (l \in mem \/ TooOld(l))

-----------------------------------------------------------------------------
(* on_envelope *)

Ack(id) == acks' = [acks EXCEPT ![cur] = Append(@, id)]

Handled == /\ pos' = NextFrame
           /\ UNCHANGED <<vars, cur>>

\* Read, saved and acknowledged; a commit also if saving it failed.
ReadEnvelope ==
  LET l == LetterOf(NextId)
  IN  /\ Reading /\ ~Unreadable(l) /\ ~Processed(l)
      /\ mem' = mem \cup {l}
      /\ \E saved \in {TRUE, ~(DiskFails /\ l \in Commit)} :
           disk' = IF saved THEN mem' ELSE disk
      /\ Ack(NextId)
      /\ UNCHANGED failed
      /\ Handled

\* AlreadyProcessed: acknowledged, nothing is shown.
Repeated ==
  /\ Reading /\ Processed(LetterOf(NextId))
  /\ Ack(NextId)
  /\ UNCHANGED <<mem, disk, failed>>
  /\ Handled

\* Bug: acknowledged whatever the verdict is.
FirstMiss_Acked ==
  /\ Reading /\ Unreadable(LetterOf(NextId)) /\ NextId \notin failed
  /\ Ack(NextId)
  /\ failed' = failed
  /\ UNCHANGED <<mem, disk>>
  /\ Handled

\* The first miss is forgiven: remembered, if there is room, and not acknowledged.
FirstMiss ==
  /\ Reading /\ Unreadable(LetterOf(NextId)) /\ NextId \notin failed
  /\ failed' = IF Cardinality(failed) < MaxTracked THEN failed \cup {NextId} ELSE failed
  /\ UNCHANGED <<acks, mem, disk>>
  /\ Handled

\* The second miss gives the envelope up.
SecondMiss ==
  /\ Reading /\ Unreadable(LetterOf(NextId)) /\ NextId \in failed
  /\ Ack(NextId)
  /\ failed' = failed \ {NextId}
  /\ UNCHANGED <<mem, disk>>
  /\ Handled

-----------------------------------------------------------------------------
(* The client's connection.  The MLS state is loaded anew for each. *)

Connect(s) ==
  /\ cur = None
  /\ OnAuth(s, Phone)
  /\ cur' = s
  /\ UNCHANGED <<pos, acks, mem, disk, failed>>

\* The connection breaks for the client, or its process is killed.
Leave == /\ cur' = None
         /\ pos' = <<0, 0>>
         /\ mem' = disk
         /\ UNCHANGED <<disk, failed>>

Disconnect == /\ cur # None
              /\ Leave
              /\ UNCHANGED <<vars, acks>>

\* The relay notices that a connection is closed, its own or an old one.
CloseAtRelay(s) ==
  /\ HandleClose(s)
  /\ acks' = [acks EXCEPT ![s] = <<>>]
  /\ IF s = cur THEN Leave ELSE UNCHANGED <<cur, pos, mem, disk, failed>>

RestartRelay ==
  /\ Restart
  /\ acks' = [s \in Sock |-> <<>>]
  /\ Leave

-----------------------------------------------------------------------------
(* The relay's other steps *)

ReadAck(s) ==
  /\ acks[s] # <<>>
  /\ OnAck(s, Head(acks[s]))
  /\ acks' = [acks EXCEPT ![s] = Tail(@)]
  /\ UNCHANGED <<cur, pos, mem, disk, failed>>

\* A sender's outbox sends in order (Outbox!InOrder).
SendInOrder(l) ==
  /\ Before[l] \subseteq Accepted
  /\ \E ttl \in TtlAsked : OnSendAnon(l, ttl, TRUE)
  /\ UNCHANGED client

Flush(s) == /\ \E p \in BOOLEAN : HandleDrain(s, p)
            /\ UNCHANGED client

DInit == /\ Init
         /\ status[Phone] = "absent"
         /\ cur = None /\ pos = <<0, 0>>
         /\ acks = [s \in Sock |-> <<>>]
         /\ mem = {} /\ disk = {} /\ failed = {}

DNext ==
  \/ \E l \in Letter : SendInOrder(l)
  \/ \E s \in Sock : Connect(s) \/ CloseAtRelay(s) \/ ReadAck(s) \/ Flush(s)
  \/ Disconnect
  \/ RestartRelay
  \/ ReadEnvelope
  \/ Repeated
  \/ FirstMiss
  \/ SecondMiss

DSpec == DInit /\ [][DNext]_dvars

-----------------------------------------------------------------------------
(* Properties *)

\* What delivery asks of the others: a letter needs only what its sender had
\* accepted before it, for the same device; no sender is further ahead than a
\* ratchet tolerates; and what the client has read it can store.
InOrderAndStored ==
  /\ \A l \in Letter : Needs[l] \subseteq {m \in Before[l] \ Garbage : To[m] = To[l]}
  /\ \A r \in Ratchet : Len(r) <= Tolerance + 1
  /\ ~DiskFails

Queued == {e.letter : e \in envelopes}

\* A letter the relay accepted and that can be decrypted is in its queue until
\* it is in the recipient's store: it is neither acknowledged unread, nor given
\* up because it overtook the Welcome or commit it needs, whatever is read
\* early, drained again, killed or restarted.
NoMailLost == Accepted \subseteq Garbage \cup Queued \cup disk

\* "the key for this message has been used up already" (the comment on
\* classify, mls.rs): what is taken for a repetition has been read.
RepeatedMeansRead ==
  Reading /\ Processed(LetterOf(NextId)) => LetterOf(NextId) \in mem
=============================================================================

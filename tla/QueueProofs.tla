---------------------------- MODULE QueueProofs ----------------------------
(***************************************************************************)
(* Theorems about the queue of Relay: accepted mail is only lost to its    *)
(* recipient, and QUEUE_DONE tells the truth; the queue of a session never *)
(* stalls, hands a row out once, and repeats nothing out of order.  And    *)
(* about who reads it (Delivery): nothing is acknowledged or given up that *)
(* could have been read.                                                   *)
(***************************************************************************)
EXTENDS RelayProofs, Delivery, FiniteSetTheorems

-----------------------------------------------------------------------------
(* Kept for the recipient                                                  *)

\* A step that ends no unexpired row of a device without a session.
Spares ==
  \A e \in envelopes :
    /\ e.exp > now
    /\ Sockets(Recipient(e)) = {}
    /\ status'[Recipient(e)] # "revoked"
    => e \in envelopes'

\* Of all actions only ACK, a revocation and the sweep remove rows: the first of
\* its own device, the second of devices it marks, the third what has expired.
LEMMA StepSpares == TypeOK /\ [Next]_vars => Spares
<1> SUFFICES ASSUME TypeOK, [Next]_vars PROVE Spares
  OBVIOUS
<1> USE DEF durable, session
<1>1. ASSUME envelopes \subseteq envelopes' PROVE Spares
  BY <1>1 DEF Spares
<1>2. ASSUME NEW l, NEW ttl, EnqueueAndRespond(l, ttl) PROVE Spares
  BY <1>1, <1>2 DEF EnqueueAndRespond, EnqueueOnce
<1>3. ASSUME NEW s \in Sock, NEW d, OnAuth(s, d) PROVE Spares
  BY <1>1, <1>3 DEF OnAuth
<1>4. ASSUME NEW s \in Sock, NEW id, OnAck(s, id) PROVE Spares
  <2>1. envelopes' = {e \in envelopes : e.seq # id \/ Recipient(e) # conn[s]}
    BY <1>4 DEF OnAck
  <2>2. s \in Sockets(conn[s])
    BY DEF Sockets
  <2> QED BY <2>1, <2>2 DEF Spares
<1>5. ASSUME NEW s \in Sock, NEW p, HandleDrain(s, p) PROVE Spares
  BY <1>1, <1>5 DEF HandleDrain
<1>6. ASSUME NEW s \in Sock, HandleClose(s) PROVE Spares
  BY <1>1, <1>6 DEF HandleClose
<1>7. ASSUME NEW D, Revoke(D) PROVE Spares
  <2>1. /\ envelopes' = {e \in envelopes : Recipient(e) \notin D}
        /\ status' = [d \in Device |-> IF d \in D THEN "revoked" ELSE status[d]]
    BY <1>7 DEF Revoke
  <2>2. \A e \in envelopes : Recipient(e) \in Device
    BY RelayAssumption DEF Recipient, TypeOK
  <2> QED BY <2>1, <2>2 DEF Spares
<1>8. CASE Tick
  BY <1>1, <1>8 DEF Tick
<1>9. CASE Sweep
  BY <1>9 DEF Sweep, Spares
<1>10. CASE Restart
  BY <1>1, <1>10 DEF Restart
<1>11. CASE UNCHANGED vars
  BY <1>1, <1>11 DEF vars
<1> QED
  BY <1>2, <1>3, <1>4, <1>5, <1>6, <1>7, <1>8, <1>9, <1>10, <1>11
  DEF Next, Sending, OnSend, OnSendAnon, OnDeviceRevoke, OnDeviceRevokeOthers

\* An unexpired row of a device that has no session and is not revoked outlasts
\* every step, whoever acknowledges, revokes, sweeps or restarts.
THEOREM AcceptedMailIsKept == Spec => KeptForRecipient
<1>1. TypeOK /\ [Next]_vars => [Spares]_vars
  BY StepSpares
<1> QED BY <1>1, TypeCorrect, PTL DEF Spec, KeptForRecipient, Spares

-----------------------------------------------------------------------------
(* QUEUE_DONE                                                              *)

\* A set of natural numbers that is not empty has a least member.
LEMMA LeastMember ==
  ASSUME NEW S \in SUBSET Nat, S # {}
  PROVE  \E x \in S : \A y \in S : x <= y
<1> DEFINE Less == OpToRel(<, Nat)
<1>1. IsWellFoundedOn(Less, Nat)
  BY NatLessThanWellFounded
<1> HIDE DEF Less
<1>2. PICK x \in S : \A y \in S : <<y, x>> \notin Less
  BY <1>1, WFMin
<1>3. \A y \in S : ~(y < x)
  BY <1>2 DEF Less, OpToRel
<1>4. \A y \in S : x <= y
  BY <1>3
<1> QED BY <1>4

\* The table is finite in every reachable state.
FiniteTable == IsFiniteSet(envelopes)

\* A step adds one row at most.
LEMMA StepFinite == FiniteTable /\ [Next]_vars => FiniteTable'
<1> SUFFICES ASSUME FiniteTable, [Next]_vars PROVE FiniteTable'
  OBVIOUS
<1> USE DEF durable, session
<1>1. ASSUME envelopes' \subseteq envelopes PROVE FiniteTable'
  BY <1>1, FS_Subset DEF FiniteTable
<1>2. ASSUME NEW l, NEW ttl, EnqueueAndRespond(l, ttl) PROVE FiniteTable'
  <2>1. CASE envelopes' = envelopes
    BY <2>1 DEF FiniteTable
  <2>2. CASE EnqueueOnce(l, ttl)
    BY <2>2, FS_AddElement DEF EnqueueOnce, FiniteTable
  <2> QED BY <1>2, <2>1, <2>2 DEF EnqueueAndRespond
<1>3. ASSUME NEW s \in Sock, NEW d, OnAuth(s, d) PROVE FiniteTable'
  BY <1>1, <1>3 DEF OnAuth
<1>4. ASSUME NEW s \in Sock, NEW id, OnAck(s, id) PROVE FiniteTable'
  BY <1>1, <1>4 DEF OnAck
<1>5. ASSUME NEW s \in Sock, NEW p, HandleDrain(s, p) PROVE FiniteTable'
  BY <1>1, <1>5 DEF HandleDrain
<1>6. ASSUME NEW s \in Sock, HandleClose(s) PROVE FiniteTable'
  BY <1>1, <1>6 DEF HandleClose
<1>7. ASSUME NEW D, Revoke(D) PROVE FiniteTable'
  BY <1>1, <1>7 DEF Revoke
<1>8. CASE Tick
  BY <1>1, <1>8 DEF Tick
<1>9. CASE Sweep
  BY <1>1, <1>9 DEF Sweep
<1>10. CASE Restart
  BY <1>1, <1>10 DEF Restart
<1>11. CASE UNCHANGED vars
  BY <1>1, <1>11 DEF vars
<1> QED
  BY <1>2, <1>3, <1>4, <1>5, <1>6, <1>7, <1>8, <1>9, <1>10, <1>11
  DEF Next, Sending, OnSend, OnSendAnon, OnDeviceRevoke, OnDeviceRevokeOthers

\* A batch that is not full is everything that is pending: the rows before the
\* first one left behind would fill the batch.
LEMMA ShortBatchIsAll ==
  ASSUME NEW rows, IsFiniteSet(rows), NEW d, Short(rows, d),
         \A e \in rows : e.seq \in Nat
  PROVE  FirstBatch(rows, d) = Pending(rows, d)
<1> DEFINE P == Pending(rows, d)
           B == FirstBatch(rows, d)
           L == P \ B
           Older(e) == {f \in P : f.seq < e.seq}
<1>1. P \subseteq rows /\ B \subseteq P
  BY DEF FirstBatch, Pending
<1>2. \A e \in P : e \in B <=> Cardinality(Older(e)) < DrainBatch
  BY DEF FirstBatch
<1>3. IsFiniteSet(B) /\ Cardinality(B) \in Nat
  BY <1>1, FS_Subset, FS_CardinalityType
<1>4. Cardinality(B) < DrainBatch
  BY DEF Short
<1> HIDE DEF P, B
<1> SUFFICES ASSUME L # {} PROVE FALSE
  BY <1>1 DEF P, B
<1>5. Seqs(L) \in SUBSET Nat /\ Seqs(L) # {}
  BY <1>1 DEF Seqs
<1>6. PICK q \in Seqs(L) : \A y \in Seqs(L) : q <= y
  BY <1>5, LeastMember
<1>7. PICK e \in L : e.seq = q
  BY DEF Seqs
<1>8. \A f \in L : e.seq <= f.seq
  BY <1>6, <1>7 DEF Seqs
<1>9. Older(e) \subseteq B
  <2> SUFFICES ASSUME NEW f \in P, f.seq < e.seq, f \notin B PROVE FALSE
    OBVIOUS
  <2>1. f \in L /\ f.seq \in Nat /\ e.seq \in Nat
    BY <1>1
  <2> QED BY <2>1, <1>8
<1>10. /\ IsFiniteSet(Older(e))
       /\ Cardinality(Older(e)) \in Nat
       /\ Cardinality(Older(e)) <= Cardinality(B)
  BY <1>3, <1>9, FS_Subset, FS_CardinalityType
<1>11. Cardinality(Older(e)) < DrainBatch
  BY <1>3, <1>4, <1>10, RelayAssumption
<1> QED BY <1>2, <1>11

\* What the step-wise property says of one socket.
DoneIsTrue(s) ==
  Len(out'[s]) > Len(out[s]) /\ out'[s][Len(out'[s])] = Done => Missing(s)' = {}

\* An entry that is recorded stands in the log; nothing else is appended.
LEMMA RecordOf ==
  ASSUME NEW log \in Seq(Entry), NEW e \in Entry
  PROVE  /\ Record(log, e) \in {log, Append(log, e)}
         /\ Record(log, e) \in Seq(Entry)
         /\ e.via # "done" /\ e.ids # {} => Record(log, e) = Append(log, e)
BY DEF Record, Batch, Done

\* QUEUE_DONE is written by drainQueue behind a batch that is everything.
LEMMA DrainQueueDone ==
  ASSUME TypeOK, FiniteTable, NEW s \in Sock, NEW d,
         NEW rows \in SUBSET envelopes, NEW p \in BOOLEAN,
         DrainQueue(s, d, rows, p),
         envelopes' = rows, conn'[s] = d, now' = now,
         NEW t \in Sock
  PROVE  DoneIsTrue(t)
<1> DEFINE batch == FirstBatch(rows, d)
<1>1. batch \subseteq rows /\ \A r \in SUBSET batch : Seqs(r) \subseteq Nat
  <2>1. batch \subseteq rows
    BY DEF FirstBatch, Pending
  <2>2. \A e \in rows : e.seq \in Nat
    BY DEF TypeOK
  <2> QED BY <2>1, <2>2 DEF Seqs
<1>2. out[s] \in Seq(Entry) /\ out \in [Sock -> Seq(Entry)]
  BY DEF TypeOK, Entry
<1>3. Done \in Entry /\ \A r \in SUBSET batch : Batch(Seqs(r)) \in Entry
  BY <1>1 DEF Done, Batch, Entry
<1>4. ASSUME NEW r \in SUBSET batch, NEW q \in BOOLEAN, Write(s, r, FALSE, q)
      PROVE  DoneIsTrue(t)
  <2>1. out' = [out EXCEPT ![s] = Record(out[s], Batch(Seqs(r)))]
    BY <1>4 DEF Write
  <2>2. Record(out[s], Batch(Seqs(r))) \in {out[s], Append(out[s], Batch(Seqs(r)))}
    BY <1>2, <1>3, RecordOf
  <2>3. Batch(Seqs(r)) # Done
    BY DEF Batch, Done
  <2>4. \/ out'[t] = out[t]
        \/ out'[t] = Append(out[t], Batch(Seqs(r)))
    BY <1>2, <2>1, <2>2
  <2>5. out[t] \in Seq(Entry)
    BY <1>2
  <2> QED BY <1>3, <2>3, <2>4, <2>5 DEF DoneIsTrue
<1>5. ASSUME Short(rows, d), NEW q \in BOOLEAN, Write(s, batch, TRUE, q)
      PROVE  DoneIsTrue(t)
  <2> DEFINE log == Record(out[s], Batch(Seqs(batch)))
  <2>1. out' = [out EXCEPT ![s] = Record(log, Done)]
    BY <1>5 DEF Write
  <2>2. CASE t # s
    <3>1. out'[t] = out[t] /\ Len(out[t]) \in Nat
      BY <1>2, <2>1, <2>2
    <3> QED BY <3>1 DEF DoneIsTrue
  <2>3. CASE t = s
    <3>1. log \in Seq(Entry) /\ out'[s] \in {log, Append(log, Done)}
      BY <1>2, <1>3, <2>1, RecordOf
    <3>2. ASSUME NEW e \in batch
          PROVE  \E i \in DOMAIN out'[s] : e.seq \in out'[s][i].ids
      <4>1. e.seq \in Seqs(batch)
        BY DEF Seqs
      <4>2. Batch(Seqs(batch)).ids = Seqs(batch) /\ Batch(Seqs(batch)).via # "done"
        BY DEF Batch
      <4>3. log = Append(out[s], Batch(Seqs(batch)))
        BY <1>2, <1>3, <4>1, <4>2, RecordOf
      <4> DEFINE k == Len(out[s]) + 1
      <4>4. k \in DOMAIN log /\ log[k] = Batch(Seqs(batch))
        BY <1>2, <1>3, <4>3
      <4> HIDE DEF log
      <4>5. k \in DOMAIN out'[s] /\ out'[s][k] = log[k]
        BY <1>3, <3>1, <4>4
      <4> HIDE DEF k
      <4> QED BY <4>1, <4>2, <4>4, <4>5
    <3>3. \A e \in batch : e.seq \in Written(s)'
      BY <3>2 DEF Written
    <3>4. IsFiniteSet(rows) /\ \A e \in rows : e.seq \in Nat
      BY FS_Subset DEF FiniteTable, TypeOK
    <3>5. Pending(rows, d) = batch
      BY <1>5, <3>4, ShortBatchIsAll
    <3>6. Pending(envelopes, conn[s])' = Pending(rows, d)
      BY DEF Pending, Recipient
    <3>7. Missing(s)' = {}
      BY <3>3, <3>5, <3>6 DEF Missing
    <3> QED BY <2>3, <3>7 DEF DoneIsTrue
  <2> QED BY <2>2, <2>3
<1>6. {} \in SUBSET batch /\ batch \in SUBSET batch
  OBVIOUS
<1> QED BY <1>4, <1>5, <1>6 DEF DrainQueue

\* Any other step appends live frames, or nothing.
LEMMA NoDone ==
  ASSUME TypeOK, NEW t \in Sock,
         \/ out'[t] = out[t]
         \/ out'[t] = <<>>
         \/ \E n : out'[t] = Append(out[t], Live(n))
  PROVE  DoneIsTrue(t)
<1>1. out[t] \in Seq(Entry) /\ Len(out[t]) \in Nat
  BY DEF TypeOK, Entry
<1>2. CASE out'[t] = out[t] \/ out'[t] = <<>>
  BY <1>1, <1>2 DEF DoneIsTrue
<1>3. ASSUME NEW n, out'[t] = Append(out[t], Live(n)) PROVE DoneIsTrue(t)
  <2>1. out'[t][Len(out'[t])] = Live(n)
    BY <1>1, <1>3
  <2>2. Live(n) # Done
    BY DEF Live, Done
  <2> QED BY <2>1, <2>2 DEF DoneIsTrue
<1> QED BY <1>2, <1>3

\* Step by step: only drainQueue can append QUEUE_DONE.
LEMMA StepDone ==
  TypeOK /\ FiniteTable /\ [Next]_vars => \A t \in Sock : DoneIsTrue(t)
<1> SUFFICES ASSUME TypeOK, FiniteTable, [Next]_vars, NEW t \in Sock
             PROVE  DoneIsTrue(t)
  OBVIOUS
<1> USE DEF durable, session
<1>0. ASSUME out' = out PROVE DoneIsTrue(t)
  BY <1>0, NoDone
<1>1. ASSUME NEW S, Drop(S) PROVE DoneIsTrue(t)
  <2>1. out'[t] = out[t] \/ out'[t] = <<>>
    BY <1>1 DEF Drop
  <2> QED BY <2>1, NoDone
<1>2. ASSUME NEW l, NEW ttl, EnqueueAndRespond(l, ttl) PROVE DoneIsTrue(t)
  <2>1. CASE Deliver(To[l])
    <3>1. out'[t] = out[t] \/ out'[t] = Append(out[t], Live(nextSeq))
      BY <2>1 DEF Deliver
    <3> QED BY <3>1, NoDone
  <2> QED BY <1>0, <1>2, <2>1 DEF EnqueueAndRespond
<1>3. ASSUME NEW s \in Sock, NEW d \in Device, OnAuth(s, d) PROVE DoneIsTrue(t)
  <2>1. PICK p \in BOOLEAN : DrainQueue(s, d, envelopes, p)
    BY <1>3 DEF OnAuth
  <2>2. envelopes' = envelopes /\ now' = now /\ conn'[s] = d
    BY <1>3 DEF OnAuth, TypeOK
  <2> QED BY <2>1, <2>2, DrainQueueDone
<1>4. ASSUME NEW s \in Sock, NEW id, OnAck(s, id) PROVE DoneIsTrue(t)
  <2> DEFINE rest == {e \in envelopes : e.seq # id \/ Recipient(e) # conn[s]}
  <2>1. CASE out' = out
    BY <2>1, <1>0
  <2>2. CASE DrainQueue(s, conn[s], rest, pressed[s])
    <3>1. /\ envelopes' = rest /\ rest \in SUBSET envelopes
          /\ now' = now /\ conn'[s] = conn[s] /\ pressed[s] \in BOOLEAN
      BY <1>4 DEF OnAck, TypeOK
    <3> HIDE DEF rest
    <3> QED BY <2>2, <3>1, DrainQueueDone
  <2> QED BY <1>4, <2>1, <2>2 DEF OnAck
<1>5. ASSUME NEW s \in Sock, NEW p \in BOOLEAN, HandleDrain(s, p) PROVE DoneIsTrue(t)
  <2>1. envelopes' = envelopes /\ now' = now /\ conn'[s] = conn[s]
    BY <1>5 DEF HandleDrain
  <2>2. CASE DrainQueue(s, conn[s], envelopes, p)
    BY <2>1, <2>2, DrainQueueDone
  <2> QED BY <1>0, <1>5, <2>2 DEF HandleDrain
<1>6. ASSUME NEW s \in Sock, HandleClose(s) PROVE DoneIsTrue(t)
  BY <1>1, <1>6 DEF HandleClose
<1>7. ASSUME NEW D, Revoke(D) PROVE DoneIsTrue(t)
  BY <1>1, <1>7 DEF Revoke
<1>8. CASE Tick
  BY <1>0, <1>8 DEF Tick
<1>9. CASE Sweep
  BY <1>0, <1>9 DEF Sweep
<1>10. CASE Restart
  BY <1>1, <1>10 DEF Restart
<1>11. CASE UNCHANGED vars
  BY <1>0, <1>11 DEF vars
<1> QED
  BY <1>2, <1>3, <1>4, <1>5, <1>6, <1>7, <1>8, <1>9, <1>10, <1>11
  DEF Next, Sending, OnSend, OnSendAnon, OnDeviceRevoke, OnDeviceRevokeOthers

\* The step-wise property of all sockets.
AllDoneTrue ==
  \A s \in Sock :
    /\ Len(out'[s]) > Len(out[s])
    /\ out'[s][Len(out'[s])] = Done
    => Missing(s)' = {}

\* When a session is told that its queue is done, every pending row of the
\* device has been written to it, with any batch size and any mail.
THEOREM QueueDoneTellsTheTruth == Spec => QueueDoneIsTrue
<1>1. Init => FiniteTable
  BY FS_EmptySet DEF Init, FiniteTable
<1>2. FiniteTable /\ [Next]_vars => FiniteTable'
  BY StepFinite
<1>3. TypeOK /\ FiniteTable /\ [Next]_vars => [AllDoneTrue]_vars
  BY StepDone DEF AllDoneTrue, DoneIsTrue
<1> QED
  BY <1>1, <1>2, <1>3, TypeCorrect, PTL
  DEF Spec, QueueDoneIsTrue, AllDoneTrue

-----------------------------------------------------------------------------
(* A batch                                                                 *)

\* A number names one row of a table, below the next number.
Numbered(rows, n) ==
  /\ \A e \in rows : e.seq \in Nat /\ e.seq < n
  /\ \A e, f \in rows : e.seq = f.seq => e = f

\* A set of natural numbers below some number has a greatest member.
LEMMA GreatestMember ==
  ASSUME NEW S \in SUBSET Nat, S # {}, NEW n \in Nat, \A x \in S : x < n
  PROVE  \E x \in S : \A y \in S : y <= x
<1> DEFINE T == {n - x : x \in S}
<1>0. \A x \in S : n - x \in Nat
  OBVIOUS
<1>1. T \in SUBSET Nat /\ T # {}
  BY <1>0
<1> HIDE DEF T
<1>2. PICK t \in T : \A u \in T : t <= u
  BY <1>1, LeastMember
<1>3. PICK x \in S : t = n - x
  BY DEF T
<1>4. \A y \in S : n - x <= n - y
  BY <1>2, <1>3 DEF T
<1>5. \A y \in S : y <= x
  BY <1>4
<1> QED BY <1>5

\* Before the last row of a batch there are fewer than DRAIN_BATCH rows.
LEMMA BatchIsBounded ==
  ASSUME NEW rows, IsFiniteSet(rows), NEW d, NEW n \in Nat, Numbered(rows, n),
         NEW r \in SUBSET FirstBatch(rows, d)
  PROVE  IsFiniteSet(Seqs(r)) /\ Cardinality(Seqs(r)) <= DrainBatch
<1> DEFINE P == Pending(rows, d)
           B == FirstBatch(rows, d)
           Older(e) == {f \in P : f.seq < e.seq}
<1>1. P \subseteq rows /\ B \subseteq P
  BY DEF FirstBatch, Pending
<1>2. \A e \in B : Cardinality(Older(e)) < DrainBatch
  BY DEF FirstBatch
<1>3. IsFiniteSet(P) /\ IsFiniteSet(B) /\ IsFiniteSet(r)
  BY <1>1, FS_Subset
<1>4. \A e \in P : e.seq \in Nat /\ e.seq < n
  BY <1>1 DEF Numbered
<1> HIDE DEF P, B
<1>5. Cardinality(B) <= DrainBatch
  <2>1. CASE B = {}
    BY <2>1, FS_EmptySet, RelayAssumption
  <2>2. CASE B # {}
    <3>1. Seqs(B) \in SUBSET Nat /\ Seqs(B) # {} /\ \A x \in Seqs(B) : x < n
      BY <1>1, <1>4, <2>2 DEF Seqs
    <3>2. PICK q \in Seqs(B) : \A y \in Seqs(B) : y <= q
      BY <3>1, GreatestMember
    <3>3. PICK m \in B : m.seq = q
      BY DEF Seqs
    <3>4. B \subseteq Older(m) \cup {m}
      <4> SUFFICES ASSUME NEW e \in B, e # m PROVE e \in P /\ e.seq < m.seq
        OBVIOUS
      <4>1. e \in rows /\ m \in rows
        BY <1>1
      <4>2. e.seq # m.seq
        BY <4>1 DEF Numbered
      <4>3. e.seq <= m.seq
        BY <3>2, <3>3 DEF Seqs
      <4>4. e.seq \in Nat /\ m.seq \in Nat
        BY <1>1, <1>4
      <4> QED BY <1>1, <4>2, <4>3, <4>4
    <3>5. IsFiniteSet(Older(m)) /\ Cardinality(Older(m)) \in Nat
      BY <1>3, FS_Subset, FS_CardinalityType
    <3>6. Cardinality(Older(m)) < DrainBatch
      BY <1>2
    <3> DEFINE W == Older(m)
    <3> HIDE DEF W
    <3>10. IsFiniteSet(W) /\ Cardinality(W) \in Nat
      BY <3>5 DEF W
    <3>7. /\ IsFiniteSet(W \cup {m})
          /\ Cardinality(W \cup {m}) <= Cardinality(W) + 1
      BY <3>10, FS_AddElement
    <3>8. Cardinality(B) <= Cardinality(W \cup {m})
      BY <3>4, <3>7, FS_Subset DEF W
    <3>9. Cardinality(B) \in Nat /\ Cardinality(W \cup {m}) \in Nat /\ Cardinality(W) \in Nat
      BY <1>3, <3>5, <3>7, FS_CardinalityType DEF W
    <3> QED BY <3>6, <3>7, <3>8, <3>9, RelayAssumption DEF W
  <2> QED BY <2>1, <2>2
<1>6. Cardinality(r) <= Cardinality(B)
  BY <1>3, FS_Subset DEF B
<1> DEFINE f == [e \in r |-> e.seq]
<1>7. f \in Surjection(r, Seqs(r))
  BY DEF Seqs, Surjection
<1>8. IsFiniteSet(Seqs(r)) /\ Cardinality(Seqs(r)) <= Cardinality(r)
  BY <1>3, <1>7, FS_Surjection
<1>9. Cardinality(B) \in Nat /\ Cardinality(r) \in Nat /\ Cardinality(Seqs(r)) \in Nat
  BY <1>3, <1>8, FS_CardinalityType
<1> QED BY <1>5, <1>6, <1>8, <1>9, RelayAssumption

\* With a row the batch holds every older pending row.
LEMMA BatchIsOldest ==
  ASSUME NEW rows, IsFiniteSet(rows), NEW d, NEW n \in Nat, Numbered(rows, n),
         NEW f \in FirstBatch(rows, d),
         NEW e \in Pending(rows, d), e.seq < f.seq
  PROVE  e \in FirstBatch(rows, d)
<1> DEFINE P == Pending(rows, d)
           Older(g) == {h \in P : h.seq < g.seq}
<1>1. P \subseteq rows /\ f \in P /\ Cardinality(Older(f)) < DrainBatch
  BY DEF FirstBatch, Pending
<1>2. IsFiniteSet(P) /\ e \in P
  BY <1>1, FS_Subset
<1>3. \A g \in P : g.seq \in Nat
  BY <1>1 DEF Numbered
<1> HIDE DEF P
<1>4. Older(e) \subseteq Older(f)
  BY <1>1, <1>2, <1>3
<1>5. /\ IsFiniteSet(Older(f)) /\ Cardinality(Older(f)) \in Nat
      /\ Cardinality(Older(e)) \in Nat
      /\ Cardinality(Older(e)) <= Cardinality(Older(f))
  BY <1>2, <1>4, FS_Subset, FS_CardinalityType
<1>6. Cardinality(Older(e)) < DrainBatch
  BY <1>1, <1>5, RelayAssumption
<1> QED BY <1>2, <1>6 DEF FirstBatch, P

\* A batch is empty only if nothing is pending.
LEMMA EmptyBatchIsAll ==
  ASSUME NEW rows, IsFiniteSet(rows), NEW d, \A e \in rows : e.seq \in Nat,
         FirstBatch(rows, d) = {}
  PROVE  Pending(rows, d) = {}
<1>1. Short(rows, d)
  BY FS_EmptySet, RelayAssumption DEF Short
<1> QED BY <1>1, ShortBatchIsAll

-----------------------------------------------------------------------------
(* The log of a session                                                    *)

\* What drainQueue adds to a log: its batch, if there is one, and QUEUE_DONE or not.
Grown(old, new, b) ==
  \E mid \in {IF b = {} THEN old ELSE Append(old, Batch(b))} :
    new = mid \/ new = Append(mid, Done)

\* The entries of the longer log.
LEMMA GrownEntries ==
  ASSUME NEW old \in Seq(Entry), NEW b \in SUBSET Nat, NEW new, Grown(old, new, b)
  PROVE  /\ new \in Seq(Entry)
         /\ Len(old) <= Len(new)
         /\ \A i \in DOMAIN old : i \in DOMAIN new /\ new[i] = old[i]
         /\ \A i \in DOMAIN new \ DOMAIN old :
              \/ new[i] = Done
              \/ i = Len(old) + 1 /\ b # {} /\ new[i] = Batch(b)
         /\ b # {} => Len(old) + 1 \in DOMAIN new /\ new[Len(old) + 1] = Batch(b)
<1>1. Done \in Entry /\ Batch(b) \in Entry
  BY DEF Done, Batch, Entry
<1> DEFINE mid == IF b = {} THEN old ELSE Append(old, Batch(b))
<1>2. new = mid \/ new = Append(mid, Done)
  BY DEF Grown
<1>3. /\ mid \in Seq(Entry)
      /\ Len(old) <= Len(mid)
      /\ \A i \in DOMAIN old : i \in DOMAIN mid /\ mid[i] = old[i]
      /\ \A i \in DOMAIN mid \ DOMAIN old : i = Len(old) + 1 /\ b # {} /\ mid[i] = Batch(b)
      /\ b # {} => Len(old) + 1 \in DOMAIN mid /\ mid[Len(old) + 1] = Batch(b)
  <2>1. CASE b = {}
    BY <2>1
  <2>2. CASE b # {}
    <3> DEFINE e == Batch(b)
    <3>1. mid = Append(old, e) /\ e \in Entry
      BY <1>1, <2>2
    <3> HIDE DEF mid, e
    <3>2. /\ mid \in Seq(Entry)
          /\ Len(mid) = Len(old) + 1
          /\ mid[Len(old) + 1] = e
          /\ \A i \in DOMAIN old : i \in DOMAIN mid /\ mid[i] = old[i]
      BY <3>1
    <3>3. \A i \in DOMAIN mid \ DOMAIN old : i = Len(old) + 1
      BY <3>2
    <3>4. Len(old) + 1 \in DOMAIN mid
      BY <3>2
    <3> QED BY <2>2, <3>2, <3>3, <3>4 DEF e
  <2> QED BY <2>1, <2>2
<1> HIDE DEF mid
<1>4. CASE new = mid
  BY <1>3, <1>4
<1>5. CASE new = Append(mid, Done)
  <2>1. new \in Seq(Entry) /\ Len(new) = Len(mid) + 1 /\ new[Len(mid) + 1] = Done
    BY <1>1, <1>3, <1>5
  <2>2. \A i \in DOMAIN mid : i \in DOMAIN new /\ new[i] = mid[i]
    BY <1>1, <1>3, <1>5
  <2>3. \A i \in DOMAIN new \ DOMAIN mid : i = Len(mid) + 1
    BY <1>3, <2>1
  <2>4. \A i \in DOMAIN old : i \in DOMAIN new /\ new[i] = old[i]
    BY <1>3, <2>2
  <2>5. ASSUME NEW i \in DOMAIN new \ DOMAIN old
        PROVE  \/ new[i] = Done
               \/ i = Len(old) + 1 /\ b # {} /\ new[i] = Batch(b)
    <3>1. CASE i \in DOMAIN mid
      BY <1>3, <2>2, <3>1
    <3>2. CASE i \notin DOMAIN mid
      BY <2>1, <2>3, <3>2
    <3> QED BY <3>1, <3>2
  <2>6. b # {} => Len(old) + 1 \in DOMAIN new /\ new[Len(old) + 1] = Batch(b)
    BY <1>3, <2>2
  <2>7. Len(old) \in Nat /\ Len(mid) \in Nat
    BY <1>3
  <2>8. Len(old) <= Len(new)
    BY <1>3, <2>1, <2>7
  <2> QED BY <2>1, <2>4, <2>5, <2>6, <2>8
<1> QED BY <1>2, <1>4, <1>5

\* What drainQueue does: it hands out the oldest rows of the batch, and where it
\* hands out none of a batch that has some it leaves the socket under pressure.
HandsOut(s, d, rows) ==
  \E r \in SUBSET FirstBatch(rows, d) :
    /\ \A e \in r, f \in FirstBatch(rows, d) \ r : e.seq < f.seq
    /\ inflight' = [inflight EXCEPT ![s] = Seqs(r)]
    /\ \E new : /\ Grown(out[s], new, Seqs(r))
                /\ out' = [out EXCEPT ![s] = new]
    /\ \E q \in BOOLEAN : /\ pressed' = [pressed EXCEPT ![s] = q]
                          /\ r = {} /\ FirstBatch(rows, d) # {} => q

\* Every way drainQueue ends is of that kind.
LEMMA DrainQueueEffect ==
  ASSUME TypeOK, NEW s \in Sock, NEW d, NEW rows \in SUBSET envelopes,
         NEW p \in BOOLEAN, DrainQueue(s, d, rows, p)
  PROVE  HandsOut(s, d, rows)
<1> USE DEF HandsOut
<1> DEFINE B == FirstBatch(rows, d)
<1>1. ASSUME NEW r \in SUBSET B, NEW done \in BOOLEAN, NEW q \in BOOLEAN,
             Write(s, r, done, q)
      PROVE  /\ inflight' = [inflight EXCEPT ![s] = Seqs(r)]
             /\ \E new : /\ Grown(out[s], new, Seqs(r))
                         /\ out' = [out EXCEPT ![s] = new]
             /\ pressed' = [pressed EXCEPT ![s] = q]
  <2> DEFINE b == Seqs(r)
             mid == IF b = {} THEN out[s] ELSE Append(out[s], Batch(b))
             log == Record(out[s], Batch(b))
             new == IF done THEN Record(log, Done) ELSE log
  <2>1. log = mid
    BY DEF Record, Batch, Done
  <2>2. new = mid \/ new = Append(mid, Done)
    BY <2>1 DEF Record
  <2>3. Grown(out[s], new, b)
    BY <2>2 DEF Grown
  <2>4. out' = [out EXCEPT ![s] = new]
    BY <1>1 DEF Write
  <2> HIDE DEF new
  <2> QED BY <1>1, <2>3, <2>4 DEF Write
<1>2. CASE \E done, q \in BOOLEAN : Write(s, B, done, q)
  <2>1. PICK done, q \in BOOLEAN : Write(s, B, done, q)
    BY <1>2
  <2>2. B \in SUBSET B /\ \A e \in B, f \in B \ B : e.seq < f.seq
    OBVIOUS
  <2> QED BY <1>1, <2>1, <2>2
<1>3. CASE Write(s, {}, FALSE, TRUE)
  <2>1. {} \in SUBSET B /\ \A e \in {}, f \in B \ {} : e.seq < f.seq
    OBVIOUS
  <2> QED BY <1>1, <1>3, <2>1
<1>4. CASE \E r \in (SUBSET B) \ {{}} :
             (\A e \in r, f \in B \ r : e.seq < f.seq) /\ Write(s, r, FALSE, TRUE)
  <2>1. PICK r \in (SUBSET B) \ {{}} :
             (\A e \in r, f \in B \ r : e.seq < f.seq) /\ Write(s, r, FALSE, TRUE)
    BY <1>4
  <2>2. r \in SUBSET B /\ r # {} /\ \A e \in r, f \in B \ r : e.seq < f.seq
    BY <2>1
  <2> HIDE DEF B
  <2>3. Write(s, r, FALSE, TRUE)
    BY <2>1
  <2>4. /\ inflight' = [inflight EXCEPT ![s] = Seqs(r)]
        /\ \E new : /\ Grown(out[s], new, Seqs(r))
                    /\ out' = [out EXCEPT ![s] = new]
        /\ pressed' = [pressed EXCEPT ![s] = TRUE]
    BY <1>1, <2>2, <2>3
  <2> QED BY <2>2, <2>4 DEF B
<1> QED BY <1>2, <1>3, <1>4 DEF DrainQueue

-----------------------------------------------------------------------------
(* The order of a session                                                  *)

\* The rows a log hands out by the queue.
Handed(log) == UNION {log[i].ids : i \in {k \in DOMAIN log : log[k].via = "drain"}}

\* What holds of a session of d with this log that waits for the ACKs of left,
\* while the table holds rows, n is the next number and t the time: a row is
\* handed out once, and those not acknowledged are the ones it waits for; a batch
\* takes along what is older and not in it before, and a live frame is the first
\* with its number.
Orderly(log, left, rows, d, n, t) ==
  /\ d = None => log = <<>> /\ left = {}
  /\ \A i, j \in DOMAIN log :
       i # j /\ log[i].via = "drain" /\ log[j].via = "drain" => log[i].ids \cap log[j].ids = {}
  /\ IsFiniteSet(left) /\ Cardinality(left) <= DrainBatch
  /\ left \subseteq Handed(log)
  /\ \A e \in rows : e.seq \in Handed(log) => e.seq \in left /\ Recipient(e) = d
  /\ \A j \in DOMAIN log : \A id \in log[j].ids : id < n
  /\ \A j \in DOMAIN log : log[j].via = "done" => log[j].ids = {}
  /\ \A j \in DOMAIN log : log[j].via = "live" =>
       \A i \in DOMAIN log : i < j => log[i].ids \cap log[j].ids = {}
  /\ \A j \in DOMAIN log : log[j].via = "drain" =>
       \A id \in log[j].ids, e \in rows :
         Recipient(e) = d /\ e.exp > t /\ e.seq < id => e.seq \in log[j].ids

\* The types of a table.
Rows(rows) == \A e \in rows : e.seq \in Nat /\ e.exp \in Nat

\* An entry names natural numbers.
LEMMA LogIds ==
  ASSUME NEW log \in Seq(Entry)
  PROVE  \A j \in DOMAIN log : log[j].ids \in SUBSET Nat
<1>1. \A j \in DOMAIN log : log[j] \in Entry
  OBVIOUS
<1> QED BY <1>1 DEF Entry

\* Nothing is lost of it while rows go, rows are added at the end, and time passes.
LEMMA OrderlyLater ==
  ASSUME NEW log \in Seq(Entry), NEW left, NEW rows, NEW d, NEW n \in Nat, NEW t \in Nat,
         Rows(rows), Orderly(log, left, rows, d, n, t),
         NEW rows2, NEW m \in Nat, NEW u \in Nat, n <= m, t <= u,
         Rows(rows2), \A e \in rows2 : e \in rows \/ e.seq = n
  PROVE  Orderly(log, left, rows2, d, m, u)
<1>1. \A j \in DOMAIN log : log[j].ids \in SUBSET Nat
  BY LogIds
<1>2. \A j \in DOMAIN log : \A id \in log[j].ids : id < n
  BY DEF Orderly
<1>3. n \notin Handed(log)
  BY <1>1, <1>2 DEF Handed
<1>4. \A e \in rows2 : e.seq \in Handed(log) => e.seq \in left /\ Recipient(e) = d
  BY <1>3 DEF Orderly
<1>5. \A j \in DOMAIN log : \A id \in log[j].ids : id < m
  BY <1>1, <1>2
<1>6. ASSUME NEW j \in DOMAIN log, log[j].via = "drain", NEW id \in log[j].ids, NEW e \in rows2,
             Recipient(e) = d, e.exp > u, e.seq < id
      PROVE  e.seq \in log[j].ids
  <2>1. id \in Nat /\ id < n
    BY <1>1, <1>2
  <2>2. e.seq # n
    BY <2>1, <1>6
  <2>3. e \in rows /\ e.exp \in Nat
    BY <2>2 DEF Rows
  <2>4. e.exp > t
    BY <2>3, <1>6
  <2> QED BY <1>6, <2>3, <2>4 DEF Orderly
<1> QED BY <1>4, <1>5, <1>6 DEF Orderly

\* An ACK takes a row from the table and from what is waited for.
LEMMA OrderlyAck ==
  ASSUME NEW log \in Seq(Entry), NEW left, NEW rows, NEW d, NEW n \in Nat, NEW t \in Nat,
         Orderly(log, left, rows, d, n, t), NEW id, NEW rest,
         \A e \in rest : e \in rows /\ (e.seq # id \/ Recipient(e) # d)
  PROVE  Orderly(log, left \ {id}, rest, d, n, t)
<1>1. IsFiniteSet(left) /\ Cardinality(left) \in Nat /\ Cardinality(left) <= DrainBatch
  BY FS_CardinalityType DEF Orderly
<1>2. /\ IsFiniteSet(left \ {id}) /\ Cardinality(left \ {id}) \in Nat
      /\ Cardinality(left \ {id}) <= Cardinality(left)
  BY <1>1, FS_Subset, FS_CardinalityType
<1>3. Cardinality(left \ {id}) <= DrainBatch
  BY <1>1, <1>2, RelayAssumption
<1> QED BY <1>2, <1>3 DEF Orderly

\* A live frame is the first that has the number of the new row.
LEMMA OrderlyLive ==
  ASSUME NEW log \in Seq(Entry), NEW left, NEW rows, NEW d \in Device, NEW n \in Nat, NEW t \in Nat,
         Rows(rows), Orderly(log, left, rows, d, n, t),
         NEW rows2, Rows(rows2), \A e \in rows2 : e \in rows \/ e.seq = n
  PROVE  Orderly(Append(log, Live(n)), left, rows2, d, n + 1, t)
<1> DEFINE k == Len(log) + 1
           new == Append(log, Live(n))
<1>0. Live(n) \in Entry /\ Live(n).ids = {n} /\ Live(n).via = "live"
  BY DEF Live, Entry
<1>1. Orderly(log, left, rows2, d, n + 1, t)
  BY OrderlyLater
<1>2. /\ new[k] = Live(n) /\ Len(log) \in Nat
      /\ DOMAIN new = 1 .. k
      /\ \A i \in DOMAIN new : i # k => i \in DOMAIN log /\ new[i] = log[i]
      /\ \A i \in DOMAIN log : i \in DOMAIN new /\ i < k /\ new[i] = log[i]
  BY <1>0
<1> HIDE DEF new
<1>3. Handed(new) = Handed(log)
  <2>1. {i \in DOMAIN new : new[i].via = "drain"} = {i \in DOMAIN log : log[i].via = "drain"}
    BY <1>0, <1>2
  <2> QED BY <1>2, <2>1 DEF Handed
<1>4. \A j \in DOMAIN log : log[j].ids \in SUBSET Nat /\ \A id \in log[j].ids : id < n
  <2>1. \A j \in DOMAIN log : \A id \in log[j].ids : id < n
    BY DEF Orderly
  <2> QED BY <2>1, LogIds
<1>5. ASSUME NEW i \in DOMAIN log PROVE log[i].ids \cap {n} = {}
  BY <1>4
<1>6. \A j \in DOMAIN new : \A id \in new[j].ids : id < n + 1
  BY <1>0, <1>2, <1>4
<1>7. ASSUME NEW j \in DOMAIN new, new[j].via = "live", NEW i \in DOMAIN new, i < j
      PROVE  new[i].ids \cap new[j].ids = {}
  <2>1. i # k
    BY <1>2, <1>7
  <2>2. CASE j = k
    BY <1>0, <1>2, <1>5, <2>1, <2>2
  <2>3. CASE j # k
    BY <1>1, <1>2, <1>7, <2>1, <2>3 DEF Orderly
  <2> QED BY <2>2, <2>3
<1>8. ASSUME NEW i \in DOMAIN new, NEW j \in DOMAIN new, i # j,
             new[i].via = "drain", new[j].via = "drain"
      PROVE  new[i].ids \cap new[j].ids = {}
  <2>1. i # k /\ j # k
    BY <1>0, <1>2, <1>8
  <2> QED BY <1>1, <1>2, <1>8, <2>1 DEF Orderly
<1>9. \A j \in DOMAIN new : new[j].via = "done" => new[j].ids = {}
  BY <1>0, <1>1, <1>2 DEF Orderly
<1>10. ASSUME NEW j \in DOMAIN new, new[j].via = "drain", NEW id \in new[j].ids, NEW e \in rows2,
              Recipient(e) = d, e.exp > t, e.seq < id
       PROVE  e.seq \in new[j].ids
  <2>1. j # k
    BY <1>0, <1>2, <1>10
  <2> QED BY <1>1, <1>2, <1>10, <2>1 DEF Orderly
<1>11. d # None
  BY RelayAssumption
<1> QED BY <1>1, <1>3, <1>6, <1>7, <1>8, <1>9, <1>10, <1>11 DEF Orderly, new

\* A session that waits for nothing is given the oldest rows of a batch.
LEMMA OrderlyDrain ==
  ASSUME NEW log \in Seq(Entry), NEW rows, NEW d \in Device, NEW n \in Nat,
         IsFiniteSet(rows), Rows(rows), Numbered(rows, n),
         Orderly(log, {}, rows, d, n, now),
         NEW r \in SUBSET FirstBatch(rows, d),
         \A e \in r, f \in FirstBatch(rows, d) \ r : e.seq < f.seq,
         NEW new, Grown(log, new, Seqs(r))
  PROVE  new \in Seq(Entry) /\ Orderly(new, Seqs(r), rows, d, n, now)
<1> DEFINE b == Seqs(r)
           k == Len(log) + 1
<1>1. r \subseteq rows /\ r \subseteq Pending(rows, d)
  BY DEF FirstBatch, Pending
<1>2. b \in SUBSET Nat /\ \A x \in b : x < n
  BY <1>1 DEF Seqs, Numbered
<1>3. /\ new \in Seq(Entry)
      /\ Len(log) <= Len(new)
      /\ \A i \in DOMAIN log : i \in DOMAIN new /\ new[i] = log[i]
      /\ \A i \in DOMAIN new \ DOMAIN log :
           \/ new[i] = Done
           \/ i = k /\ b # {} /\ new[i] = Batch(b)
      /\ b # {} => k \in DOMAIN new /\ new[k] = Batch(b)
  BY <1>2, GrownEntries
<1>4. Done.via = "done" /\ Done.ids = {} /\ Batch(b).via = "drain" /\ Batch(b).ids = b
  BY DEF Done, Batch
<1>5. IsFiniteSet(b) /\ Cardinality(b) <= DrainBatch
  BY BatchIsBounded
<1>6. b = {} \/ \A e \in rows : e.seq \in b => e \in r
  BY <1>1 DEF Seqs, Numbered
<1> HIDE DEF b
<1>7. \A e \in rows : e.seq \notin Handed(log)
  BY DEF Orderly
<1>8. Handed(new) = Handed(log) \cup b
  <2>1. \A i \in DOMAIN new : new[i].via = "drain" => i \in DOMAIN log \/ (i = k /\ new[i].ids = b)
    BY <1>3, <1>4
  <2>2. ASSUME NEW x \in Handed(new) PROVE x \in Handed(log) \cup b
    <3>1. PICK i \in DOMAIN new : new[i].via = "drain" /\ x \in new[i].ids
      BY DEF Handed
    <3> QED BY <1>3, <2>1, <3>1 DEF Handed
  <2>3. ASSUME NEW x \in Handed(log) PROVE x \in Handed(new)
    <3>1. PICK i \in DOMAIN log : log[i].via = "drain" /\ x \in log[i].ids
      BY DEF Handed
    <3> QED BY <1>3, <3>1 DEF Handed
  <2>4. ASSUME NEW x \in b PROVE x \in Handed(new)
    BY <1>3, <1>4 DEF Handed
  <2> QED BY <2>2, <2>3, <2>4
<1>9. \A x \in b : x \notin Handed(log)
  BY <1>1, <1>7 DEF Seqs, b
<1>10. ASSUME NEW i \in DOMAIN log, log[i].via = "drain" PROVE log[i].ids \cap b = {}
  BY <1>9, <1>10 DEF Handed
<1>11. \A i \in DOMAIN new : \/ i \in DOMAIN log /\ new[i] = log[i]
                             \/ i \notin DOMAIN log /\ new[i].via = "done" /\ new[i].ids = {}
                             \/ i = k /\ new[i].via = "drain" /\ new[i].ids = b
  BY <1>3, <1>4
<1>12. ASSUME NEW i \in DOMAIN new, NEW j \in DOMAIN new, i # j,
              new[i].via = "drain", new[j].via = "drain"
       PROVE  new[i].ids \cap new[j].ids = {}
  <2>1. CASE i \in DOMAIN log /\ j \in DOMAIN log
    BY <1>3, <1>12, <2>1 DEF Orderly
  <2>2. CASE i \in DOMAIN log /\ j \notin DOMAIN log
    BY <1>10, <1>11, <1>12, <2>2
  <2>3. CASE i \notin DOMAIN log /\ j \in DOMAIN log
    BY <1>10, <1>11, <1>12, <2>3
  <2>4. CASE i \notin DOMAIN log /\ j \notin DOMAIN log
    BY <1>11, <1>12, <2>4
  <2> QED BY <2>1, <2>2, <2>3, <2>4
<1>13. ASSUME NEW e \in rows, e.seq \in Handed(new) PROVE e.seq \in b /\ Recipient(e) = d
  <2>1. e.seq \in b
    BY <1>7, <1>8, <1>13
  <2>2. e \in Pending(rows, d)
    BY <1>1, <1>6, <2>1
  <2> QED BY <2>1, <2>2 DEF Pending
<1>14. \A j \in DOMAIN new : \A id \in new[j].ids : id < n
  <2>1. \A j \in DOMAIN log : \A id \in log[j].ids : id < n
    BY DEF Orderly
  <2> QED BY <1>2, <1>11, <2>1
<1>15. \A j \in DOMAIN new : new[j].via = "done" => new[j].ids = {}
  BY <1>11 DEF Orderly
<1>16. ASSUME NEW j \in DOMAIN new, new[j].via = "live", NEW i \in DOMAIN new, i < j
       PROVE  new[i].ids \cap new[j].ids = {}
  <2>1. j \in DOMAIN log
    BY <1>11, <1>16
  <2>2. i \in DOMAIN log
    BY <1>3, <1>16, <2>1
  <2> QED BY <1>3, <1>16, <2>1, <2>2 DEF Orderly
<1>17. ASSUME NEW j \in DOMAIN new, new[j].via = "drain", NEW id \in new[j].ids, NEW e \in rows,
              Recipient(e) = d, e.exp > now, e.seq < id
       PROVE  e.seq \in new[j].ids
  <2>1. CASE j \in DOMAIN log
    BY <1>3, <1>17, <2>1 DEF Orderly
  <2>2. CASE j \notin DOMAIN log
    <3>1. new[j].ids = b
      BY <1>11, <1>17, <2>2
    <3>2. PICK f \in r : f.seq = id
      BY <1>17, <3>1 DEF b, Seqs
    <3>3. e \in Pending(rows, d)
      BY <1>17 DEF Pending
    <3>4. e \in FirstBatch(rows, d)
      BY <1>17, <3>2, <3>3, BatchIsOldest
    <3>5. e.seq \in Nat /\ f.seq \in Nat
      BY <1>1 DEF Rows
    <3>6. e \in r
      BY <1>17, <3>2, <3>4, <3>5
    <3> QED BY <3>1, <3>6 DEF b, Seqs
  <2> QED BY <2>1, <2>2
<1>18. d # None
  BY RelayAssumption
<1>19. Orderly(new, b, rows, d, n, now)
  BY <1>5, <1>8, <1>12, <1>13, <1>14, <1>15, <1>16, <1>17, <1>18 DEF Orderly
<1> QED BY <1>3, <1>19 DEF b

-----------------------------------------------------------------------------
(* Every step keeps the order                                              *)

OrderInv ==
  /\ Numbered(envelopes, nextSeq)
  /\ \A s \in Sock : Orderly(out[s], inflight[s], envelopes, conn[s], nextSeq, now)

\* A session that begins is orderly.
LEMMA OrderlyNew ==
  ASSUME NEW rows, NEW d, NEW n, NEW t
  PROVE  Orderly(<<>>, {}, rows, d, n, t)
<1>1. IsFiniteSet({}) /\ Cardinality({}) <= DrainBatch
  BY FS_EmptySet, RelayAssumption
<1> QED BY <1>1 DEF Orderly, Handed

\* The table changes by rows that go, and by a row with the next number.
TableStep ==
  /\ \A e \in envelopes' : e \in envelopes \/ e.seq = nextSeq
  /\ \/ nextSeq' = nextSeq /\ envelopes' \subseteq envelopes
     \/ /\ nextSeq' = nextSeq + 1
        /\ \A e, f \in envelopes' \ envelopes : e = f
  /\ now <= now'

LEMMA NextTable == TypeOK /\ [Next]_vars => TableStep
<1> SUFFICES ASSUME TypeOK, [Next]_vars PROVE TableStep
  OBVIOUS
<1> USE DEF durable, session
<1>0. now \in Nat
  BY DEF TypeOK
<1>1. ASSUME envelopes' \subseteq envelopes, nextSeq' = nextSeq, now' = now PROVE TableStep
  BY <1>0, <1>1 DEF TableStep
<1>2. ASSUME NEW l, NEW ttl, EnqueueAndRespond(l, ttl) PROVE TableStep
  <2>1. CASE envelopes' = envelopes /\ nextSeq' = nextSeq
    BY <1>1, <1>2, <2>1 DEF EnqueueAndRespond
  <2>2. CASE EnqueueOnce(l, ttl)
    BY <1>0, <1>2, <2>2 DEF EnqueueOnce, EnqueueAndRespond, TableStep
  <2> QED BY <1>2, <2>1, <2>2 DEF EnqueueAndRespond
<1>3. ASSUME NEW s \in Sock, NEW d, OnAuth(s, d) PROVE TableStep
  BY <1>1, <1>3 DEF OnAuth
<1>4. ASSUME NEW s \in Sock, NEW id, OnAck(s, id) PROVE TableStep
  BY <1>1, <1>4 DEF OnAck
<1>5. ASSUME NEW s \in Sock, NEW p, HandleDrain(s, p) PROVE TableStep
  BY <1>1, <1>5 DEF HandleDrain
<1>6. ASSUME NEW s \in Sock, HandleClose(s) PROVE TableStep
  BY <1>1, <1>6 DEF HandleClose
<1>7. ASSUME NEW D, Revoke(D) PROVE TableStep
  BY <1>1, <1>7 DEF Revoke
<1>8. CASE Tick
  BY <1>0, <1>8 DEF Tick, TableStep
<1>9. CASE Sweep
  BY <1>1, <1>9 DEF Sweep
<1>10. CASE Restart
  BY <1>1, <1>10 DEF Restart
<1>11. CASE UNCHANGED vars
  BY <1>1, <1>11 DEF vars
<1> QED
  BY <1>2, <1>3, <1>4, <1>5, <1>6, <1>7, <1>8, <1>9, <1>10, <1>11
  DEF Next, Sending, OnSend, OnSendAnon, OnDeviceRevoke, OnDeviceRevokeOthers

\* Numbers are not used twice.
LEMMA NumbersStay ==
  TypeOK /\ TypeOK' /\ TableStep /\ Numbered(envelopes, nextSeq)
    => Numbered(envelopes', nextSeq')
<1> SUFFICES ASSUME TypeOK, TypeOK', TableStep, Numbered(envelopes, nextSeq)
             PROVE  Numbered(envelopes', nextSeq')
  OBVIOUS
<1>1. \A e \in envelopes' : e.seq \in Nat /\ e.seq < nextSeq'
  BY DEF TypeOK
<1>2. \A e \in envelopes : e.seq \in Nat /\ e.seq < nextSeq
  BY DEF TypeOK
<1>3. ASSUME NEW e \in envelopes', NEW f \in envelopes', e.seq = f.seq PROVE e = f
  <2>1. CASE e \in envelopes /\ f \in envelopes
    BY <1>3, <2>1 DEF Numbered
  <2>2. CASE e \notin envelopes /\ f \notin envelopes
    BY <2>2 DEF TableStep
  <2>3. CASE e \in envelopes /\ f \notin envelopes
    BY <1>2, <1>3, <2>3 DEF TableStep
  <2>4. CASE e \notin envelopes /\ f \in envelopes
    BY <1>2, <1>3, <2>4 DEF TableStep
  <2> QED BY <2>1, <2>2, <2>3, <2>4
<1> QED BY <1>1, <1>3 DEF Numbered

\* A session no entry is written to, whatever becomes of the table.
LEMMA SessionKeeps ==
  ASSUME TypeOK, TypeOK', TableStep, OrderInv, NEW u \in Sock,
         out'[u] = out[u], inflight'[u] = inflight[u], conn'[u] = conn[u]
  PROVE  Orderly(out'[u], inflight'[u], envelopes', conn'[u], nextSeq', now')
<1>1. out[u] \in Seq(Entry) /\ Rows(envelopes) /\ Rows(envelopes')
  BY DEF TypeOK, Entry, Rows
<1>2. nextSeq \in Nat /\ nextSeq' \in Nat /\ now \in Nat /\ now' \in Nat
  BY DEF TypeOK
<1>3. nextSeq <= nextSeq' /\ now <= now' /\ \A e \in envelopes' : e \in envelopes \/ e.seq = nextSeq
  BY <1>2 DEF TableStep
<1>4. Orderly(out[u], inflight[u], envelopes, conn[u], nextSeq, now)
  BY DEF OrderInv
<1>5. Orderly(out[u], inflight[u], envelopes', conn[u], nextSeq', now')
  BY <1>1, <1>2, <1>3, <1>4, OrderlyLater
<1> QED BY <1>5

\* drainQueue for a session that waits for no ACK.
LEMMA DrainKeepsOrder ==
  ASSUME TypeOK, FiniteTable, NEW s \in Sock, NEW d \in Device,
         NEW rows \in SUBSET envelopes, NEW p \in BOOLEAN,
         DrainQueue(s, d, rows, p), Numbered(envelopes, nextSeq),
         Orderly(out[s], {}, rows, d, nextSeq, now)
  PROVE  /\ Orderly(out'[s], inflight'[s], rows, d, nextSeq, now)
         /\ \A u \in Sock : u # s => out'[u] = out[u] /\ inflight'[u] = inflight[u]
<1>0. HandsOut(s, d, rows)
  BY DrainQueueEffect
<1>1. PICK r \in SUBSET FirstBatch(rows, d) :
        /\ \A e \in r, f \in FirstBatch(rows, d) \ r : e.seq < f.seq
        /\ inflight' = [inflight EXCEPT ![s] = Seqs(r)]
        /\ \E new : /\ Grown(out[s], new, Seqs(r))
                    /\ out' = [out EXCEPT ![s] = new]
        /\ \E q \in BOOLEAN : /\ pressed' = [pressed EXCEPT ![s] = q]
                              /\ r = {} /\ FirstBatch(rows, d) # {} => q
  BY <1>0 DEF HandsOut
<1>2. PICK new : Grown(out[s], new, Seqs(r)) /\ out' = [out EXCEPT ![s] = new]
  BY <1>1
<1>3. out[s] \in Seq(Entry) /\ nextSeq \in Nat
  BY DEF TypeOK, Entry
<1>4. IsFiniteSet(rows) /\ Rows(rows) /\ Numbered(rows, nextSeq)
  <2>1. IsFiniteSet(rows)
    BY FS_Subset DEF FiniteTable
  <2> QED BY <2>1 DEF Rows, Numbered, TypeOK
<1>5. Orderly(new, Seqs(r), rows, d, nextSeq, now)
  BY <1>1, <1>2, <1>3, <1>4, OrderlyDrain
<1>6. out'[s] = new /\ inflight'[s] = Seqs(r)
  BY <1>1, <1>2 DEF TypeOK
<1>7. \A u \in Sock : u # s => out'[u] = out[u] /\ inflight'[u] = inflight[u]
  BY <1>1, <1>2 DEF TypeOK
<1> QED BY <1>5, <1>6, <1>7

\* Every step leaves every session orderly.
LEMMA StepOrder ==
  TypeOK /\ TypeOK' /\ FiniteTable /\ OrderInv /\ [Next]_vars => OrderInv'
<1> SUFFICES ASSUME TypeOK, TypeOK', FiniteTable, OrderInv, [Next]_vars
             PROVE  OrderInv'
  OBVIOUS
<1>a. TableStep
  BY NextTable
<1>b. Numbered(envelopes, nextSeq)
      /\ \A s \in Sock : Orderly(out[s], inflight[s], envelopes, conn[s], nextSeq, now)
  BY DEF OrderInv
<1>c. Numbered(envelopes', nextSeq')
  BY <1>a, <1>b, NumbersStay
<1> SUFFICES ASSUME NEW u \in Sock
             PROVE  Orderly(out'[u], inflight'[u], envelopes', conn'[u], nextSeq', now')
  BY <1>c DEF OrderInv
<1> DEFINE Kept1 == Orderly(out'[u], inflight'[u], envelopes', conn'[u], nextSeq', now')
<1> USE DEF durable, session
<1>0. ASSUME out'[u] = out[u], inflight'[u] = inflight[u], conn'[u] = conn[u] PROVE Kept1
  BY <1>0, <1>a, SessionKeeps
<1> HIDE DEF Kept1
<1>1. ASSUME NEW S, Drop(S) PROVE Kept1
  <2>1. CASE u \in S
    <3>1. out'[u] = <<>> /\ inflight'[u] = {} /\ conn'[u] = None
      BY <1>1, <2>1 DEF Drop
    <3> QED BY <3>1, OrderlyNew DEF Kept1
  <2>2. CASE u \notin S
    BY <1>0, <1>1, <2>2 DEF Drop
  <2> QED BY <2>1, <2>2
<1>2. ASSUME NEW l \in Letter, NEW ttl, EnqueueAndRespond(l, ttl) PROVE Kept1
  <2>1. CASE session' = session
    BY <1>0, <2>1
  <2>2. CASE EnqueueOnce(l, ttl) /\ Deliver(To[l])
    <3>1. conn' = conn /\ inflight' = inflight /\ now' = now /\ nextSeq' = nextSeq + 1
      BY <1>2, <2>2 DEF EnqueueAndRespond, EnqueueOnce, Deliver, TypeOK
    <3>2. \/ out'[u] = out[u]
          \/ out'[u] = Append(out[u], Live(nextSeq)) /\ conn[u] = To[l]
      BY <2>2 DEF Deliver, Sockets
    <3>3. CASE out'[u] = out[u]
      BY <1>0, <3>1, <3>3
    <3>4. CASE out'[u] = Append(out[u], Live(nextSeq)) /\ conn[u] = To[l]
      <4>1. conn[u] \in Device
        BY <3>4, RelayAssumption
      <4>2. out[u] \in Seq(Entry) /\ nextSeq \in Nat /\ now \in Nat
        BY DEF TypeOK, Entry
      <4>3. Rows(envelopes) /\ Rows(envelopes')
        BY DEF Rows, TypeOK
      <4>4. \A e \in envelopes' : e \in envelopes \/ e.seq = nextSeq
        BY <1>a DEF TableStep
      <4>5. Orderly(Append(out[u], Live(nextSeq)), inflight[u], envelopes', conn[u], nextSeq + 1, now)
        BY <1>b, <4>1, <4>2, <4>3, <4>4, OrderlyLive
      <4> QED BY <3>1, <3>4, <4>5 DEF Kept1
    <3> QED BY <3>2, <3>3, <3>4
  <2> QED BY <1>2, <2>1, <2>2 DEF EnqueueAndRespond
<1>3. ASSUME NEW s \in Sock, NEW d \in Device, OnAuth(s, d) PROVE Kept1
  <2>1. PICK p \in BOOLEAN : DrainQueue(s, d, envelopes, p)
    BY <1>3 DEF OnAuth
  <2>2. /\ envelopes' = envelopes /\ now' = now /\ nextSeq' = nextSeq
        /\ conn[s] = None /\ conn'[s] = d
        /\ u # s => conn'[u] = conn[u]
    BY <1>3 DEF OnAuth, TypeOK
  <2>3. out[s] = <<>>
    BY <1>b, <2>2 DEF Orderly
  <2>4. Orderly(out[s], {}, envelopes, d, nextSeq, now)
    BY <2>3, OrderlyNew
  <2>5. /\ Orderly(out'[s], inflight'[s], envelopes, d, nextSeq, now)
        /\ u # s => out'[u] = out[u] /\ inflight'[u] = inflight[u]
    BY <1>b, <2>1, <2>4, DrainKeepsOrder
  <2>6. CASE u = s
    BY <2>2, <2>5, <2>6 DEF Kept1
  <2>7. CASE u # s
    BY <1>0, <2>2, <2>5, <2>7
  <2> QED BY <2>6, <2>7
<1>4. ASSUME NEW s \in Sock, NEW id, OnAck(s, id) PROVE Kept1
  <2> DEFINE rest == {e \in envelopes : e.seq # id \/ Recipient(e) # conn[s]}
             left == inflight[s] \ {id}
  <2>1. /\ envelopes' = rest /\ rest \in SUBSET envelopes
        /\ now' = now /\ nextSeq' = nextSeq /\ conn' = conn
        /\ conn[s] \in Device /\ pressed[s] \in BOOLEAN
    BY <1>4 DEF OnAck, TypeOK
  <2>2. out[s] \in Seq(Entry) /\ nextSeq \in Nat /\ now \in Nat
    BY DEF TypeOK, Entry
  <2>3. Orderly(out[s], left, rest, conn[s], nextSeq, now)
    <3>1. Orderly(out[s], inflight[s], envelopes, conn[s], nextSeq, now)
      BY <1>b
    <3>2. \A e \in rest : e \in envelopes /\ (e.seq # id \/ Recipient(e) # conn[s])
      OBVIOUS
    <3> HIDE DEF rest
    <3> QED BY <2>2, <3>1, <3>2, OrderlyAck
  <2>4. \/ left = {} /\ DrainQueue(s, conn[s], rest, pressed[s])
        \/ inflight' = [inflight EXCEPT ![s] = left] /\ out' = out
    BY <1>4 DEF OnAck
  <2> HIDE DEF rest, left
  <2>5. CASE left = {} /\ DrainQueue(s, conn[s], rest, pressed[s])
    <3>1. Orderly(out[s], {}, rest, conn[s], nextSeq, now)
      BY <2>3, <2>5
    <3>2. /\ Orderly(out'[s], inflight'[s], rest, conn[s], nextSeq, now)
          /\ u # s => out'[u] = out[u] /\ inflight'[u] = inflight[u]
      BY <1>b, <2>1, <2>5, <3>1, DrainKeepsOrder
    <3>3. CASE u = s
      BY <2>1, <3>2, <3>3 DEF Kept1
    <3>4. CASE u # s
      BY <1>0, <2>1, <3>2, <3>4
    <3> QED BY <3>3, <3>4
  <2>6. CASE inflight' = [inflight EXCEPT ![s] = left] /\ out' = out
    <3>1. inflight'[s] = left /\ (u # s => inflight'[u] = inflight[u])
      BY <2>6 DEF TypeOK
    <3>2. CASE u = s
      BY <2>1, <2>3, <2>6, <3>1, <3>2 DEF Kept1
    <3>3. CASE u # s
      BY <1>0, <2>1, <2>6, <3>1, <3>3
    <3> QED BY <3>2, <3>3
  <2> QED BY <2>4, <2>5, <2>6
<1>5. ASSUME NEW s \in Sock, NEW p \in BOOLEAN, HandleDrain(s, p) PROVE Kept1
  <2>1. /\ envelopes' = envelopes /\ now' = now /\ nextSeq' = nextSeq /\ conn' = conn
        /\ conn[s] \in Device
    BY <1>5 DEF HandleDrain, TypeOK
  <2>2. CASE inflight[s] = {} /\ DrainQueue(s, conn[s], envelopes, p)
    <3>1. Orderly(out[s], {}, envelopes, conn[s], nextSeq, now)
      BY <1>b, <2>2
    <3>2. /\ Orderly(out'[s], inflight'[s], envelopes, conn[s], nextSeq, now)
          /\ u # s => out'[u] = out[u] /\ inflight'[u] = inflight[u]
      BY <1>b, <2>1, <2>2, <3>1, DrainKeepsOrder
    <3>3. CASE u = s
      BY <2>1, <3>2, <3>3 DEF Kept1
    <3>4. CASE u # s
      BY <1>0, <2>1, <3>2, <3>4
    <3> QED BY <3>3, <3>4
  <2>3. CASE inflight' = inflight /\ out' = out
    BY <1>0, <2>1, <2>3
  <2> QED BY <1>5, <2>2, <2>3 DEF HandleDrain
<1>6. ASSUME NEW s \in Sock, HandleClose(s) PROVE Kept1
  BY <1>1, <1>6 DEF HandleClose
<1>7. ASSUME NEW D, Revoke(D) PROVE Kept1
  BY <1>1, <1>7 DEF Revoke
<1>8. ASSUME Tick PROVE Kept1
  BY <1>0, <1>8 DEF Tick
<1>9. ASSUME Sweep PROVE Kept1
  BY <1>0, <1>9 DEF Sweep
<1>10. ASSUME Restart PROVE Kept1
  BY <1>1, <1>10 DEF Restart
<1>11. ASSUME UNCHANGED vars PROVE Kept1
  BY <1>0, <1>11 DEF vars
<1>12. Kept1
  BY <1>2, <1>3, <1>4, <1>5, <1>6, <1>7, <1>8, <1>9, <1>10, <1>11
  DEF Next, Sending, OnSend, OnSendAnon, OnDeviceRevoke, OnDeviceRevokeOthers
<1> QED BY <1>12 DEF Kept1

\* Types, a finite table and its order, at first and in every reachable state.
LEMMA QueueInit == Init => TypeOK /\ FiniteTable /\ OrderInv
<1> SUFFICES ASSUME Init PROVE TypeOK /\ FiniteTable /\ OrderInv
  OBVIOUS
<1>1. FiniteTable
  BY FS_EmptySet DEF Init, FiniteTable
<1>2. Numbered(envelopes, nextSeq)
  BY DEF Init, Numbered
<1>3. ASSUME NEW s \in Sock
      PROVE  Orderly(out[s], inflight[s], envelopes, conn[s], nextSeq, now)
  <2>1. out[s] = <<>> /\ inflight[s] = {}
    BY DEF Init
  <2> QED BY <2>1, OrderlyNew
<1>4. TypeOK
  BY DEF Init, TypeOK, NoRetry
<1> QED BY <1>1, <1>2, <1>3, <1>4 DEF OrderInv

LEMMA OrderHolds == Spec => [](TypeOK /\ FiniteTable /\ OrderInv)
<1>1. FiniteTable /\ [Next]_vars => FiniteTable'
  BY StepFinite
<1>2. TypeOK /\ TypeOK' /\ FiniteTable /\ OrderInv /\ [Next]_vars => OrderInv'
  BY StepOrder
<1> QED BY <1>1, <1>2, QueueInit, TypeCorrect, PTL DEF Spec

\* Whatever the order of the ACKs, the queue hands a row out once per session, and
\* the session waits for exactly what it was handed and has not acknowledged.
THEOREM DrainedOnceHolds == Spec => []DrainedOnce
<1>1. OrderInv => DrainedOnce
  <2> SUFFICES ASSUME OrderInv, NEW s \in Sock
               PROVE  /\ \A i, j \in DOMAIN out[s] :
                           i # j /\ out[s][i].via = "drain" /\ out[s][j].via = "drain"
                             => out[s][i].ids \cap out[s][j].ids = {}
                      /\ Cardinality(inflight[s]) <= DrainBatch
                      /\ inflight[s] \subseteq Drained(s)
                      /\ \A e \in envelopes : e.seq \in Drained(s) => e.seq \in inflight[s]
    BY DEF DrainedOnce
  <2>1. Orderly(out[s], inflight[s], envelopes, conn[s], nextSeq, now)
    BY DEF OrderInv
  <2>2. Handed(out[s]) = Drained(s)
    BY DEF Handed, Drained
  <2>3. \A i, j \in DOMAIN out[s] :
          i # j /\ out[s][i].via = "drain" /\ out[s][j].via = "drain"
            => out[s][i].ids \cap out[s][j].ids = {}
    BY <2>1 DEF Orderly
  <2>4. Cardinality(inflight[s]) <= DrainBatch
    BY <2>1 DEF Orderly
  <2>5. inflight[s] \subseteq Handed(out[s])
    BY <2>1 DEF Orderly
  <2>6. \A e \in envelopes : e.seq \in Handed(out[s]) => e.seq \in inflight[s]
    BY <2>1 DEF Orderly
  <2> QED BY <2>2, <2>3, <2>4, <2>5, <2>6
<1> QED BY <1>1, OrderHolds, PTL

\* A frame that reaches a session a second time comes behind all older mail.
THEOREM SecondSightHolds == Spec => []SecondSightInOrder
<1>1. TypeOK /\ OrderInv => SecondSightInOrder
  <2> SUFFICES ASSUME TypeOK, OrderInv, NEW s \in Sock,
                      NEW i \in DOMAIN out[s], NEW j \in DOMAIN out[s], i < j,
                      NEW id \in out[s][i].ids \cap out[s][j].ids,
                      NEW e \in Pending(envelopes, conn[s]), e.seq < id
               PROVE  \E k \in 1 .. j : e.seq \in out[s][k].ids
    BY DEF SecondSightInOrder
  <2>1. Orderly(out[s], inflight[s], envelopes, conn[s], nextSeq, now)
    BY DEF OrderInv
  <2>2. out[s] \in Seq(Entry)
    BY DEF TypeOK, Entry
  <2>3. out[s][j].via \in {"live", "drain", "done"} /\ j \in 1 .. j
    <3>1. out[s][j] \in Entry /\ j \in 1 .. Len(out[s])
      BY <2>2
    <3> QED BY <3>1 DEF Entry
  <2>4. out[s][j].via # "live"
    BY <2>1 DEF Orderly
  <2>5. out[s][j].via # "done"
    BY <2>1 DEF Orderly
  <2>6. e \in envelopes /\ Recipient(e) = conn[s] /\ e.exp > now
    BY DEF Pending
  <2>7. e.seq \in out[s][j].ids
    BY <2>1, <2>3, <2>4, <2>5, <2>6 DEF Orderly
  <2> QED BY <2>3, <2>7
<1> QED BY <1>1, OrderHolds, PTL

\* Together: whatever the order of the ACKs, a queue is handed out once, oldest first.
THEOREM DrainInOrderHolds == Spec => []DrainInOrder
BY DrainedOnceHolds, SecondSightHolds, PTL DEF DrainInOrder

-----------------------------------------------------------------------------
(* The queue never stalls                                                  *)

\* NoStalledQueue of one session.
Awake(s) == Missing(s) # {} => inflight[s] # {} \/ pressed[s]

\* A session stays awake while no row is added that it is not written.
LEMMA StaysAwake ==
  ASSUME TypeOK, TypeOK', NEW u \in Sock, Awake(u),
         conn'[u] = conn[u], now <= now',
         inflight'[u] = inflight[u], pressed[u] => pressed'[u],
         Written(u) \subseteq Written(u)',
         \A e \in envelopes' :
           Recipient(e) = conn[u] /\ e.seq \notin Written(u)' => e \in envelopes
  PROVE  Awake(u)'
<1>1. ASSUME NEW e \in Missing(u)' PROVE e \in Missing(u)
  <2>1. /\ e \in envelopes' /\ Recipient(e) = conn[u] /\ e.exp > now'
        /\ e.seq \notin Written(u)'
    BY DEF Missing, Pending, Recipient
  <2>2. e \in envelopes /\ e.exp \in Nat /\ now \in Nat /\ now' \in Nat
    BY <2>1 DEF TypeOK
  <2> QED BY <2>1, <2>2 DEF Missing, Pending
<1> QED BY <1>1 DEF Awake

\* drainQueue leaves the session awake: it hands out rows, or it leaves unsent
\* bytes behind, or nothing is pending.
LEMMA DrainWakes ==
  ASSUME TypeOK, FiniteTable, NEW s \in Sock, NEW d \in Device,
         NEW rows \in SUBSET envelopes, NEW p \in BOOLEAN,
         DrainQueue(s, d, rows, p),
         envelopes' = rows, conn'[s] = d, now' = now
  PROVE  /\ Awake(s)'
         /\ \A u \in Sock : u # s => /\ out'[u] = out[u] /\ inflight'[u] = inflight[u]
                                     /\ pressed'[u] = pressed[u]
<1>0. HandsOut(s, d, rows)
  BY DrainQueueEffect
<1>1. PICK r \in SUBSET FirstBatch(rows, d) :
        /\ inflight' = [inflight EXCEPT ![s] = Seqs(r)]
        /\ \E new : /\ Grown(out[s], new, Seqs(r))
                    /\ out' = [out EXCEPT ![s] = new]
        /\ \E q \in BOOLEAN : /\ pressed' = [pressed EXCEPT ![s] = q]
                              /\ r = {} /\ FirstBatch(rows, d) # {} => q
  BY <1>0 DEF HandsOut
<1>2. PICK new : out' = [out EXCEPT ![s] = new]
  BY <1>1
<1>3. PICK q \in BOOLEAN : /\ pressed' = [pressed EXCEPT ![s] = q]
                           /\ r = {} /\ FirstBatch(rows, d) # {} => q
  BY <1>1
<1>4. inflight'[s] = Seqs(r) /\ pressed'[s] = q
  BY <1>1, <1>3 DEF TypeOK
<1>5. CASE r # {}
  <2>1. Seqs(r) # {}
    BY <1>5 DEF Seqs
  <2> QED BY <1>1, <1>2, <1>3, <1>4, <2>1 DEF Awake, TypeOK
<1>6. CASE r = {} /\ FirstBatch(rows, d) # {}
  <2>1. pressed'[s]
    BY <1>3, <1>4, <1>6
  <2> QED BY <1>1, <1>2, <1>3, <2>1 DEF Awake, TypeOK
<1>7. CASE FirstBatch(rows, d) = {}
  <2>1. IsFiniteSet(rows) /\ \A e \in rows : e.seq \in Nat
    BY FS_Subset DEF FiniteTable, TypeOK
  <2>2. Pending(rows, d) = {}
    BY <1>7, <2>1, EmptyBatchIsAll
  <2>3. Pending(envelopes, conn[s])' = Pending(rows, d)
    BY DEF Pending, Recipient
  <2>4. Missing(s)' = {}
    BY <2>2, <2>3 DEF Missing
  <2> QED BY <1>1, <1>2, <1>3, <2>4 DEF Awake, TypeOK
<1> QED BY <1>5, <1>6, <1>7

\* Every step leaves every session awake.
LEMMA StepAwake ==
  TypeOK /\ TypeOK' /\ FiniteTable /\ NoStalledQueue /\ [Next]_vars => NoStalledQueue'
<1> SUFFICES ASSUME TypeOK, TypeOK', FiniteTable, NoStalledQueue, [Next]_vars,
                    NEW u \in Sock
             PROVE  Awake(u)'
  BY DEF NoStalledQueue, Awake
<1> DEFINE Wakes == Awake(u)'
<1>a. Awake(u)
  BY DEF NoStalledQueue, Awake
<1>b. now \in Nat
  BY DEF TypeOK
<1> USE DEF durable, session
<1>0. ASSUME out'[u] = out[u], inflight'[u] = inflight[u], pressed'[u] = pressed[u],
             conn'[u] = conn[u], now <= now',
             \A e \in envelopes' : Recipient(e) = conn[u] => e \in envelopes
      PROVE  Wakes
  <2>1. Written(u)' = Written(u)
    BY <1>0 DEF Written
  <2>2. pressed[u] => pressed'[u]
    BY <1>0
  <2> QED BY <1>0, <1>a, <2>1, <2>2, StaysAwake
<1> HIDE DEF Wakes
<1>1. ASSUME NEW S, Drop(S), now' = now, envelopes' \subseteq envelopes PROVE Wakes
  <2>1. CASE u \in S
    <3>1. conn'[u] = None
      BY <1>1, <2>1 DEF Drop
    <3>2. \A e \in envelopes' : Recipient(e) \in Device
      BY RelayAssumption DEF TypeOK, Recipient
    <3>3. Missing(u)' = {}
      BY <3>1, <3>2, RelayAssumption DEF Missing, Pending, Recipient
    <3> QED BY <3>3 DEF Wakes, Awake
  <2>2. CASE u \notin S
    <3>1. /\ out'[u] = out[u] /\ inflight'[u] = inflight[u] /\ conn'[u] = conn[u]
          /\ pressed'[u] = pressed[u]
      BY <1>1, <2>2 DEF Drop, TypeOK
    <3> QED BY <1>0, <1>1, <1>b, <3>1
  <2> QED BY <2>1, <2>2
<1>2. ASSUME NEW l \in Letter, NEW ttl, EnqueueAndRespond(l, ttl) PROVE Wakes
  <2>1. CASE durable' = durable /\ session' = session
    BY <1>0, <1>2, <1>b, <2>1 DEF EnqueueAndRespond
  <2>2. CASE EnqueueOnce(l, ttl) /\ Deliver(To[l])
    <3>1. conn' = conn /\ inflight' = inflight /\ now' = now
      BY <1>2, <2>2 DEF EnqueueAndRespond, EnqueueOnce, Deliver, TypeOK
    <3>2. \A e \in envelopes' :
            e \in envelopes \/ (e.seq = nextSeq /\ Recipient(e) = To[l])
      BY <2>2 DEF EnqueueOnce, Recipient
    <3>3. PICK lost \in SUBSET {s \in Sockets(To[l]) : pressed[s]}, slow \in SUBSET Sockets(To[l]) :
            /\ out' = [s \in Sock |-> IF s \in Sockets(To[l]) \ lost
                                      THEN Append(out[s], Live(nextSeq)) ELSE out[s]]
            /\ pressed' = [s \in Sock |-> pressed[s] \/ s \in slow]
      BY <2>2 DEF Deliver
    <3>4. CASE u \notin Sockets(To[l])
      <4>1. out'[u] = out[u] /\ pressed'[u] = pressed[u] /\ conn[u] # To[l]
        BY <3>3, <3>4 DEF Sockets, TypeOK
      <4> QED BY <1>0, <1>b, <3>1, <3>2, <4>1
    <3>5. CASE u \in lost
      <4>1. pressed'[u]
        BY <3>3, <3>5
      <4> QED BY <4>1 DEF Wakes, Awake
    <3>6. CASE u \in Sockets(To[l]) \ lost
      <4>1. out'[u] = Append(out[u], Live(nextSeq)) /\ (pressed[u] => pressed'[u])
        BY <3>3, <3>6
      <4>2. out[u] \in Seq(Entry) /\ Live(nextSeq) \in Entry /\ Live(nextSeq).ids = {nextSeq}
        BY DEF TypeOK, Entry, Live
      <4> DEFINE k == Len(out[u]) + 1
      <4>3. /\ k \in DOMAIN out'[u] /\ out'[u][k] = Live(nextSeq)
            /\ \A i \in DOMAIN out[u] : i \in DOMAIN out'[u] /\ out'[u][i] = out[u][i]
        BY <4>1, <4>2
      <4> HIDE DEF k
      <4>4. nextSeq \in Written(u)' /\ Written(u) \subseteq Written(u)'
        BY <4>2, <4>3 DEF Written
      <4>5. \A e \in envelopes' :
              Recipient(e) = conn[u] /\ e.seq \notin Written(u)' => e \in envelopes
        BY <3>2, <4>4
      <4> QED BY <1>a, <1>b, <3>1, <4>1, <4>4, <4>5, StaysAwake DEF Wakes
    <3> QED BY <3>4, <3>5, <3>6
  <2> QED BY <1>2, <2>1, <2>2 DEF EnqueueAndRespond
<1>3. ASSUME NEW s \in Sock, NEW d \in Device, OnAuth(s, d) PROVE Wakes
  <2>1. PICK p \in BOOLEAN : DrainQueue(s, d, envelopes, p)
    BY <1>3 DEF OnAuth
  <2>2. /\ envelopes' = envelopes /\ now' = now /\ conn'[s] = d
        /\ u # s => conn'[u] = conn[u]
    BY <1>3 DEF OnAuth, TypeOK
  <2>3. /\ Awake(s)'
        /\ u # s => /\ out'[u] = out[u] /\ inflight'[u] = inflight[u]
                    /\ pressed'[u] = pressed[u]
    BY <2>1, <2>2, DrainWakes
  <2>4. CASE u = s
    BY <2>3, <2>4 DEF Wakes
  <2>5. CASE u # s
    BY <1>0, <1>b, <2>2, <2>3, <2>5
  <2> QED BY <2>4, <2>5
<1>4. ASSUME NEW s \in Sock, NEW id, OnAck(s, id) PROVE Wakes
  <2> DEFINE rest == {e \in envelopes : e.seq # id \/ Recipient(e) # conn[s]}
             left == inflight[s] \ {id}
  <2>1. /\ envelopes' = rest /\ rest \in SUBSET envelopes
        /\ now' = now /\ conn' = conn
        /\ conn[s] \in Device /\ pressed[s] \in BOOLEAN
    BY <1>4 DEF OnAck, TypeOK
  <2>2. \/ left = {} /\ DrainQueue(s, conn[s], rest, pressed[s])
        \/ /\ id \notin inflight[s] \/ left # {}
           /\ inflight' = [inflight EXCEPT ![s] = left]
           /\ out' = out /\ pressed' = pressed
    BY <1>4 DEF OnAck
  <2> HIDE DEF rest
  <2>3. \A e \in envelopes' : e \in envelopes
    BY <2>1
  <2>4. CASE left = {} /\ DrainQueue(s, conn[s], rest, pressed[s])
    <3>1. /\ Awake(s)'
          /\ u # s => /\ out'[u] = out[u] /\ inflight'[u] = inflight[u]
                      /\ pressed'[u] = pressed[u]
      BY <2>1, <2>4, DrainWakes
    <3>2. CASE u = s
      BY <3>1, <3>2 DEF Wakes
    <3>3. CASE u # s
      BY <1>0, <1>b, <2>1, <2>3, <3>1, <3>3
    <3> QED BY <3>2, <3>3
  <2>5. CASE /\ id \notin inflight[s] \/ left # {}
             /\ inflight' = [inflight EXCEPT ![s] = left]
             /\ out' = out /\ pressed' = pressed
    <3>1. inflight'[s] = left /\ (u # s => inflight'[u] = inflight[u])
      BY <2>5 DEF TypeOK
    <3>2. CASE u = s /\ left # {}
      BY <3>1, <3>2 DEF Wakes, Awake
    <3>3. CASE u # s \/ id \notin inflight[s]
      <4>1. inflight'[u] = inflight[u]
        BY <3>1, <3>3
      <4> QED BY <1>0, <1>b, <2>1, <2>3, <2>5, <4>1
    <3> QED BY <2>5, <3>2, <3>3
  <2> QED BY <2>2, <2>4, <2>5
<1>5. ASSUME NEW s \in Sock, NEW p \in BOOLEAN, HandleDrain(s, p) PROVE Wakes
  <2>1. /\ envelopes' = envelopes /\ now' = now /\ conn' = conn
        /\ conn[s] \in Device
    BY <1>5 DEF HandleDrain, TypeOK
  <2>2. CASE DrainQueue(s, conn[s], envelopes, p)
    <3>1. /\ Awake(s)'
          /\ u # s => /\ out'[u] = out[u] /\ inflight'[u] = inflight[u]
                      /\ pressed'[u] = pressed[u]
      BY <2>1, <2>2, DrainWakes
    <3>2. CASE u = s
      BY <3>1, <3>2 DEF Wakes
    <3>3. CASE u # s
      BY <1>0, <1>b, <2>1, <3>1, <3>3
    <3> QED BY <3>2, <3>3
  <2>3. CASE /\ inflight[s] # {} /\ pressed' = [pressed EXCEPT ![s] = p]
             /\ inflight' = inflight /\ out' = out
    <3>1. CASE u = s
      BY <2>3, <3>1 DEF Wakes, Awake
    <3>2. CASE u # s
      <4>1. pressed'[u] = pressed[u]
        BY <2>3, <3>2 DEF TypeOK
      <4> QED BY <1>0, <1>b, <2>1, <2>3, <4>1
    <3> QED BY <3>1, <3>2
  <2> QED BY <1>5, <2>2, <2>3 DEF HandleDrain
<1>6. ASSUME NEW s \in Sock, HandleClose(s) PROVE Wakes
  BY <1>1, <1>6 DEF HandleClose
<1>7. ASSUME NEW D, Revoke(D) PROVE Wakes
  BY <1>1, <1>7 DEF Revoke
<1>8. ASSUME Tick PROVE Wakes
  BY <1>0, <1>8, <1>b DEF Tick
<1>9. ASSUME Sweep PROVE Wakes
  BY <1>0, <1>9, <1>b DEF Sweep
<1>10. ASSUME Restart PROVE Wakes
  BY <1>1, <1>10 DEF Restart
<1>11. ASSUME UNCHANGED vars PROVE Wakes
  BY <1>0, <1>11, <1>b DEF vars
<1>12. Wakes
  BY <1>2, <1>3, <1>4, <1>5, <1>6, <1>7, <1>8, <1>9, <1>10, <1>11
  DEF Next, Sending, OnSend, OnSendAnon, OnDeviceRevoke, OnDeviceRevokeOthers
<1> QED BY <1>12 DEF Wakes

\* No lost wake-up, with any number of sessions, rows and batches: mail that was
\* never written to a session has an ACK or a drain callback that resumes its queue.
THEOREM QueueNeverStalls == Spec => []NoStalledQueue
<1>1. Init => NoStalledQueue
  BY DEF Init, NoStalledQueue, Missing, Pending
<1>2. TypeOK /\ TypeOK' /\ FiniteTable /\ NoStalledQueue /\ [Next]_vars => NoStalledQueue'
  BY StepAwake
<1> QED BY <1>1, <1>2, OrderHolds, PTL DEF Spec

-----------------------------------------------------------------------------
(* No mail is lost                                                         *)

\* The number of a letter that was accepted for the reader.
Named(id) == \E l \in Accepted : retries[l].id = id /\ To[l] = Phone

\* The number of a letter the reader needs no more: it has it, or nobody can read it.
Settled(id) == \E l \in Accepted \cap (Garbage \cup disk) : retries[l].id = id

\* Accepted letters have numbers of their own, in the order their senders sent them;
\* rows and frames are of them, and nothing expires.
Books ==
  /\ now = 0
  /\ \A l \in Letter : \/ retries[l] = NoRetry
                       \/ retries[l].exp > 0 /\ retries[l].id \in 1 .. nextSeq - 1
  /\ \A l, m \in Accepted : retries[l].id = retries[m].id => l = m
  /\ \A e \in envelopes : e.exp > 0 /\ retries[e.letter].id = e.seq
  /\ \A l \in Accepted : \A m \in Before[l] : m \in Accepted /\ retries[m].id < retries[l].id
  /\ \A s \in Sock : \A k \in DOMAIN out[s] : \A id \in out[s][k].ids : Named(id)

\* What the reader is at; only what is settled was acknowledged.
Reader ==
  /\ cur \in Sock \cup {None}
  /\ \A s \in Sock : conn[s] \in {None, Phone}
  /\ pos \in Nat \X Nat
  /\ acks \in [Sock -> Seq(Nat)]
  /\ mem = disk
  /\ cur = None => pos = <<0, 0>>
  /\ cur # None => conn[cur] = Phone /\ pos[1] <= Len(out[cur])
  /\ \A id \in failed : Named(id)
  /\ \A s \in Sock : \A i \in DOMAIN acks[s] : Settled(acks[s][i])

\* What was read of the queue is settled, and no live frame that is still to be
\* read was missed before.
Seen ==
  cur # None =>
    \A k \in DOMAIN out[cur] : \A id \in out[cur][k].ids :
      /\ out[cur][k].via = "drain" /\ ~Behind(pos, <<k, id>>) => Settled(id)
      /\ out[cur][k].via = "live" /\ Behind(pos, <<k, id>>) => id \notin failed

MailInv == Books /\ Reader /\ Seen /\ NoMailLost

\* What a step of the relay does to its tables: rows go, or one letter is accepted.
RowsStep ==
  /\ now' = now
  /\ \/ retries' = retries /\ envelopes' \subseteq envelopes /\ nextSeq' = nextSeq
     \/ \E l \in Letter, exp \in Nat \ {0} :
          /\ retries[l] = NoRetry /\ Before[l] \subseteq Accepted
          /\ retries' = [retries EXCEPT ![l] = [id |-> nextSeq, exp |-> exp]]
          /\ envelopes' = envelopes \cup {[seq |-> nextSeq, letter |-> l, exp |-> exp]}
          /\ nextSeq' = nextSeq + 1

\* ... and to the log of a session: it ends, or goes on with named letters.
LogStep(s) ==
  \/ conn'[s] = None /\ out'[s] = <<>>
  \/ /\ conn'[s] = conn[s] \/ (conn[s] = None /\ conn'[s] = Phone)
     /\ Len(out[s]) <= Len(out'[s])
     /\ \A k \in DOMAIN out[s] : k \in DOMAIN out'[s] /\ out'[s][k] = out[s][k]
     /\ \A k \in (DOMAIN out'[s]) \ DOMAIN out[s] : \A id \in out'[s][k].ids :
          /\ Named(id)'
          /\ out'[s][k].via = "live" => id = nextSeq

RelayStep == RowsStep /\ \A s \in Sock : LogStep(s)

-----------------------------------------------------------------------------
\* What a table of accepted letters says of a later one.
LEMMA AcceptedStay ==
  ASSUME TypeOK, Books, RowsStep
  PROVE  /\ \A l \in Accepted : l \in Accepted' /\ retries'[l] = retries[l]
         /\ \A id : Named(id) => Named(id)'
         /\ disk \subseteq disk' => \A id : Settled(id) => Settled(id)'
<1>1. ASSUME NEW l \in Accepted PROVE l \in Accepted' /\ retries'[l] = retries[l]
  <2>1. l \in Letter /\ retries[l].id # 0 /\ retries[l] # NoRetry
    BY <1>1 DEF Accepted, NoRetry
  <2>2. retries \in [Letter -> [id : Nat, exp : Nat]]
    BY DEF TypeOK
  <2>3. retries'[l] = retries[l]
    BY <2>1, <2>2 DEF RowsStep
  <2> QED BY <2>1, <2>3 DEF Accepted
<1>2. \A id : Named(id) => Named(id)'
  BY <1>1 DEF Named
<1>3. disk \subseteq disk' => \A id : Settled(id) => Settled(id)'
  BY <1>1 DEF Settled
<1> QED BY <1>1, <1>2, <1>3

\* The books stay true.
LEMMA BooksStay ==
  ASSUME TypeOK, TypeOK', Books, RelayStep
  PROVE  Books'
<1>1. /\ now = 0 /\ now' = 0
      /\ retries \in [Letter -> [id : Nat, exp : Nat]]
      /\ nextSeq \in Nat \ {0}
      /\ envelopes \subseteq [seq : Nat \ {0}, letter : Letter, exp : Nat]
  <2>1. now = 0 /\ now' = 0
    BY DEF Books, RelayStep, RowsStep
  <2> QED BY <2>1 DEF TypeOK
<1>2. RowsStep
  BY DEF RelayStep
<1>3. \A l \in Letter : \/ retries[l] = NoRetry
                        \/ retries[l].exp > 0 /\ retries[l].id \in 1 .. nextSeq - 1
  BY DEF Books
<1>4. \A l, m \in Accepted : retries[l].id = retries[m].id => l = m
  BY DEF Books
<1>5. \A e \in envelopes : e.exp > 0 /\ retries[e.letter].id = e.seq
  BY DEF Books
<1>6. \A l \in Accepted : \A m \in Before[l] : m \in Accepted /\ retries[m].id < retries[l].id
  BY DEF Books
<1>7. \A l \in Letter : l \notin Accepted <=> retries[l] = NoRetry
  BY <1>3 DEF Accepted, NoRetry
<1>8. \A s \in Sock : \A k \in DOMAIN out'[s] : \A id \in out'[s][k].ids : Named(id)'
  <2> SUFFICES ASSUME NEW s \in Sock, NEW k \in DOMAIN out'[s], NEW id \in out'[s][k].ids
               PROVE  Named(id)'
    OBVIOUS
  <2>1. LogStep(s)
    BY DEF RelayStep
  <2>2. CASE conn'[s] = None /\ out'[s] = <<>>
    BY <2>2
  <2>3. CASE k \in DOMAIN out[s] /\ out'[s] # <<>>
    <3>1. out'[s][k] = out[s][k]
      BY <2>1, <2>3 DEF LogStep
    <3>2. Named(id)
      BY <2>3, <3>1 DEF Books
    <3> QED BY <1>2, <3>2, AcceptedStay
  <2>4. CASE k \notin DOMAIN out[s] /\ out'[s] # <<>>
    BY <2>1, <2>4 DEF LogStep
  <2> QED BY <2>2, <2>3, <2>4
<1>9. CASE retries' = retries /\ envelopes' \subseteq envelopes /\ nextSeq' = nextSeq
  <2>1. Accepted' = Accepted
    BY <1>9 DEF Accepted
  <2> QED BY <1>1, <1>3, <1>4, <1>5, <1>6, <1>8, <1>9, <2>1 DEF Books
<1>10. ASSUME NEW l \in Letter, NEW exp \in Nat \ {0},
              retries[l] = NoRetry, Before[l] \subseteq Accepted,
              retries' = [retries EXCEPT ![l] = [id |-> nextSeq, exp |-> exp]],
              envelopes' = envelopes \cup {[seq |-> nextSeq, letter |-> l, exp |-> exp]},
              nextSeq' = nextSeq + 1
       PROVE  Books'
  <2>1. retries'[l] = [id |-> nextSeq, exp |-> exp] /\ l \notin Accepted
    BY <1>1, <1>7, <1>10
  <2>2. \A m \in Letter : m # l => retries'[m] = retries[m]
    BY <1>1, <1>10
  <2>3. Accepted' = Accepted \cup {l}
    BY <1>1, <2>1, <2>2 DEF Accepted
  <2>4. \A m \in Accepted : m \in Letter /\ m # l /\ retries[m].id < nextSeq /\ retries[m].id \in Nat
    BY <1>1, <1>3, <1>7, <2>1 DEF Accepted
  <2>5. \A m \in Letter : \/ retries'[m] = NoRetry
                          \/ retries'[m].exp > 0 /\ retries'[m].id \in 1 .. nextSeq' - 1
    <3> SUFFICES ASSUME NEW m \in Letter
                 PROVE  \/ retries'[m] = NoRetry
                        \/ retries'[m].exp > 0 /\ retries'[m].id \in 1 .. nextSeq' - 1
      OBVIOUS
    <3>1. CASE m = l
      BY <1>1, <1>10, <2>1, <3>1
    <3>2. CASE m # l
      BY <1>1, <1>3, <1>10, <2>2, <3>2
    <3> QED BY <3>1, <3>2
  <2>6. \A m1, m2 \in Accepted' : retries'[m1].id = retries'[m2].id => m1 = m2
    BY <1>1, <1>4, <2>1, <2>2, <2>3, <2>4
  <2>7. \A e \in envelopes' : e.exp > 0 /\ retries'[e.letter].id = e.seq
    <3> SUFFICES ASSUME NEW e \in envelopes'
                 PROVE  e.exp > 0 /\ retries'[e.letter].id = e.seq
      OBVIOUS
    <3>1. CASE e \in envelopes
      <4>1. e.letter \in Letter /\ e.seq \in Nat \ {0} /\ retries[e.letter].id = e.seq
        BY <1>1, <1>5, <3>1
      <4>2. e.letter # l
        BY <1>10, <4>1 DEF NoRetry
      <4> QED BY <1>5, <2>2, <3>1, <4>1, <4>2
    <3>2. CASE e = [seq |-> nextSeq, letter |-> l, exp |-> exp]
      BY <2>1, <3>2
    <3> QED BY <1>10, <3>1, <3>2
  <2>8. \A m1 \in Accepted' : \A m \in Before[m1] :
          m \in Accepted' /\ retries'[m].id < retries'[m1].id
    BY <1>1, <1>6, <1>10, <2>1, <2>2, <2>3, <2>4
  <2> QED BY <1>1, <1>8, <2>5, <2>6, <2>7, <2>8 DEF Books
<1> QED BY <1>2, <1>9, <1>10 DEF RowsStep

\* The first frame to be read is one, and all others are behind it.
LEMMA NextIs ==
  ASSUME TypeOK, Reader, Reading
  PROVE  /\ NextFrame \in Unread
         /\ \A g \in Unread : g = NextFrame \/ Behind(NextFrame, g)
<1>1. cur \in Sock /\ out[cur] \in Seq(Entry)
  BY DEF Reader, Reading, TypeOK, Entry
<1>2. ASSUME NEW f \in Unread
      PROVE  f = <<f[1], f[2]>> /\ f[1] \in Nat /\ f[2] \in Nat
  <2>1. f \in (DOMAIN out[cur]) \X Written(cur) /\ f[2] \in out[cur][f[1]].ids
    BY DEF Unread
  <2>2. f[1] \in DOMAIN out[cur] /\ f = <<f[1], f[2]>>
    BY <2>1
  <2> QED BY <1>1, <2>1, <2>2, LogIds
<1> DEFINE K == {f[1] : f \in Unread}
<1>3. PICK k \in K : \A j \in K : k <= j
  <2>1. K \in SUBSET Nat /\ K # {}
    BY <1>2 DEF Reading
  <2> HIDE DEF K
  <2> QED BY <2>1, LeastMember
<1> DEFINE I == {f[2] : f \in {g \in Unread : g[1] = k}}
<1>4. PICK i \in I : \A j \in I : i <= j
  <2>1. I \in SUBSET Nat /\ I # {}
    BY <1>2, <1>3
  <2> HIDE DEF I
  <2> QED BY <2>1, LeastMember
<1>5. PICK f \in Unread : f[1] = k /\ f[2] = i
  BY <1>4
<1>6. \A g \in Unread \ {f} : Behind(f, g)
  <2> SUFFICES ASSUME NEW g \in Unread, g # f PROVE Behind(f, g)
    OBVIOUS
  <2>1. k <= g[1] /\ (g[1] = k => i <= g[2])
    BY <1>3, <1>4
  <2>2. g[1] # f[1] \/ g[2] # f[2]
    BY <1>2
  <2> QED BY <1>2, <1>5, <2>1, <2>2 DEF Behind
<1>7. NextFrame \in Unread /\ \A g \in Unread \ {NextFrame} : Behind(NextFrame, g)
  BY <1>6 DEF NextFrame
<1> QED BY <1>7

\* What is read next: the letter of an accepted number, for this device.
LEMMA NextLetter ==
  ASSUME TypeOK, OrderInv, Books, Reader, Reading
  PROVE  /\ LetterOf(NextId) \in Accepted
         /\ retries[LetterOf(NextId)].id = NextId
         /\ To[LetterOf(NextId)] = Phone
         /\ cur \in Sock /\ NextFrame[1] \in DOMAIN out[cur]
         /\ NextId \in out[cur][NextFrame[1]].ids
         /\ NextFrame = <<NextFrame[1], NextId>>
         /\ NextId \in Nat /\ NextFrame \in Nat \X Nat
         /\ Behind(pos, NextFrame)
         /\ out[cur][NextFrame[1]].via \in {"live", "drain"}
         /\ Named(NextId)
<1>1. NextFrame \in Unread
  BY NextIs
<1>2. cur \in Sock /\ out[cur] \in Seq(Entry) /\ conn[cur] = Phone
  BY DEF Reader, Reading, TypeOK, Entry
<1>3. /\ NextFrame \in (DOMAIN out[cur]) \X Written(cur)
      /\ NextId \in out[cur][NextFrame[1]].ids /\ Behind(pos, NextFrame)
  BY <1>1 DEF Unread, NextId
<1>4. NextFrame[1] \in DOMAIN out[cur] /\ NextFrame = <<NextFrame[1], NextId>>
  BY <1>3 DEF NextId
<1>5. NextId \in Nat /\ NextFrame[1] \in Nat
  BY <1>2, <1>3, <1>4, LogIds
<1>6. Named(NextId)
  BY <1>2, <1>3, <1>4 DEF Books
<1>7. PICK l \in Accepted : retries[l].id = NextId /\ To[l] = Phone
  BY <1>6 DEF Named
<1>8. LetterOf(NextId) \in Accepted /\ retries[LetterOf(NextId)].id = NextId
  BY <1>7 DEF LetterOf
<1>9. LetterOf(NextId) = l
  BY <1>7, <1>8 DEF Books
<1>10. out[cur][NextFrame[1]].via \in {"live", "drain"}
  <2>1. out[cur][NextFrame[1]] \in Entry
    BY <1>2, <1>4
  <2>2. Orderly(out[cur], inflight[cur], envelopes, conn[cur], nextSeq, now)
    BY <1>2 DEF OrderInv
  <2>3. out[cur][NextFrame[1]].via # "done"
    BY <1>3, <1>4, <2>2 DEF Orderly
  <2> QED BY <2>1, <2>3 DEF Entry
<1> QED BY <1>2, <1>3, <1>4, <1>5, <1>6, <1>7, <1>8, <1>9, <1>10

\* What the queue hands out in its order can be read: what it needs was in the
\* queue before it, and so in the same batch, or had been read.
LEMMA DrainReadable ==
  ASSUME TypeOK, OrderInv, MailInv, InOrderAndStored, Reading,
         out[cur][NextFrame[1]].via = "drain"
  PROVE  Needs[LetterOf(NextId)] \subseteq disk
<1> DEFINE l == LetterOf(NextId)
           k == NextFrame[1]
<1>1. Books /\ Reader /\ Seen /\ NoMailLost
  BY DEF MailInv
<1>2. /\ l \in Accepted /\ retries[l].id = NextId /\ To[l] = Phone
      /\ cur \in Sock /\ k \in DOMAIN out[cur] /\ NextId \in out[cur][k].ids
      /\ NextFrame = <<k, NextId>> /\ NextId \in Nat /\ k \in Nat
  <2>1. NextFrame[1] \in Nat
    BY <1>1, NextLetter
  <2> QED BY <1>1, <2>1, NextLetter
<1>3. conn[cur] = Phone /\ cur # None
  BY DEF Reading
<1> SUFFICES ASSUME NEW m \in Needs[l], m \notin disk PROVE FALSE
  OBVIOUS
<1>4. l \in Letter
  BY <1>2 DEF Accepted
<1>5. m \in Before[l] /\ m \notin Garbage /\ To[m] = Phone
  BY <1>2, <1>4 DEF InOrderAndStored
<1>6. m \in Accepted /\ retries[m].id < retries[l].id
  BY <1>1, <1>2, <1>5 DEF Books
<1>7. PICK e \in envelopes : e.letter = m
  BY <1>1, <1>5, <1>6 DEF NoMailLost, Queued
<1>8. e.seq = retries[m].id /\ e.exp > now /\ Recipient(e) = Phone
  BY <1>1, <1>5, <1>7 DEF Books, Recipient
<1>9. Orderly(out[cur], inflight[cur], envelopes, conn[cur], nextSeq, now)
  BY <1>2 DEF OrderInv
<1>10. e.seq \in out[cur][k].ids /\ e.seq < NextId
  BY <1>2, <1>3, <1>6, <1>7, <1>8, <1>9 DEF Orderly
<1>11. e.seq \in Nat
  BY <1>7 DEF TypeOK
<1>12. ~Behind(pos, <<k, e.seq>>)
  <2> SUFFICES ASSUME Behind(pos, <<k, e.seq>>) PROVE FALSE
    OBVIOUS
  <2>1. e.seq \in Written(cur)
    BY <1>2, <1>10 DEF Written
  <2>2. <<k, e.seq>> \in Unread
    BY <1>2, <1>10, <2>1 DEF Unread
  <2>3. Behind(NextFrame, <<k, e.seq>>) \/ <<k, e.seq>> = NextFrame
    BY <1>1, <2>2, NextIs
  <2>4. <<k, e.seq>> # <<k, NextId>>
    BY <1>2, <1>10, <1>11
  <2>5. ~Behind(<<k, NextId>>, <<k, e.seq>>)
    BY <1>2, <1>10, <1>11 DEF Behind
  <2> HIDE DEF k
  <2> QED BY <1>2, <2>3, <2>4, <2>5
<1>13. Settled(e.seq)
  BY <1>1, <1>2, <1>3, <1>10, <1>12 DEF Seen
<1>14. PICK m2 \in Accepted \cap (Garbage \cup disk) : retries[m2].id = e.seq
  BY <1>13 DEF Settled
<1>15. m2 = m
  BY <1>1, <1>6, <1>8, <1>14 DEF Books
<1> QED BY <1>5, <1>14, <1>15

\* A drainQueue writes letters of the table to one session.
LEMMA DrainStep ==
  ASSUME TypeOK, TypeOK', Books, RowsStep, retries' = retries,
         NEW s \in Sock, NEW rows \in SUBSET envelopes, NEW p \in BOOLEAN,
         DrainQueue(s, Phone, rows, p), conn'[s] = Phone, conn[s] \in {None, Phone},
         \A u \in Sock : u # s => conn'[u] = conn[u]
  PROVE  \A u \in Sock : LogStep(u)
<1>1. PICK r \in SUBSET FirstBatch(rows, Phone) :
        \E new : Grown(out[s], new, Seqs(r)) /\ out' = [out EXCEPT ![s] = new]
  <2>1. HandsOut(s, Phone, rows)
    BY DrainQueueEffect
  <2> QED BY <2>1 DEF HandsOut
<1>2. PICK new : Grown(out[s], new, Seqs(r)) /\ out' = [out EXCEPT ![s] = new]
  BY <1>1
<1>3. \A u \in Sock : out[u] \in Seq(Entry)
  BY DEF TypeOK, Entry
<1>4. \A e \in r : e \in envelopes /\ Recipient(e) = Phone
  BY DEF FirstBatch, Pending
<1>5. Seqs(r) \in SUBSET Nat
  BY <1>4 DEF Seqs, TypeOK
<1>6. \A id \in Seqs(r) : Named(id)'
  <2> SUFFICES ASSUME NEW e \in r PROVE Named(e.seq)'
    BY DEF Seqs
  <2>1. e.seq \in Nat \ {0} /\ e.letter \in Letter /\ To[e.letter] = Phone
    BY <1>4 DEF TypeOK, Recipient
  <2>2. retries[e.letter].id = e.seq
    BY <1>4 DEF Books
  <2>3. Named(e.seq)
    BY <2>1, <2>2 DEF Named, Accepted
  <2> QED BY <2>3, AcceptedStay
<1>7. /\ Len(out[s]) <= Len(new)
      /\ \A i \in DOMAIN out[s] : i \in DOMAIN new /\ new[i] = out[s][i]
      /\ \A i \in (DOMAIN new) \ DOMAIN out[s] : new[i] = Done \/ new[i] = Batch(Seqs(r))
  <2>1. PICK log \in Seq(Entry) : log = out[s]
    BY <1>3
  <2>2. PICK b \in SUBSET Nat : b = Seqs(r)
    BY <1>5
  <2>3. Grown(log, new, b)
    BY <1>2, <2>1, <2>2
  <2>4. /\ new \in Seq(Entry)
        /\ Len(log) <= Len(new)
        /\ \A i \in DOMAIN log : i \in DOMAIN new /\ new[i] = log[i]
        /\ \A i \in DOMAIN new \ DOMAIN log :
             \/ new[i] = Done
             \/ i = Len(log) + 1 /\ b # {} /\ new[i] = Batch(b)
    BY <2>3, GrownEntries
  <2> QED BY <2>1, <2>2, <2>4
<1>8. out'[s] = new /\ \A u \in Sock : u # s => out'[u] = out[u]
  BY <1>2 DEF TypeOK
<1>9. LogStep(s)
  <2>1. \A k \in (DOMAIN new) \ DOMAIN out[s] : \A id \in new[k].ids :
          Named(id)' /\ new[k].via # "live"
    BY <1>6, <1>7 DEF Done, Batch
  <2> QED BY <1>7, <1>8, <2>1 DEF LogStep
<1>10. ASSUME NEW u \in Sock, u # s PROVE LogStep(u)
  <2>1. Len(out[u]) \in Nat
    BY <1>3
  <2> QED BY <1>8, <1>10, <2>1 DEF LogStep
<1> QED BY <1>9, <1>10

\* Where the relay's sessions stay as they are, so do their logs.
LEMMA SameLogs ==
  ASSUME TypeOK, UNCHANGED <<out, conn>>
  PROVE  \A u \in Sock : LogStep(u)
<1>1. \A u \in Sock : Len(out[u]) \in Nat
  BY DEF TypeOK
<1> QED BY <1>1 DEF LogStep

\* Sessions end; the others stay.
LEMMA DropStep ==
  ASSUME TypeOK, NEW S \in SUBSET Sock, Drop(S)
  PROVE  \A u \in Sock : LogStep(u)
<1> SUFFICES ASSUME NEW u \in Sock PROVE LogStep(u)
  OBVIOUS
<1>1. Len(out[u]) \in Nat
  BY DEF TypeOK
<1>2. CASE u \in S
  BY <1>2 DEF Drop, LogStep
<1>3. CASE u \notin S
  <2>1. out'[u] = out[u] /\ conn'[u] = conn[u]
    BY <1>3 DEF Drop
  <2> QED BY <1>1, <2>1 DEF LogStep
<1> QED BY <1>2, <1>3

\* A letter that is accepted stands behind all that its sender had accepted before.
LEMMA SendStep ==
  ASSUME TypeOK, TypeOK', Books, \A s \in Sock : conn[s] \in {None, Phone},
         NEW l \in Letter, SendInOrder(l)
  PROVE  RelayStep
<1>1. PICK ttl \in TtlAsked : OnSendAnon(l, ttl, TRUE)
  BY DEF SendInOrder
<1>2. Before[l] \subseteq Accepted
  BY DEF SendInOrder
<1>3. now = 0 /\ now' = 0
  BY <1>1 DEF OnSendAnon, EnqueueAndRespond, Books
<1>4. CASE UNCHANGED <<durable, session>>
  <2>1. RowsStep
    BY <1>3, <1>4 DEF RowsStep, durable
  <2>2. \A u \in Sock : LogStep(u)
    BY <1>4, SameLogs DEF session
  <2> QED BY <2>1, <2>2 DEF RelayStep
<1>5. CASE /\ ~AcceptedRetry(l) /\ EnqueueOnce(l, ttl) /\ Deliver(To[l])
           /\ UNCHANGED <<status, conn, inflight>>
  <2> DEFINE exp == now + Lifetime(ttl)
  <2>1. exp \in Nat \ {0}
    BY <1>3, RelayAssumption DEF Lifetime
  <2>2. retries[l] = NoRetry
    BY <1>3, <1>5 DEF Books, AcceptedRetry
  <2>3. /\ retries' = [retries EXCEPT ![l] = [id |-> nextSeq, exp |-> exp]]
        /\ envelopes' = envelopes \cup {[seq |-> nextSeq, letter |-> l, exp |-> exp]}
        /\ nextSeq' = nextSeq + 1
    BY <1>5 DEF EnqueueOnce
  <2> HIDE DEF exp
  <2>4. RowsStep
    BY <1>2, <1>3, <2>1, <2>2, <2>3 DEF RowsStep
  <2>5. ASSUME NEW u \in Sock PROVE LogStep(u)
    <3>1. out[u] \in Seq(Entry) /\ conn'[u] = conn[u] /\ Len(out[u]) \in Nat
      BY <1>5 DEF TypeOK, Entry
    <3>2. CASE out'[u] = out[u]
      BY <3>1, <3>2 DEF LogStep
    <3>3. CASE conn[u] = To[l] /\ out'[u] = Append(out[u], Live(nextSeq))
      <4>1. To[l] = Phone
        BY <3>3, RelayAssumption
      <4>2. ASSUME NEW id, id = nextSeq PROVE Named(id)'
        <5>1. retries'[l] = [id |-> nextSeq, exp |-> exp] /\ nextSeq # 0
          BY <2>3 DEF TypeOK
        <5> QED BY <4>1, <4>2, <5>1 DEF Named, Accepted
      <4>3. /\ Len(out'[u]) = Len(out[u]) + 1
            /\ \A k \in DOMAIN out[u] : k \in DOMAIN out'[u] /\ out'[u][k] = out[u][k]
            /\ \A k \in (DOMAIN out'[u]) \ DOMAIN out[u] : out'[u][k] = Live(nextSeq)
        BY <3>1, <3>3
      <4>4. \A k \in (DOMAIN out'[u]) \ DOMAIN out[u] : \A id \in out'[u][k].ids :
              Named(id)' /\ id = nextSeq
        BY <4>2, <4>3 DEF Live
      <4> QED BY <3>1, <4>3, <4>4 DEF LogStep
    <3> QED BY <1>5, <3>1, <3>2, <3>3 DEF Deliver, Sockets
  <2> QED BY <2>4, <2>5 DEF RelayStep
<1> QED BY <1>1, <1>4, <1>5 DEF OnSendAnon, EnqueueAndRespond

\* What the relay does in any step of the composition.
LEMMA ConnectStep ==
  ASSUME TypeOK, TypeOK', MailInv, NEW s \in Sock, Connect(s)
  PROVE  RelayStep /\ conn' = [conn EXCEPT ![s] = Phone]
<1>1. OnAuth(s, Phone) /\ Books
  BY DEF Connect, MailInv
<1>2. /\ UNCHANGED <<envelopes, retries, nextSeq, now>>
      /\ conn[s] = None /\ conn' = [conn EXCEPT ![s] = Phone]
      /\ \E p \in BOOLEAN : DrainQueue(s, Phone, envelopes, p)
  BY <1>1 DEF OnAuth
<1>3. PICK p \in BOOLEAN : DrainQueue(s, Phone, envelopes, p)
  BY <1>2
<1>4. RowsStep
  BY <1>2 DEF RowsStep
<1>5. conn'[s] = Phone /\ \A u \in Sock : u # s => conn'[u] = conn[u]
  BY <1>2 DEF TypeOK
<1> QED BY <1>1, <1>2, <1>3, <1>4, <1>5, DrainStep DEF RelayStep

LEMMA FlushStep ==
  ASSUME TypeOK, TypeOK', MailInv, NEW s \in Sock, Flush(s)
  PROVE  RelayStep /\ conn' = conn
<1>1. PICK p \in BOOLEAN : HandleDrain(s, p)
  BY DEF Flush
<1>2. UNCHANGED <<durable, now, conn>> /\ conn[s] # None
  BY <1>1 DEF HandleDrain
<1>3. RowsStep
  BY <1>2 DEF RowsStep, durable
<1>4. conn[s] = Phone /\ Books
  BY <1>2 DEF MailInv, Reader
<1>5. CASE inflight[s] = {}
  <2>1. DrainQueue(s, Phone, envelopes, p)
    BY <1>1, <1>4, <1>5 DEF HandleDrain
  <2> QED BY <1>2, <1>3, <1>4, <2>1, DrainStep DEF RelayStep, durable
<1>6. CASE inflight[s] # {}
  <2>1. out' = out
    BY <1>1, <1>6 DEF HandleDrain
  <2> QED BY <1>2, <1>3, <2>1, SameLogs DEF RelayStep
<1> QED BY <1>5, <1>6

LEMMA AckStep ==
  ASSUME TypeOK, TypeOK', MailInv, NEW s \in Sock, NEW id, OnAck(s, id)
  PROVE  /\ RelayStep /\ conn' = conn /\ retries' = retries
         /\ \A e \in envelopes : e \in envelopes' \/ e.seq = id
<1>1. UNCHANGED <<retries, nextSeq, status, now, conn>> /\ conn[s] # None
  BY DEF OnAck
<1> DEFINE rest == {e \in envelopes : e.seq # id \/ Recipient(e) # conn[s]}
<1>2. envelopes' = rest
  BY DEF OnAck
<1>3. RowsStep
  BY <1>1, <1>2 DEF RowsStep
<1>4. conn[s] = Phone /\ Books /\ pressed[s] \in BOOLEAN
  BY <1>1 DEF MailInv, Reader, TypeOK
<1>5. DrainQueue(s, conn[s], rest, pressed[s]) \/ UNCHANGED out
  BY DEF OnAck
<1>6. \A u \in Sock : LogStep(u)
  <2>1. CASE UNCHANGED out
    BY <1>1, <2>1, SameLogs
  <2>2. CASE DrainQueue(s, conn[s], rest, pressed[s])
    <3> HIDE DEF rest
    <3>1. rest \in SUBSET envelopes
      BY DEF rest
    <3> QED BY <1>1, <1>3, <1>4, <2>2, <3>1, DrainStep
  <2> QED BY <1>5, <2>1, <2>2
<1> QED BY <1>1, <1>2, <1>3, <1>6 DEF RelayStep

-----------------------------------------------------------------------------
\* What was missed was accepted, and before what is accepted next.
LEMMA MissedBelow ==
  ASSUME TypeOK, Books, Reader
  PROVE  \A id \in failed : id < nextSeq
<1>1. \A l \in Accepted : retries[l].id < nextSeq
  <2>1. nextSeq \in Nat
    BY DEF TypeOK
  <2> QED BY <2>1 DEF Books, Accepted, NoRetry
<1> QED BY <1>1 DEF Reader, Named

\* While the client stays on its connection and reads nothing, what it has seen
\* stays as it is.
LEMMA SeenStays ==
  ASSUME TypeOK, TypeOK', OrderInv, Books, Reader, Seen, RelayStep, cur # None,
         conn'[cur] # None, UNCHANGED <<cur, pos, failed, disk>>
  PROVE  Seen' /\ pos'[1] <= Len(out'[cur'])
<1>1. cur \in Sock /\ RowsStep /\ LogStep(cur)
  BY DEF Reader, RelayStep
<1>2. /\ Len(out[cur]) <= Len(out'[cur])
      /\ \A k \in DOMAIN out[cur] : k \in DOMAIN out'[cur] /\ out'[cur][k] = out[cur][k]
      /\ \A k \in (DOMAIN out'[cur]) \ DOMAIN out[cur] : \A id \in out'[cur][k].ids :
           out'[cur][k].via = "live" => id = nextSeq
  BY <1>1 DEF LogStep
<1>3. out[cur] \in Seq(Entry) /\ out'[cur] \in Seq(Entry)
  BY <1>1 DEF TypeOK, Entry
<1>4. pos \in Nat \X Nat /\ pos[1] <= Len(out[cur])
  BY DEF Reader
<1>5. \A id \in failed : id < nextSeq
  BY MissedBelow
<1>6. pos'[1] <= Len(out'[cur'])
  <2>1. pos[1] \in Nat /\ Len(out[cur]) \in Nat /\ Len(out'[cur]) \in Nat
    BY <1>3, <1>4
  <2> QED BY <1>2, <1>4, <2>1
<1>7. ASSUME NEW k \in DOMAIN out'[cur], NEW id \in out'[cur][k].ids
      PROVE  /\ out'[cur][k].via = "drain" /\ ~Behind(pos, <<k, id>>) => Settled(id)'
             /\ out'[cur][k].via = "live" /\ Behind(pos, <<k, id>>) => id \notin failed
  <2>1. CASE k \in DOMAIN out[cur]
    <3>1. out'[cur][k] = out[cur][k]
      BY <1>2, <2>1
    <3>2. /\ out[cur][k].via = "drain" /\ ~Behind(pos, <<k, id>>) => Settled(id)
          /\ out[cur][k].via = "live" /\ Behind(pos, <<k, id>>) => id \notin failed
      BY <1>7, <2>1, <3>1 DEF Seen
    <3>3. Settled(id) => Settled(id)'
      BY <1>1, AcceptedStay
    <3> QED BY <3>1, <3>2, <3>3
  <2>2. CASE k \notin DOMAIN out[cur]
    <3>1. pos[1] < k
      BY <1>3, <1>4, <2>2
    <3>2. Behind(pos, <<k, id>>)
      BY <3>1 DEF Behind
    <3>3. nextSeq \notin failed
      BY <1>5 DEF TypeOK
    <3> QED BY <1>2, <2>2, <3>2, <3>3
  <2> QED BY <2>1, <2>2
<1> QED BY <1>6, <1>7 DEF Seen

\* At the beginning of a connection nothing of it was read.
LEMMA SeenNew ==
  ASSUME TypeOK, TypeOK', Books, Reader, RelayStep, cur' \in Sock, pos' = <<0, 0>>,
         out[cur'] = <<>>, failed' = failed
  PROVE  Seen'
<1>1. out'[cur'] \in Seq(Entry) /\ LogStep(cur')
  BY DEF TypeOK, Entry, RelayStep
<1>2. \A k \in DOMAIN out'[cur'] : k \in Nat /\ k > 0
  BY <1>1
<1>3. ASSUME NEW k \in DOMAIN out'[cur'], NEW id PROVE Behind(pos', <<k, id>>)
  BY <1>2 DEF Behind
<1>4. \A k \in DOMAIN out'[cur'] : \A id \in out'[cur'][k].ids :
        out'[cur'][k].via = "live" => id = nextSeq
  BY <1>1 DEF LogStep
<1>5. nextSeq \notin failed
  BY MissedBelow DEF TypeOK
<1> QED BY <1>3, <1>4, <1>5 DEF Seen

\* A step in which the client reads nothing: it stays, leaves or connects, and the
\* relay may have read an ACK of it.
ClientStep ==
  /\ UNCHANGED <<disk, failed>> /\ mem' = disk
  /\ acks' \in [Sock -> Seq(Nat)]
  /\ \A s \in Sock : \A i \in DOMAIN acks'[s] : \E j \in DOMAIN acks[s] : acks'[s][i] = acks[s][j]
  /\ \/ cur' = None /\ pos' = <<0, 0>>
     \/ cur' \in Sock /\ pos' = <<0, 0>> /\ out[cur'] = <<>> /\ conn'[cur'] = Phone
     \/ cur # None /\ conn'[cur] = Phone /\ UNCHANGED <<cur, pos>>

\* What is settled after a step.
SettledThen(id) == \E l \in Accepted' \cap (Garbage \cup disk') : retries'[l].id = id

LEMMA ClientStays ==
  ASSUME TypeOK, TypeOK', OrderInv, Books, Reader, Seen, RelayStep, ClientStep,
         \A s \in Sock : conn'[s] \in {None, Phone}
  PROVE  Reader' /\ Seen'
<1>1. None # Phone /\ RowsStep
  BY RelayAssumption, DeliveryAssumption DEF RelayStep
<1>2. \A id \in failed' : Named(id)'
  <2>1. \A id \in failed : Named(id)'
    BY <1>1, AcceptedStay DEF Reader
  <2> QED BY <2>1 DEF ClientStep
<1>3. \A s \in Sock : \A i \in DOMAIN acks'[s] : SettledThen(acks'[s][i])
  <2> SUFFICES ASSUME NEW s \in Sock, NEW i \in DOMAIN acks'[s]
               PROVE  SettledThen(acks'[s][i])
    OBVIOUS
  <2>1. PICK j \in DOMAIN acks[s] : acks'[s][i] = acks[s][j]
    BY DEF ClientStep
  <2>2. Settled(acks[s][j])
    BY DEF Reader
  <2>3. PICK m \in Accepted \cap (Garbage \cup disk) : retries[m].id = acks[s][j]
    BY <2>2 DEF Settled
  <2>4. m \in Accepted' /\ retries'[m] = retries[m] /\ disk' = disk
    BY <1>1, <2>3, AcceptedStay DEF ClientStep
  <2> QED BY <2>1, <2>3, <2>4 DEF SettledThen
<1>4. /\ mem' = disk' /\ acks' \in [Sock -> Seq(Nat)]
      /\ pos \in Nat \X Nat /\ cur \in Sock \cup {None}
      /\ pos' \in Nat \X Nat /\ cur' \in Sock \cup {None}
  BY DEF ClientStep, Reader
<1>5. CASE cur' = None /\ pos' = <<0, 0>>
  BY <1>2, <1>3, <1>4, <1>5 DEF Reader, Seen, Settled, SettledThen
<1>6. CASE cur' \in Sock /\ pos' = <<0, 0>> /\ out[cur'] = <<>> /\ conn'[cur'] = Phone
  <2>1. Seen'
    BY <1>6, SeenNew DEF ClientStep
  <2>2. pos'[1] <= Len(out'[cur'])
    <3>1. Len(out'[cur']) \in Nat
      BY <1>6 DEF TypeOK
    <3> QED BY <1>6, <3>1
  <2> QED BY <1>2, <1>3, <1>4, <1>6, <2>1, <2>2 DEF Reader, Settled, SettledThen
<1>7. CASE cur # None /\ conn'[cur] = Phone /\ UNCHANGED <<cur, pos>>
  <2>1. Seen' /\ pos'[1] <= Len(out'[cur'])
    BY <1>1, <1>7, SeenStays DEF ClientStep
  <2> QED BY <1>2, <1>3, <1>4, <1>7, <2>1 DEF Reader, Settled, SettledThen
<1> QED BY <1>5, <1>6, <1>7 DEF ClientStep

\* Nothing is lost where only rows that are settled go.
LEMMA KeptByStep ==
  ASSUME TypeOK, Books, RowsStep, NoMailLost, disk \subseteq disk',
         \A e \in envelopes : e \in envelopes' \/ Settled(e.seq)
  PROVE  NoMailLost'
<1> SUFFICES ASSUME NEW l \in Accepted', l \notin Garbage, l \notin disk'
             PROVE  l \in Queued'
  BY DEF NoMailLost
<1>1. CASE l \in Accepted
  <2>1. PICK e \in envelopes : e.letter = l
    BY <1>1 DEF NoMailLost, Queued
  <2>2. e.seq = retries[l].id
    BY <2>1 DEF Books
  <2>3. ~Settled(e.seq)
    <3> SUFFICES ASSUME NEW m \in Accepted \cap (Garbage \cup disk), retries[m].id = e.seq
                 PROVE  FALSE
      BY DEF Settled
    <3>1. m = l
      BY <1>1, <2>2 DEF Books
    <3> QED BY <3>1
  <2> QED BY <2>1, <2>3 DEF Queued
<1>2. CASE l \notin Accepted
  <2>1. retries' # retries
    BY <1>2 DEF Accepted
  <2>2. PICK k \in Letter, exp \in Nat \ {0} :
          /\ retries' = [retries EXCEPT ![k] = [id |-> nextSeq, exp |-> exp]]
          /\ envelopes' = envelopes \cup {[seq |-> nextSeq, letter |-> k, exp |-> exp]}
    BY <2>1 DEF RowsStep
  <2>3. l = k
    BY <1>2, <2>2 DEF Accepted, TypeOK
  <2>4. [seq |-> nextSeq, letter |-> l, exp |-> exp] \in envelopes'
    BY <2>2, <2>3
  <2>5. \E e \in envelopes' : e.letter = l
    BY <2>4
  <2> QED BY <2>5 DEF Queued
<1> QED BY <1>1, <1>2

\* A step that reads nothing.
LEMMA StepUnread ==
  ASSUME TypeOK, TypeOK', OrderInv, MailInv, RelayStep, ClientStep,
         \A s \in Sock : conn'[s] \in {None, Phone},
         \A e \in envelopes : e \in envelopes' \/ Settled(e.seq)
  PROVE  MailInv'
<1>1. Books /\ Reader /\ Seen /\ NoMailLost /\ RowsStep /\ disk \subseteq disk'
  BY DEF MailInv, RelayStep, ClientStep
<1> QED BY <1>1, BooksStay, ClientStays, KeptByStep DEF MailInv

\* A frame is read: nothing but the reader's state changes.
Reads ==
  /\ Reading /\ UNCHANGED <<vars, cur>> /\ pos' = NextFrame
  /\ disk \subseteq disk' /\ mem' = disk'

\* The ACK of what was read is settled, if there is one, and what was read of the
\* queue is; a live frame is missed for the first time.
LEMMA StepReads ==
  ASSUME TypeOK, OrderInv, MailInv, Reads,
         \/ UNCHANGED acks
         \/ SettledThen(NextId) /\ Ack(NextId),
         failed' \subseteq failed \cup {NextId},
         out[cur][NextFrame[1]].via = "drain" => SettledThen(NextId)
  PROVE  MailInv'
<1> DEFINE n == NextId
           f == NextFrame
<1>0. /\ Books /\ Reader /\ Seen /\ NoMailLost
      /\ UNCHANGED <<envelopes, retries, nextSeq, now, conn, out>> /\ UNCHANGED cur
      /\ Reading
  BY DEF MailInv, Reads, vars, durable, session
<1>1. /\ cur \in Sock /\ f[1] \in DOMAIN out[cur] /\ n \in out[cur][f[1]].ids
      /\ f = <<f[1], n>> /\ n \in Nat /\ f \in Nat \X Nat /\ f[1] \in Nat /\ Behind(pos, f) /\ Named(n)
  <2>1. f[1] \in Nat
    BY <1>0, NextLetter
  <2> QED BY <1>0, <2>1, NextLetter
<1>2. Accepted' = Accepted /\ \A id : Named(id)' = Named(id)
  BY <1>0 DEF Accepted, Named
<1>3. \A id : Settled(id) => SettledThen(id)
  BY <1>0, <1>2 DEF Settled, SettledThen, Reads
<1>4. Books'
  BY <1>0, <1>2 DEF Books
<1>5. NoMailLost'
  BY <1>0, <1>2 DEF NoMailLost, Queued, Reads
<1>6. Reader'
  <2>1. \A id \in failed' : Named(id)'
    BY <1>0, <1>1, <1>2 DEF Reader
  <2>2. /\ acks' \in [Sock -> Seq(Nat)]
        /\ \A s \in Sock : \A i \in DOMAIN acks'[s] : SettledThen(acks'[s][i])
    <3>1. CASE UNCHANGED acks
      BY <1>0, <1>3, <3>1 DEF Reader
    <3>2. CASE SettledThen(NextId) /\ Ack(NextId)
      <4>1. acks' = [acks EXCEPT ![cur] = Append(@, n)]
        BY <3>2 DEF Ack
      <4>2. acks \in [Sock -> Seq(Nat)]
        BY <1>0 DEF Reader
      <4>3. acks' \in [Sock -> Seq(Nat)]
        BY <1>1, <4>1, <4>2
      <4>4. ASSUME NEW s \in Sock, NEW i \in DOMAIN acks'[s]
            PROVE  (i \in DOMAIN acks[s] /\ acks'[s][i] = acks[s][i]) \/ acks'[s][i] = n
        <5>1. CASE s # cur
          BY <4>1, <4>2, <4>4, <5>1
        <5>2. CASE s = cur
          <6>1. acks'[s] = Append(acks[s], n) /\ acks[s] \in Seq(Nat)
            BY <1>1, <4>1, <4>2, <5>2
          <6> QED BY <4>4, <6>1
        <5> QED BY <5>1, <5>2
      <4>5. ASSUME NEW s \in Sock, NEW i \in DOMAIN acks'[s]
            PROVE  SettledThen(acks'[s][i])
        <5>1. CASE i \in DOMAIN acks[s] /\ acks'[s][i] = acks[s][i]
          <6>1. \E m \in Accepted \cap (Garbage \cup disk) : retries[m].id = acks'[s][i]
            BY <1>0, <5>1 DEF Reader, Settled
          <6> QED BY <1>0, <1>2, <6>1 DEF SettledThen, Reads
        <5>2. CASE acks'[s][i] = n
          BY <3>2, <5>2 DEF SettledThen
        <5> QED BY <4>4, <4>5, <5>1, <5>2
      <4> QED BY <4>3, <4>5
    <3> QED BY <3>1, <3>2
  <2>3. pos' \in Nat \X Nat /\ cur # None /\ conn[cur] = Phone
    BY <1>0, <1>1 DEF Reads, Reading
  <2>4. pos'[1] <= Len(out[cur])
    <3>1. out[cur] \in Seq(Entry) /\ pos' = f
      BY <1>1 DEF TypeOK, Entry, Reads
    <3> QED BY <1>1, <3>1
  <2> QED BY <1>0, <1>1, <2>1, <2>2, <2>3, <2>4 DEF Reader, Reads, Settled, SettledThen
<1>7. Seen'
  <2> SUFFICES ASSUME NEW k \in DOMAIN out[cur], NEW id \in out[cur][k].ids
               PROVE  /\ out[cur][k].via = "drain" /\ ~Behind(f, <<k, id>>) => SettledThen(id)
                      /\ out[cur][k].via = "live" /\ Behind(f, <<k, id>>) => id \notin failed'
    <3>1. pos' = f /\ cur' = cur /\ out' = out
      BY <1>0 DEF Reads
    <3> HIDE DEF f
    <3>2. \A id : Settled(id)' = SettledThen(id)
      BY DEF Settled, SettledThen
    <3> QED BY <3>1, <3>2 DEF Seen, Settled, SettledThen
  <2>1. /\ out[cur][k].via = "drain" /\ ~Behind(pos, <<k, id>>) => Settled(id)
        /\ out[cur][k].via = "live" /\ Behind(pos, <<k, id>>) => id \notin failed
    BY <1>0 DEF Seen, Reading
  <2>2. k \in Nat /\ id \in Nat /\ pos[1] \in Nat /\ pos[2] \in Nat
    <3>1. out[cur] \in Seq(Entry)
      BY <1>1 DEF TypeOK, Entry
    <3>2. pos \in Nat \X Nat
      BY <1>0 DEF Reader
    <3> QED BY <3>1, <3>2, LogIds
  <2>3. ASSUME out[cur][k].via = "drain", ~Behind(f, <<k, id>>) PROVE SettledThen(id)
    <3>1. CASE ~Behind(pos, <<k, id>>)
      BY <1>3, <2>1, <2>3, <3>1
    <3>2. CASE Behind(pos, <<k, id>>)
      <4>1. <<k, id>> \in Unread
        BY <3>2 DEF Unread, Written
      <4>2. <<k, id>> = f
        BY <1>0, <2>3, <4>1, NextIs
      <4>3. k = f[1] /\ id = n
        BY <1>1, <4>2
      <4> QED BY <2>3, <4>3 DEF SettledThen
    <3> QED BY <3>1, <3>2
  <2>4. ASSUME out[cur][k].via = "live", Behind(f, <<k, id>>) PROVE id \notin failed'
    <3>1. Behind(pos, <<k, id>>)
      BY <1>1, <2>2, <2>4 DEF Behind
    <3>2. id # n
      <4> SUFFICES ASSUME id = n PROVE FALSE
        OBVIOUS
      <4>1. f[1] < k
        BY <1>1, <2>2, <2>4 DEF Behind
      <4>2. Orderly(out[cur], inflight[cur], envelopes, conn[cur], nextSeq, now)
        BY <1>1 DEF OrderInv
      <4>3. out[cur][f[1]].ids \cap out[cur][k].ids = {}
        BY <1>1, <2>4, <4>1, <4>2 DEF Orderly
      <4> QED BY <1>1, <4>3
    <3> QED BY <2>1, <2>4, <3>1, <3>2
  <2> QED BY <2>3, <2>4
<1> QED BY <1>4, <1>5, <1>6, <1>7 DEF MailInv

\* What the reader does with a frame: it has what it acknowledges, or nobody can
\* read it; what the queue hands out is not missed.
LEMMA ReadStep ==
  ASSUME TypeOK, OrderInv, MailInv, InOrderAndStored,
         ReadEnvelope \/ Repeated \/ FirstMiss \/ SecondMiss
  PROVE  MailInv'
<1> DEFINE l == LetterOf(NextId)
<1>1. Books /\ Reader /\ Seen /\ Reading /\ mem = disk
  BY DEF MailInv, ReadEnvelope, Repeated, FirstMiss, SecondMiss, Reader
<1>2. /\ l \in Accepted /\ retries[l].id = NextId
      /\ cur \in Sock /\ NextFrame[1] \in DOMAIN out[cur]
      /\ NextId \in out[cur][NextFrame[1]].ids
      /\ NextFrame = <<NextFrame[1], NextId>> /\ Behind(pos, NextFrame)
      /\ out[cur][NextFrame[1]].via \in {"live", "drain"}
  BY <1>1, NextLetter
<1>3. l \in Letter
  BY <1>2 DEF Accepted
<1>4. UNCHANGED <<vars, cur>> /\ pos' = NextFrame
  BY DEF ReadEnvelope, Repeated, FirstMiss, SecondMiss, Handled
<1>5. UNCHANGED retries
  BY <1>4 DEF vars, durable
<1>6. l \in Garbage \cup disk' => SettledThen(NextId)
  BY <1>2, <1>5 DEF SettledThen, Accepted
<1>7. out[cur][NextFrame[1]].via = "drain" /\ Unreadable(l) => l \in Garbage
  BY <1>1, DrainReadable DEF Unreadable
<1>8. NextId \in failed => out[cur][NextFrame[1]].via = "drain"
  <2>1. cur # None
    BY <1>1 DEF Reading
  <2> QED BY <1>1, <1>2, <2>1 DEF Seen
<1>9. ~TooOld(l)
  <2> SUFFICES ASSUME NEW r \in Ratchet, NEW i \in DOMAIN r, NEW j \in DOMAIN r,
                      j > i + Tolerance
               PROVE  FALSE
    BY DEF TooOld
  <2>1. r \in Seq(Letter) /\ Tolerance \in Nat
    BY DeliveryAssumption
  <2>2. Len(r) <= Tolerance + 1
    BY DEF InOrderAndStored
  <2> QED BY <2>1, <2>2
<1> HIDE DEF l
<1>10. CASE ReadEnvelope
  <2>1. /\ mem' = mem \cup {l} /\ disk' = mem' /\ Ack(NextId) /\ failed' = failed
    BY <1>10 DEF ReadEnvelope, InOrderAndStored, l
  <2>2. Reads /\ l \in disk'
    BY <1>1, <1>4, <2>1 DEF Reads
  <2>3. SettledThen(NextId)
    BY <1>6, <2>2
  <2> QED BY <2>1, <2>2, <2>3, StepReads
<1>11. CASE Repeated
  <2>1. UNCHANGED <<mem, disk, failed>> /\ Ack(NextId)
    BY <1>11 DEF Repeated
  <2>2. l \in disk'
    BY <1>1, <1>9, <1>11, <2>1 DEF Repeated, Processed, l
  <2>3. SettledThen(NextId) /\ Reads
    BY <1>1, <1>4, <1>6, <2>1, <2>2 DEF Reads
  <2> QED BY <2>1, <2>3, StepReads
<1>12. CASE FirstMiss
  <2>1. /\ UNCHANGED <<acks, mem, disk>> /\ failed' \subseteq failed \cup {NextId}
        /\ Unreadable(l)
    BY <1>12 DEF FirstMiss, l
  <2>2. Reads
    BY <1>1, <1>4, <2>1 DEF Reads
  <2>3. out[cur][NextFrame[1]].via = "drain" => SettledThen(NextId)
    BY <1>6, <1>7, <2>1
  <2> QED BY <2>1, <2>2, <2>3, StepReads
<1>13. CASE SecondMiss
  <2>1. /\ UNCHANGED <<mem, disk>> /\ failed' \subseteq failed \cup {NextId}
        /\ Unreadable(l) /\ NextId \in failed /\ Ack(NextId)
    BY <1>13 DEF SecondMiss, l
  <2>2. Reads
    BY <1>1, <1>4, <2>1 DEF Reads
  <2>3. SettledThen(NextId)
    BY <1>6, <1>7, <1>8, <2>1
  <2> QED BY <2>1, <2>2, <2>3, StepReads
<1> QED BY <1>10, <1>11, <1>12, <1>13

\* Steps of the relay and of the connection.
LEMMA OtherStep ==
  ASSUME TypeOK, TypeOK', OrderInv, MailInv,
         \/ \E l \in Letter : SendInOrder(l)
         \/ \E s \in Sock : Connect(s) \/ CloseAtRelay(s) \/ ReadAck(s) \/ Flush(s)
         \/ Disconnect \/ RestartRelay \/ UNCHANGED dvars
  PROVE  MailInv'
<1>1. Books /\ Reader /\ None # Phone /\ \A s \in Sock : conn[s] \in {None, Phone}
  BY RelayAssumption, DeliveryAssumption DEF MailInv, Reader
<1>2. ASSUME UNCHANGED client, conn' = conn PROVE ClientStep
  BY <1>1, <1>2 DEF client, ClientStep, Reader
<1>3. ASSUME Leave,
             \A s \in Sock : acks'[s] = acks[s] \/ acks'[s] = <<>>,
             acks' \in [Sock -> Seq(Nat)]
      PROVE  ClientStep
  BY <1>1, <1>3 DEF Leave, ClientStep, Reader
<1>4. ASSUME vars' = vars PROVE RelayStep /\ conn' = conn /\ envelopes' = envelopes
  <2>1. UNCHANGED <<envelopes, retries, nextSeq, now, out, conn>>
    BY <1>4 DEF vars, durable, session
  <2> QED BY <2>1, SameLogs DEF RelayStep, RowsStep
<1>5. ASSUME NEW S \in SUBSET Sock, Drop(S), UNCHANGED <<durable, now>>
      PROVE  RelayStep /\ envelopes' = envelopes /\ \A s \in Sock : conn'[s] \in {None, Phone}
  <2>1. RowsStep /\ envelopes' = envelopes
    BY <1>5 DEF RowsStep, durable
  <2>2. \A s \in Sock : conn'[s] \in {None, Phone}
    BY <1>1, <1>5 DEF Drop
  <2> QED BY <1>5, <2>1, <2>2, DropStep DEF RelayStep
<1>6. ASSUME NEW l \in Letter, SendInOrder(l) PROVE MailInv'
  <2>1. RelayStep
    BY <1>1, <1>6, SendStep
  <2>2. conn' = conn /\ envelopes \subseteq envelopes' /\ UNCHANGED client
    BY <1>6 DEF SendInOrder, OnSendAnon, EnqueueAndRespond, EnqueueOnce, session, durable
  <2>3. ClientStep
    BY <1>2, <2>2
  <2> QED BY <1>1, <2>1, <2>2, <2>3, StepUnread
<1>7. ASSUME NEW s \in Sock, Connect(s) PROVE MailInv'
  <2>1. RelayStep /\ conn' = [conn EXCEPT ![s] = Phone]
    BY <1>7, ConnectStep
  <2>2. /\ cur = None /\ cur' = s /\ UNCHANGED <<pos, acks, mem, disk, failed, envelopes>>
        /\ conn[s] = None
    BY <1>7 DEF Connect, OnAuth
  <2>3. out[s] = <<>>
    BY <2>2 DEF OrderInv, Orderly
  <2>4. conn'[s] = Phone /\ \A u \in Sock : conn'[u] \in {None, Phone}
    BY <1>1, <2>1 DEF TypeOK
  <2>5. ClientStep
    BY <1>1, <2>2, <2>3, <2>4 DEF ClientStep, Reader
  <2> QED BY <2>1, <2>2, <2>4, <2>5, StepUnread
<1>8. ASSUME NEW s \in Sock, CloseAtRelay(s) PROVE MailInv'
  <2>1. Drop({s}) /\ UNCHANGED <<durable, now>>
    BY <1>8 DEF CloseAtRelay, HandleClose
  <2>2. RelayStep /\ envelopes' = envelopes /\ \A u \in Sock : conn'[u] \in {None, Phone}
    BY <1>5, <2>1
  <2>3. /\ acks' \in [Sock -> Seq(Nat)]
        /\ \A u \in Sock : acks'[u] = acks[u] \/ acks'[u] = <<>>
    BY <1>1, <1>8 DEF CloseAtRelay, Reader
  <2>4. CASE s = cur
    <3>1. Leave
      BY <1>8, <2>4 DEF CloseAtRelay
    <3>2. ClientStep
      BY <1>3, <2>3, <3>1
    <3> QED BY <2>2, <3>2, StepUnread
  <2>5. CASE s # cur
    <3>1. UNCHANGED <<cur, pos, mem, disk, failed>>
      BY <1>8, <2>5 DEF CloseAtRelay
    <3>2. cur # None => conn'[cur] = Phone
      BY <1>1, <2>1, <2>5 DEF Drop, Reader
    <3>3. ClientStep
      BY <1>1, <2>3, <3>1, <3>2 DEF ClientStep, Reader
    <3> QED BY <2>2, <3>3, StepUnread
  <2> QED BY <2>4, <2>5
<1>9. ASSUME NEW s \in Sock, ReadAck(s) PROVE MailInv'
  <2>1. /\ acks[s] # <<>> /\ OnAck(s, Head(acks[s]))
        /\ acks' = [acks EXCEPT ![s] = Tail(@)]
        /\ UNCHANGED <<cur, pos, mem, disk, failed>>
    BY <1>9 DEF ReadAck
  <2>2. /\ RelayStep /\ conn' = conn
        /\ \A e \in envelopes : e \in envelopes' \/ e.seq = Head(acks[s])
    BY <2>1, AckStep
  <2>3. acks \in [Sock -> Seq(Nat)] /\ acks[s] \in Seq(Nat)
    BY <1>1 DEF Reader
  <2>4. 1 \in DOMAIN acks[s] /\ Head(acks[s]) = acks[s][1]
    BY <2>1, <2>3
  <2>5. Settled(Head(acks[s]))
    BY <1>1, <2>4 DEF Reader
  <2>6. /\ acks' \in [Sock -> Seq(Nat)]
        /\ \A u \in Sock : \A i \in DOMAIN acks'[u] : \E j \in DOMAIN acks[u] : acks'[u][i] = acks[u][j]
    <3>1. Tail(acks[s]) \in Seq(Nat)
      BY <2>1, <2>3
    <3>2. acks' \in [Sock -> Seq(Nat)]
      BY <2>1, <2>3, <3>1
    <3>3. \A i \in DOMAIN Tail(acks[s]) : i + 1 \in DOMAIN acks[s] /\ Tail(acks[s])[i] = acks[s][i + 1]
      BY <2>1, <2>3
    <3>4. \A u \in Sock : IF u = s THEN acks'[u] = Tail(acks[s]) ELSE acks'[u] = acks[u]
      BY <2>1, <2>3
    <3> QED BY <3>2, <3>3, <3>4
  <2>7. ClientStep
    BY <1>1, <2>1, <2>2, <2>6 DEF ClientStep, Reader
  <2>8. \A e \in envelopes : e \in envelopes' \/ Settled(e.seq)
    BY <2>2, <2>5
  <2> QED BY <1>1, <2>2, <2>7, <2>8, StepUnread
<1>10. ASSUME NEW s \in Sock, Flush(s) PROVE MailInv'
  <2>1. RelayStep /\ conn' = conn
    BY <1>10, FlushStep
  <2>2. UNCHANGED client /\ envelopes' = envelopes
    BY <1>10 DEF Flush, HandleDrain, durable
  <2> QED BY <1>1, <1>2, <2>1, <2>2, StepUnread
<1>11. CASE Disconnect
  <2>1. vars' = vars /\ acks' = acks /\ Leave
    BY <1>11 DEF Disconnect
  <2>2. RelayStep /\ conn' = conn /\ envelopes' = envelopes
    BY <1>4, <2>1
  <2>3. ClientStep
    BY <1>1, <1>3, <2>1 DEF Reader
  <2> QED BY <1>1, <2>2, <2>3, StepUnread
<1>12. CASE RestartRelay
  <2>1. Drop(Sock) /\ UNCHANGED <<durable, now>> /\ Leave /\ acks' = [s \in Sock |-> <<>>]
    BY <1>12 DEF RestartRelay, Restart
  <2>2. RelayStep /\ envelopes' = envelopes /\ \A s \in Sock : conn'[s] \in {None, Phone}
    BY <1>5, <2>1
  <2>3. acks' \in [Sock -> Seq(Nat)] /\ \A s \in Sock : acks'[s] = <<>>
    BY <2>1
  <2>4. ClientStep
    BY <1>3, <2>1, <2>3
  <2> QED BY <2>2, <2>4, StepUnread
<1>13. CASE UNCHANGED dvars
  <2>1. vars' = vars /\ UNCHANGED client
    BY <1>13 DEF dvars
  <2>2. RelayStep /\ conn' = conn /\ envelopes' = envelopes
    BY <1>4, <2>1
  <2> QED BY <1>1, <1>2, <2>1, <2>2, StepUnread
<1> QED BY <1>6, <1>7, <1>8, <1>9, <1>10, <1>11, <1>12, <1>13

\* The reader and the relay together take no step of the relay that Relay does not know.
LEMMA StepsOfRelay ==
  ASSUME TypeOK, MailInv, [DNext]_dvars
  PROVE  [Next]_vars
<1>1. ASSUME NEW l \in Letter, SendInOrder(l) PROVE Next
  BY <1>1 DEF SendInOrder, Next, Sending
<1>2. ASSUME NEW s \in Sock, Connect(s) \/ CloseAtRelay(s) \/ Flush(s) PROVE Next
  BY <1>2, DeliveryAssumption DEF Connect, CloseAtRelay, Flush, Next
<1>3. ASSUME NEW s \in Sock, ReadAck(s) PROVE Next
  <2>1. acks[s] # <<>> /\ OnAck(s, Head(acks[s]))
    BY <1>3 DEF ReadAck
  <2>2. acks[s] \in Seq(Nat)
    BY DEF MailInv, Reader
  <2>3. 1 \in DOMAIN acks[s] /\ Head(acks[s]) = acks[s][1]
    BY <2>1, <2>2
  <2>4. Settled(Head(acks[s])) /\ Books
    BY <2>3 DEF MailInv, Reader
  <2>5. PICK m \in Accepted : retries[m].id = Head(acks[s])
    BY <2>4 DEF Settled
  <2>6. Head(acks[s]) \in 1 .. nextSeq - 1
    BY <2>4, <2>5 DEF Books, Accepted, NoRetry
  <2> QED BY <2>1, <2>6 DEF Next
<1>4. RestartRelay => Next
  BY DEF RestartRelay, Next
<1>5. Disconnect \/ ReadEnvelope \/ Repeated \/ FirstMiss \/ SecondMiss \/ UNCHANGED dvars
        => UNCHANGED vars
  BY DEF Disconnect, ReadEnvelope, Repeated, FirstMiss, SecondMiss, Handled, dvars
<1> QED BY <1>1, <1>2, <1>3, <1>4, <1>5 DEF DNext

\* The rows, the frames and the reader begin true.
LEMMA MailInit == DInit => MailInv
<1> SUFFICES ASSUME DInit PROVE MailInv
  OBVIOUS
<1>1. /\ Init /\ cur = None /\ pos = <<0, 0>> /\ acks = [s \in Sock |-> <<>>]
      /\ mem = {} /\ disk = {} /\ failed = {}
  BY DEF DInit
<1>2. Accepted = {}
  BY <1>1 DEF Init, Accepted, NoRetry
<1>3. Books
  BY <1>1, <1>2 DEF Init, Books
<1>4. Reader
  BY <1>1 DEF Init, Reader
<1>5. Seen /\ NoMailLost
  BY <1>1, <1>2 DEF Seen, NoMailLost
<1> QED BY <1>3, <1>4, <1>5 DEF MailInv

\* Where every sender's order holds, no sender is too far ahead of the reader and
\* its store does not fail, an accepted letter that can be decrypted is in the queue
\* until the recipient has stored it: the second miss of on_envelope gives up nothing
\* that would have been read, and no ACK is sent for mail unread.
THEOREM NoMailLostHolds == InOrderAndStored => (DSpec => []NoMailLost)
<1> SUFFICES ASSUME InOrderAndStored PROVE DSpec => []NoMailLost
  OBVIOUS
<1> DEFINE Inv == TypeOK /\ FiniteTable /\ OrderInv /\ MailInv
<1>1. DInit => Inv
  <2>1. DInit => Init
    BY DEF DInit
  <2>2. Init => TypeOK /\ FiniteTable /\ OrderInv
    BY QueueInit
  <2> QED BY <2>1, <2>2, MailInit
<1>2. Inv /\ [DNext]_dvars => Inv'
  <2> SUFFICES ASSUME Inv, [DNext]_dvars PROVE Inv'
    OBVIOUS
  <2>1. [Next]_vars
    BY StepsOfRelay
  <2>2. TypeOK' /\ FiniteTable'
    BY <2>1, TypeOKStep, StepFinite
  <2>3. OrderInv'
    BY <2>1, <2>2, StepOrder
  <2>4. MailInv'
    BY <2>2, ReadStep, OtherStep DEF DNext
  <2> QED BY <2>2, <2>3, <2>4
<1>3. Inv => NoMailLost
  BY DEF MailInv
<1> QED BY <1>1, <1>2, <1>3, PTL DEF DSpec
=============================================================================

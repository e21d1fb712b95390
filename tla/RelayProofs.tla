---------------------------- MODULE RelayProofs ----------------------------
(***************************************************************************)
(* Theorems about Relay for every set of devices, letters and sockets and  *)
(* every limit: types, one live copy of a letter, no session of a revoked  *)
(* device, and that the relay implements Mailbox.                          *)
(***************************************************************************)
EXTENDS Relay, TLAPS

Row == [seq : Nat \ {0}, letter : Letter, exp : Nat]
Retry == [id : Nat, exp : Nat]
Entry == [via : {"live", "drain", "done"}, ids : SUBSET Nat]

-----------------------------------------------------------------------------
(* Types *)

\* What a drainQueue writes keeps the types of the session variables.
LEMMA DrainQueueType ==
  ASSUME TypeOK, NEW s \in Sock, NEW d, NEW rows \in SUBSET envelopes,
         NEW p \in BOOLEAN, DrainQueue(s, d, rows, p)
  PROVE  /\ inflight' \in [Sock -> SUBSET Nat]
         /\ pressed' \in [Sock -> BOOLEAN]
         /\ out' \in [Sock -> Seq(Entry)]
<1>1. \A r \in SUBSET envelopes : Seqs(r) \in SUBSET Nat
  BY DEF TypeOK, Seqs
<1>2. \A log \in Seq(Entry), e \in Entry : Record(log, e) \in Seq(Entry)
  BY DEF Record
<1>3. ASSUME NEW r \in SUBSET envelopes, NEW done \in BOOLEAN, NEW q \in BOOLEAN,
             Write(s, r, done, q)
      PROVE  /\ inflight' \in [Sock -> SUBSET Nat]
             /\ pressed' \in [Sock -> BOOLEAN]
             /\ out' \in [Sock -> Seq(Entry)]
  <2>1. Batch(Seqs(r)) \in Entry /\ Done \in Entry
    BY <1>1 DEF Batch, Done, Entry
  <2>2. out[s] \in Seq(Entry)
    BY DEF TypeOK, Entry
  <2>3. Record(out[s], Batch(Seqs(r))) \in Seq(Entry)
    BY <1>2, <2>1, <2>2
  <2>4. Record(Record(out[s], Batch(Seqs(r))), Done) \in Seq(Entry)
    BY <1>2, <2>1, <2>3
  <2> QED BY <1>1, <1>3, <2>3, <2>4 DEF Write, TypeOK, Entry
<1>4. FirstBatch(rows, d) \in SUBSET envelopes
  BY DEF FirstBatch, Pending
<1>5. \A r \in SUBSET FirstBatch(rows, d) : r \in SUBSET envelopes
  BY <1>4
<1>6. {} \in SUBSET envelopes /\ TRUE \in BOOLEAN /\ FALSE \in BOOLEAN
  OBVIOUS
<1> QED BY <1>3, <1>4, <1>5, <1>6 DEF DrainQueue

\* The sessions that end leave typed session variables behind.
LEMMA DropType ==
  ASSUME TypeOK, NEW S, Drop(S)
  PROVE  /\ conn' \in [Sock -> Device \cup {None}]
         /\ inflight' \in [Sock -> SUBSET Nat]
         /\ pressed' \in [Sock -> BOOLEAN]
         /\ out' \in [Sock -> Seq(Entry)]
BY DEF TypeOK, Drop, Entry
\* A new row is typed and carries the next number.
LEMMA EnqueueOnceType ==
  ASSUME TypeOK, NEW l \in Letter, NEW ttl \in TtlAsked, EnqueueOnce(l, ttl)
  PROVE  /\ envelopes' \subseteq Row
         /\ retries' \in [Letter -> Retry]
         /\ nextSeq' = nextSeq + 1
         /\ \A e \in envelopes' : e.seq < nextSeq'
<1>1. Lifetime(ttl) \in Nat
  BY RelayAssumption DEF Lifetime
<1> DEFINE exp == now + Lifetime(ttl)
           row == [seq |-> nextSeq, letter |-> l, exp |-> exp]
<1>2. exp \in Nat /\ nextSeq \in Nat \ {0}
  BY <1>1 DEF TypeOK
<1>3. row \in Row /\ row.seq = nextSeq
  BY <1>2 DEF Row
<1>4. envelopes' = envelopes \cup {row} /\ nextSeq' = nextSeq + 1
  BY DEF EnqueueOnce
<1>5. \A e \in envelopes : e \in Row /\ e.seq \in Nat /\ e.seq < nextSeq
  BY DEF TypeOK, Row
<1>6. retries' \in [Letter -> Retry]
  BY <1>2 DEF EnqueueOnce, TypeOK, Retry
<1> QED BY <1>2, <1>3, <1>4, <1>5, <1>6

\* TypeOK is inductive: one step per action.
LEMMA TypeOKStep == TypeOK /\ [Next]_vars => TypeOK'
<1> SUFFICES ASSUME TypeOK, [Next]_vars PROVE TypeOK'
  OBVIOUS
<1> USE DEF durable, session
<1>1. ASSUME NEW l \in Letter, NEW ttl \in TtlAsked, EnqueueAndRespond(l, ttl)
      PROVE TypeOK'
  <2>1. CASE AcceptedRetry(l)
    BY <1>1, <2>1 DEF EnqueueAndRespond, TypeOK
  <2>2. CASE ~AcceptedRetry(l)
    <3>1. EnqueueOnce(l, ttl) /\ Deliver(To[l])
      BY <1>1, <2>2 DEF EnqueueAndRespond
    <3>2. Live(nextSeq) \in Entry
      BY DEF Live, Entry, TypeOK
    <3>3. out' \in [Sock -> Seq(Entry)] /\ pressed' \in [Sock -> BOOLEAN]
      <4>1. \A s \in Sock : out[s] \in Seq(Entry)
        BY DEF TypeOK, Entry
      <4>2. \A s \in Sock : Append(out[s], Live(nextSeq)) \in Seq(Entry)
        BY <3>2, <4>1
      <4>3. out' \in [Sock -> Seq(Entry)]
        BY <3>1, <4>1, <4>2 DEF Deliver
      <4>4. pressed' \in [Sock -> BOOLEAN]
        BY <3>1, Zenon DEF Deliver
      <4> QED BY <4>3, <4>4
    <3>4. nextSeq + 1 \in Nat \ {0}
      BY DEF TypeOK
    <3> QED BY <1>1, <2>2, <3>1, <3>3, <3>4, EnqueueOnceType
            DEF EnqueueAndRespond, TypeOK, Row, Retry, Entry
  <2> QED BY <2>1, <2>2
<1>2. ASSUME NEW s \in Sock, NEW d \in Device, OnAuth(s, d)
      PROVE TypeOK'
  <2>1. PICK p \in BOOLEAN : DrainQueue(s, d, envelopes, p)
    BY <1>2 DEF OnAuth
  <2>2. envelopes \in SUBSET envelopes
    OBVIOUS
  <2>3. /\ inflight' \in [Sock -> SUBSET Nat]
        /\ pressed' \in [Sock -> BOOLEAN]
        /\ out' \in [Sock -> Seq(Entry)]
    BY <2>1, <2>2, DrainQueueType
  <2> QED BY <1>2, <2>3 DEF OnAuth, TypeOK, Entry
<1>3. ASSUME NEW s \in Sock, NEW id \in 1 .. nextSeq - 1, OnAck(s, id)
      PROVE TypeOK'
  <2> DEFINE rest == {e \in envelopes : e.seq # id \/ Recipient(e) # conn[s]}
  <2>1. rest \in SUBSET envelopes /\ envelopes' = rest
    BY <1>3 DEF OnAck
  <2>2. pressed[s] \in BOOLEAN /\ inflight[s] \ {id} \in SUBSET Nat
    BY DEF TypeOK
  <2>3. /\ inflight' \in [Sock -> SUBSET Nat]
        /\ pressed' \in [Sock -> BOOLEAN]
        /\ out' \in [Sock -> Seq(Entry)]
    <3>1. CASE DrainQueue(s, conn[s], rest, pressed[s])
      BY <2>1, <2>2, <3>1, DrainQueueType
    <3>2. CASE /\ inflight' = [inflight EXCEPT ![s] = @ \ {id}]
               /\ UNCHANGED <<out, pressed>>
      BY <2>2, <3>2 DEF TypeOK, Entry
    <3> QED BY <1>3, <3>1, <3>2 DEF OnAck, TypeOK
  <2> QED BY <1>3, <2>1, <2>3 DEF OnAck, TypeOK, Entry
<1>4. ASSUME NEW s \in Sock, NEW p \in BOOLEAN, HandleDrain(s, p)
      PROVE TypeOK'
  <2>1. envelopes \in SUBSET envelopes
    OBVIOUS
  <2>2. CASE DrainQueue(s, conn[s], envelopes, p)
    <3>1. /\ inflight' \in [Sock -> SUBSET Nat]
          /\ pressed' \in [Sock -> BOOLEAN]
          /\ out' \in [Sock -> Seq(Entry)]
      BY <2>1, <2>2, DrainQueueType
    <3> QED BY <1>4, <3>1 DEF HandleDrain, TypeOK, Entry
  <2>3. CASE pressed' = [pressed EXCEPT ![s] = p] /\ UNCHANGED <<inflight, out>>
    BY <1>4, <2>3 DEF HandleDrain, TypeOK
  <2> QED BY <1>4, <2>2, <2>3 DEF HandleDrain
<1>5. ASSUME NEW s \in Sock, HandleClose(s)
      PROVE TypeOK'
  BY <1>5, DropType DEF HandleClose, TypeOK, Entry
<1>6. ASSUME NEW D \in SUBSET Device, Revoke(D)
      PROVE TypeOK'
  BY <1>6, DropType DEF Revoke, TypeOK, Entry
<1>7. CASE Tick
  BY <1>7 DEF Tick, TypeOK
<1>8. CASE Sweep
  BY <1>8 DEF Sweep, TypeOK, NoRetry
<1>9. CASE Restart
  BY <1>9, DropType DEF Restart, TypeOK, Entry
<1>10. CASE UNCHANGED vars
  BY <1>10 DEF vars, TypeOK
<1>11. \A s \in Sock : ActiveDevices(Owner[conn[s]]) \in SUBSET Device
  BY DEF ActiveDevices
<1> QED
  BY <1>1, <1>2, <1>3, <1>4, <1>5, <1>6, <1>7, <1>8, <1>9, <1>10, <1>11
  DEF Next, Sending, OnSend, OnSendAnon, OnDeviceRevoke, OnDeviceRevokeOthers

\* TypeOK in every reachable state.
THEOREM TypeCorrect == Spec => []TypeOK
<1>1. Init => TypeOK
  BY DEF Init, TypeOK, NoRetry
<1> QED BY <1>1, TypeOKStep, PTL DEF Spec
-----------------------------------------------------------------------------
(* One live copy.  OneLiveCopy is not inductive: an acknowledged letter has  *)
(* no row, and only its retry record keeps it from being stored again.  The  *)
(* strengthening ties every unexpired row to the retry record of its letter. *)

Remembered ==
  \A e \in envelopes :
    e.exp > now => retries[e.letter] = [id |-> e.seq, exp |-> e.exp]

IInv == TypeOK /\ Remembered

\* Two rows with one retry record are one row.
LEMMA RememberedOnce == IInv => OneLiveCopy
<1> SUFFICES ASSUME IInv, NEW e \in envelopes, NEW f \in envelopes,
                    e.letter = f.letter, e.exp > now, f.exp > now
             PROVE  e = f
  BY DEF OneLiveCopy
<1>1. e \in Row /\ f \in Row
  BY DEF IInv, TypeOK, Row
<1>2. [id |-> e.seq, exp |-> e.exp] = [id |-> f.seq, exp |-> f.exp]
  BY DEF IInv, Remembered
<1>3. e.seq = f.seq /\ e.exp = f.exp
  BY <1>2
<1> QED BY <1>1, <1>3 DEF Row

\* A step that only removes rows, and leaves the retry records and the clock.
LEMMA RememberedFewer ==
  ASSUME Remembered, envelopes' \subseteq envelopes, UNCHANGED <<retries, now>>
  PROVE  Remembered'
BY DEF Remembered

\* A new row is stored with its retry record; a row of the same letter can
\* only have expired.
LEMMA RememberedEnqueue ==
  ASSUME IInv, NEW l \in Letter, NEW ttl \in TtlAsked, ~AcceptedRetry(l),
         EnqueueOnce(l, ttl), UNCHANGED now
  PROVE  Remembered'
<1> DEFINE row == [seq |-> nextSeq, letter |-> l, exp |-> now + Lifetime(ttl)]
<1> SUFFICES ASSUME NEW e \in envelopes', e.exp > now
             PROVE  retries'[e.letter] = [id |-> e.seq, exp |-> e.exp]
  BY DEF Remembered
<1>1. retries' = [retries EXCEPT ![l] = [id |-> row.seq, exp |-> row.exp]]
  BY DEF EnqueueOnce
<1>2. retries \in [Letter -> Retry]
  BY DEF IInv, TypeOK, Retry
<1>3. CASE e = row
  BY <1>1, <1>2, <1>3
<1>4. CASE e \in envelopes
  <2>1. retries[e.letter] = [id |-> e.seq, exp |-> e.exp]
    BY <1>4 DEF IInv, Remembered
  <2>2. e.letter # l
    BY <2>1 DEF AcceptedRetry
  <2> QED BY <1>1, <1>2, <2>1, <2>2
<1> QED BY <1>3, <1>4 DEF EnqueueOnce

\* IInv is inductive.
LEMMA IInvStep == IInv /\ [Next]_vars => IInv'
<1> SUFFICES ASSUME IInv, [Next]_vars PROVE Remembered'
  BY TypeOKStep DEF IInv
<1> USE DEF durable, session
<1>1. ASSUME NEW l \in Letter, NEW ttl \in TtlAsked, EnqueueAndRespond(l, ttl)
      PROVE Remembered'
  <2>1. CASE AcceptedRetry(l)
    BY <1>1, <2>1, RememberedFewer DEF EnqueueAndRespond, IInv
  <2>2. CASE ~AcceptedRetry(l)
    BY <1>1, <2>2, RememberedEnqueue DEF EnqueueAndRespond
  <2> QED BY <2>1, <2>2
<1>2. ASSUME NEW s \in Sock, NEW d \in Device, OnAuth(s, d)
      PROVE Remembered'
  BY <1>2, RememberedFewer DEF OnAuth, IInv
<1>3. ASSUME NEW s \in Sock, NEW id \in 1 .. nextSeq - 1, OnAck(s, id)
      PROVE Remembered'
  BY <1>3, RememberedFewer DEF OnAck, IInv
<1>4. ASSUME NEW s \in Sock, NEW p \in BOOLEAN, HandleDrain(s, p)
      PROVE Remembered'
  BY <1>4, RememberedFewer DEF HandleDrain, IInv
<1>5. ASSUME NEW s \in Sock, HandleClose(s)
      PROVE Remembered'
  BY <1>5, RememberedFewer DEF HandleClose, IInv
<1>6. ASSUME NEW D, Revoke(D)
      PROVE Remembered'
  BY <1>6, RememberedFewer DEF Revoke, IInv
<1>7. CASE Tick
  BY <1>7 DEF Tick, Remembered, IInv, TypeOK
<1>8. CASE Sweep
  <2>1. \A e \in envelopes : e.letter \in Letter
    BY DEF IInv, TypeOK
  <2> QED BY <1>8, <2>1 DEF Sweep, Remembered, IInv, AcceptedRetry
<1>9. CASE Restart
  BY <1>9, RememberedFewer DEF Restart, IInv
<1>10. CASE UNCHANGED vars
  BY <1>10, RememberedFewer DEF vars, IInv
<1> QED
  BY <1>1, <1>2, <1>3, <1>4, <1>5, <1>6, <1>7, <1>8, <1>9, <1>10
  DEF Next, Sending, OnSend, OnSendAnon, OnDeviceRevoke, OnDeviceRevokeOthers

\* The inductive invariant in every reachable state.
LEMMA IInvAlways == Spec => []IInv
<1>1. Init => IInv
  BY DEF Init, IInv, TypeOK, Remembered, NoRetry
<1> QED BY <1>1, IInvStep, PTL DEF Spec

\* A letter sent again, whenever and however often, has one unexpired row.
THEOREM OneCopy == Spec => []OneLiveCopy
BY IInvAlways, RememberedOnce, PTL

-----------------------------------------------------------------------------
(* Revocation *)

\* No step leaves a session to a device that is not active.
LEMMA SessionStep ==
  TypeOK /\ NoSessionAfterRevocation /\ [Next]_vars => NoSessionAfterRevocation'
<1> SUFFICES ASSUME TypeOK, NoSessionAfterRevocation, [Next]_vars
             PROVE  NoSessionAfterRevocation'
  OBVIOUS
<1> USE DEF durable, session, NoSessionAfterRevocation
<1>1. CASE UNCHANGED <<conn, status>>
  BY <1>1
<1>2. ASSUME NEW s \in Sock, NEW d \in Device, OnAuth(s, d)
      PROVE  NoSessionAfterRevocation'
  BY <1>2 DEF OnAuth, TypeOK
<1>3. ASSUME NEW S, Drop(S), UNCHANGED status
      PROVE  NoSessionAfterRevocation'
  BY <1>3 DEF Drop, TypeOK
<1>4. ASSUME NEW D, Revoke(D)
      PROVE  NoSessionAfterRevocation'
  BY <1>4 DEF Revoke, Drop, TypeOK
<1>5. ASSUME NEW l, NEW ttl, EnqueueAndRespond(l, ttl)
      PROVE  UNCHANGED <<conn, status>>
  BY <1>5 DEF EnqueueAndRespond
<1>6. ASSUME NEW s, NEW id, OnAck(s, id)
      PROVE  UNCHANGED <<conn, status>>
  BY <1>6 DEF OnAck
<1>7. ASSUME NEW s, NEW p, HandleDrain(s, p)
      PROVE  UNCHANGED <<conn, status>>
  BY <1>7 DEF HandleDrain
<1>8. CASE Tick \/ Sweep
  BY <1>1, <1>8 DEF Tick, Sweep
<1>9. CASE Restart
  BY <1>3, <1>9 DEF Restart
<1>10. CASE UNCHANGED vars
  BY <1>1, <1>10 DEF vars
<1>11. ASSUME NEW s \in Sock, HandleClose(s)
      PROVE  NoSessionAfterRevocation'
  BY <1>3, <1>11 DEF HandleClose
<1> QED
  BY <1>1, <1>2, <1>4, <1>5, <1>6, <1>7, <1>8, <1>9, <1>10, <1>11
  DEF Next, Sending, OnSend, OnSendAnon, OnDeviceRevoke, OnDeviceRevokeOthers

\* A revoked device has no session, and never gets one again.
THEOREM RevocationEndsSessions == Spec => []NoSessionAfterRevocation
<1>1. Init => NoSessionAfterRevocation
  BY DEF Init, NoSessionAfterRevocation
<1> QED BY <1>1, SessionStep, TypeCorrect, PTL DEF Spec
-----------------------------------------------------------------------------
(* The relay implements Mailbox *)

\* A step that changes neither what is held nor what is remembered.
LEMMA SameSlots ==
  ASSUME \A l \in Letter : Held(l)' = Held(l) /\ Kept(l)' = Kept(l),
         \A l \in Letter : Kept(l) => retries'[l].exp = retries[l].exp,
         UNCHANGED <<now, told>>
  PROVE  UNCHANGED Promise!mvars
BY DEF Slot, Until, Promise!mvars

\* A step that only removes rows settles the letters whose rows it removed.
LEMMA FewerRowsSettle ==
  ASSUME envelopes' \subseteq envelopes, UNCHANGED <<retries, now, told>>
  PROVE  Promise!Next
<1> DEFINE L == {l \in Letter : Slot[l] = "held" /\ Slot'[l] # "held"}
<1>1. \A l \in Letter : Kept(l)' = Kept(l)
  BY DEF Kept
<1>2. \A l \in Letter : Held(l)' => Held(l)
  BY DEF Held
<1>3. \A l \in Letter : Slot'[l] = IF l \in L THEN "done" ELSE Slot[l]
  BY <1>1, <1>2 DEF Slot
<1>4. Slot' = [l \in Letter |-> IF l \in L THEN "done" ELSE Slot[l]]
  BY <1>3 DEF Slot
<1>5. Until' = Until
  BY <1>1 DEF Until
<1>6. Promise!Settle(L)
  BY <1>4, <1>5 DEF Promise!Settle
<1> QED BY <1>6 DEF Promise!Next

\* SEND and SEND_ANON take the letter in, or confirm it again.
LEMMA SendKeepsPromise ==
  ASSUME IInv, NEW l \in Letter, NEW ttl \in TtlAsked, EnqueueAndRespond(l, ttl)
  PROVE  Promise!Next
<1> USE DEF durable, session
<1>1. CASE Kept(l)
  <2>1. UNCHANGED <<envelopes, retries, now>> /\ told' = told \cup {l}
    BY <1>1 DEF EnqueueAndRespond, AcceptedRetry, Kept
  <2>2. Slot' = Slot /\ Until' = Until
    BY <2>1 DEF Slot, Until, Kept, Held
  <2>3. Slot[l] # "free"
    BY <1>1 DEF Slot
  <2> QED BY <2>1, <2>2, <2>3 DEF Promise!Confirm, Promise!Next
<1>2. CASE ~Kept(l)
  <2> DEFINE exp == now + Lifetime(ttl)
             row == [seq |-> nextSeq, letter |-> l, exp |-> exp]
  <2>1. /\ envelopes' = envelopes \cup {row}
        /\ retries' = [retries EXCEPT ![l] = [id |-> nextSeq, exp |-> exp]]
        /\ now' = now
        /\ told' = told \cup {l}
    BY <1>2 DEF EnqueueAndRespond, EnqueueOnce, AcceptedRetry, Kept
  <2>2. exp > now /\ exp \in now + 1 .. now + MaxTtl
    <3>1. Lifetime(ttl) \in 1 .. MaxTtl
      BY RelayAssumption DEF Lifetime
    <3>2. now \in Nat /\ MaxTtl \in Nat
      BY RelayAssumption DEF IInv, TypeOK
    <3>3. \A k \in 1 .. MaxTtl : now + k > now /\ now + k \in now + 1 .. now + MaxTtl
      BY <3>2
    <3> QED BY <3>1, <3>3
  <2>3. retries \in [Letter -> Retry]
    BY DEF IInv, TypeOK, Retry
  <2>4. Kept(l)' /\ Held(l)'
    <3>1. retries'[l].exp = exp
      BY <2>1, <2>3
    <3>2. row \in envelopes' /\ row.letter = l /\ row.exp = exp
      BY <2>1
    <3>3. Kept(l)'
      BY <2>1, <2>2, <3>1 DEF Kept
    <3>4. Held(l)'
      BY <2>1, <2>2, <3>2 DEF Held
    <3> QED BY <3>3, <3>4
  <2>5. ASSUME NEW k \in Letter, k # l
        PROVE  Kept(k)' = Kept(k) /\ Held(k)' = Held(k)
    <3>1. Kept(k)' = Kept(k)
      BY <2>1, <2>3, <2>5 DEF Kept
    <3>2. Held(k)' = Held(k)
      BY <2>1, <2>5 DEF Held
    <3> QED BY <3>1, <3>2
  <2>6. Slot[l] = "free" /\ Slot' = [Slot EXCEPT ![l] = "held"]
    BY <1>2, <2>4, <2>5 DEF Slot
  <2>7. Until' = [Until EXCEPT ![l] = exp]
    BY <2>1, <2>3, <2>4, <2>5 DEF Until
  <2> QED BY <2>1, <2>2, <2>6, <2>7 DEF Promise!Accept, Promise!Next
<1> QED BY <1>1, <1>2

\* Time passes: letters are forgotten exactly when their retention ends.
LEMMA TickKeepsPromise == IInv /\ Tick => Promise!Next
<1> SUFFICES ASSUME IInv, Tick PROVE Promise!Next
  OBVIOUS
<1> USE DEF durable, session
<1>1. UNCHANGED <<envelopes, retries, told>> /\ now' = now + 1 /\ now \in Nat
  BY DEF Tick, IInv, TypeOK
<1>2. \A l \in Letter : retries[l].exp \in Nat
  BY DEF IInv, TypeOK
<1>3. \A l \in Letter : Kept(l)' => Kept(l)
  BY <1>1, <1>2 DEF Kept
<1>4. ASSUME NEW l \in Letter, Kept(l)'
      PROVE  Held(l)' = Held(l)
  <2>1. \A e \in envelopes : e.exp \in Nat
    BY DEF IInv, TypeOK
  <2>2. ASSUME NEW e \in envelopes, e.letter = l, e.exp > now
        PROVE  e.exp > now'
    <3>0. Remembered
      BY DEF IInv
    <3>1. retries[e.letter] = [id |-> e.seq, exp |-> e.exp]
      BY <2>2, <3>0 DEF Remembered
    <3>2. retries'[l].exp > now'
      BY <1>4 DEF Kept
    <3>3. retries' = retries
      BY <1>1
    <3> QED BY <2>2, <3>1, <3>2, <3>3
  <2>3. \A e \in envelopes : e.exp > now' => e.exp > now
    BY <1>1, <2>1
  <2>4. envelopes' = envelopes
    BY <1>1
  <2> QED BY <2>2, <2>3, <2>4 DEF Held
<1>5. \A l \in Letter : Kept(l)' <=> Until[l] > now'
  BY <1>1, <1>2, <1>3 DEF Until, Kept
<1>6. Slot' = [l \in Letter |-> IF Until[l] > now' THEN Slot[l] ELSE "free"]
  BY <1>3, <1>4, <1>5 DEF Slot
<1>7. Until' = [l \in Letter |-> IF Until[l] > now' THEN Until[l] ELSE 0]
  BY <1>1, <1>3, <1>5 DEF Until
<1>8. Promise!Pass
  BY <1>1, <1>6, <1>7 DEF Promise!Pass
<1> QED BY <1>8 DEF Promise!Next

\* Only what has expired is swept.
LEMMA SweepKeepsPromise == IInv /\ Sweep => UNCHANGED Promise!mvars
<1> SUFFICES ASSUME IInv, Sweep PROVE UNCHANGED Promise!mvars
  OBVIOUS
<1> USE DEF durable, session
<1>1. UNCHANGED <<now, told>>
  BY DEF Sweep
<1>2. ASSUME NEW l \in Letter PROVE Held(l)' = Held(l)
  BY <1>1 DEF Sweep, Held
<1>3. ASSUME NEW l \in Letter PROVE Kept(l)' = Kept(l)
  <2>1. now \in Nat
    BY DEF IInv, TypeOK
  <2>2. CASE Kept(l)
    BY <1>1, <2>2 DEF Sweep, AcceptedRetry, Kept
  <2>3. CASE ~Kept(l)
    BY <1>1, <2>1, <2>3 DEF Sweep, AcceptedRetry, Kept, NoRetry
  <2> QED BY <2>2, <2>3
<1>4. ASSUME NEW l \in Letter, Kept(l) PROVE retries'[l].exp = retries[l].exp
  BY <1>4 DEF Sweep, AcceptedRetry, Kept
<1> QED BY <1>1, <1>2, <1>3, <1>4, SameSlots

\* Every step of the relay is a step of Mailbox or stutters in it.
LEMMA PromiseStep == IInv /\ [Next]_vars => [Promise!Next]_(Promise!mvars)
<1> SUFFICES ASSUME IInv, [Next]_vars
             PROVE  Promise!Next \/ UNCHANGED Promise!mvars
  OBVIOUS
<1> USE DEF durable, session
<1>1. ASSUME NEW s, NEW d, OnAuth(s, d)
      PROVE  Promise!Next
  BY <1>1, FewerRowsSettle DEF OnAuth
<1>2. ASSUME NEW s, NEW id, OnAck(s, id)
      PROVE  Promise!Next
  BY <1>2, FewerRowsSettle DEF OnAck
<1>3. ASSUME NEW s, NEW p, HandleDrain(s, p)
      PROVE  Promise!Next
  BY <1>3, FewerRowsSettle DEF HandleDrain
<1>4. ASSUME NEW s, HandleClose(s)
      PROVE  Promise!Next
  BY <1>4, FewerRowsSettle DEF HandleClose
<1>5. ASSUME NEW D, Revoke(D)
      PROVE  Promise!Next
  BY <1>5, FewerRowsSettle DEF Revoke
<1>6. CASE Restart
  BY <1>6, FewerRowsSettle DEF Restart
<1>7. CASE UNCHANGED vars
  BY <1>7, FewerRowsSettle DEF vars
<1> QED
  BY <1>1, <1>2, <1>3, <1>4, <1>5, <1>6, <1>7,
     SendKeepsPromise, TickKeepsPromise, SweepKeepsPromise
  DEF Next, Sending, OnSend, OnSendAnon, OnDeviceRevoke, OnDeviceRevokeOthers

\* What the relay does with rows, retry records, sockets and timers is, to a
\* sender, Mailbox: taken in once, held until settled, remembered
\* exactly as long as its retention lasts, confirmed only then.
THEOREM RelayKeepsPromise == Spec => PromiseKept
<1>1. Init => Promise!Init
  BY RelayAssumption DEF Init, Promise!Init, Slot, Until, Kept, NoRetry
<1> QED BY <1>1, PromiseStep, IInvAlways, PTL
        DEF Spec, PromiseKept, Promise!Spec

=============================================================================

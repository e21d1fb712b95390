-------------------------------- MODULE Gate --------------------------------
(* The sockets of the relay up to AUTH: the caps on connections, one-time    *)
(* challenges, what lets a new identity in, media sockets and tickets        *)
(* (valanium-server/src/ws/session.ts, auth/nonce.ts, util/connections.ts),  *)
(* over Payments, Rooms and Tickets.                                         *)
(*                                                                          *)
(* A handler is one step; `sock.end` runs the close handler within it, and   *)
(* so ends the other socket of a call.                                       *)
EXTENDS Payments, Rooms, Tickets

CONSTANTS
    Socket, Ip, IpOf,
    MaxPerIp,     \* maxConnectionsPerIp
    MaxUnnamed,   \* maxUnauthenticatedConnections
    MaxTries,     \* maxAuthAttemptsPerConn
    NonceTtl, MaxNonces,
    MaxNonce      \* bound of a model: challenges ever issued

ASSUME GateAssumption ==
    /\ IpOf \in [Socket -> Ip] /\ Nobody \notin Person \union Socket
    /\ {MaxPerIp, MaxUnnamed, MaxTries, NonceTtl, MaxNonces, MaxNonce} \subseteq Nat

VARIABLES
    sockets,   \* ConnData of the connections that were counted and are open
    perIp,     \* ConnectionCounter.#open
    unnamed,   \* ConnectionCounter.#unauthenticated
    issued,    \* NonceStore.#issued: when each challenge expires
    nextNonce  \* random(32)

counters == <<perIp, unnamed>>
gateVars == <<sockets, perIp, unnamed, issued, nextNonce>>
entryVars == <<payVars, gateVars>>
vars == <<entryVars, roomVars, ticketVars>>

Fresh(n) == n \in DOMAIN issued /\ issued[n] > clock
Registered(u) == u \in DOMAIN users

-----------------------------------------------------------------------------
(* NonceStore.                                                              *)

Alive(iss) == Restrict(iss, {n \in DOMAIN iss : iss[n] > clock})
Without(iss, n) == Restrict(iss, DOMAIN iss \ {n})
Spare(iss) == IF Cardinality(DOMAIN iss) >= MaxNonces THEN Alive(iss) ELSE iss
Full(iss) == Cardinality(DOMAIN Spare(iss)) >= MaxNonces
With(iss) == Put(Spare(iss), nextNonce, clock + NonceTtl)

-----------------------------------------------------------------------------
(* ConnectionCounter, handleOpen and handleClose.                           *)

Unnamed(S) == Cardinality({s \in S : sockets[s].anonymous})
Ended(S) ==
    /\ sockets' = Restrict(sockets, DOMAIN sockets \ S)
    /\ perIp' = [ip \in Ip |-> perIp[ip] - Cardinality({s \in S : IpOf[s] = ip})]

\* Mutant: the socket that leaves is still counted as unnamed.
Leave_Unnamed(s) ==
    /\ Ended(Parted({s})) /\ CloseRooms(RoomsOf({s}))
    /\ UNCHANGED unnamed

\* Mutant: the room is not told that the socket is gone.
Leave_Seated(s) == Ended({s}) /\ unnamed' = unnamed - Unnamed({s}) /\ UNCHANGED roomVars

\* handleClose: a call is left by both. (settled() stops at zero.)
Leave(s) ==
    /\ Ended(Parted({s})) /\ CloseRooms(RoomsOf({s}))
    /\ unnamed' = unnamed - Unnamed(Parted({s}))

\* The client leaves, or the server ends the socket: too many attempts, the
\* limit per address, a frame that the state of the connection does not allow,
\* media that are too much, too large, or cannot be passed on.
Close(s) == /\ s \in DOMAIN sockets
            /\ Leave(s)
            /\ UNCHANGED <<payVars, issued, nextNonce, ticketVars>>

\* handleOpen. A refused connection leaves no trace: the cap per address is
\* checked before it is counted, the other two after, and its close handler
\* takes it out of both counters again.
Open(s) ==
    /\ s \notin DOMAIN sockets
    /\ perIp[IpOf[s]] < MaxPerIp /\ unnamed + 1 <= MaxUnnamed
    /\ nextNonce <= MaxNonce /\ ~Full(issued)
    /\ sockets' = Put(sockets, s, [anonymous |-> TRUE, nonce |-> nextNonce, tries |-> 0,
                                   who |-> Nobody, ref |-> 0, told |-> FALSE])
    /\ perIp' = [perIp EXCEPT ![IpOf[s]] = @ + 1]
    /\ unnamed' = unnamed + 1
    /\ issued' = With(issued) /\ nextNonce' = nextNonce + 1
    /\ UNCHANGED <<payVars, roomVars, ticketVars>>

\* The nonce store is full: the connection is counted, ended and taken out.
OpenBusy(s) ==
    /\ s \notin DOMAIN sockets
    /\ perIp[IpOf[s]] < MaxPerIp /\ unnamed + 1 <= MaxUnnamed
    /\ Full(issued) /\ issued' = Spare(issued)
    /\ UNCHANGED <<payVars, sockets, counters, nextNonce, roomVars, ticketVars>>

-----------------------------------------------------------------------------
(* AUTH and PAY_REQUEST: rateOk, checkCredentials, then the answer. `iss` is *)
(* what is left of the challenges once the connection's was consumed.       *)

\* Mutant: the refused connection gets no other challenge.
Refuse_Mute(s, c, iss) == /\ sockets' = [sockets EXCEPT ![s] = c]
                          /\ issued' = iss /\ UNCHANGED <<counters, nextNonce, roomVars>>

\* authFail: the connection gets another challenge, or is closed.
Refuse(s, c, iss) ==
    IF Full(iss) THEN Leave(s) /\ issued' = Spare(iss) /\ UNCHANGED nextNonce
    ELSE /\ nextNonce <= MaxNonce
         /\ sockets' = [sockets EXCEPT ![s] = [c EXCEPT !.nonce = nextNonce]]
         /\ issued' = With(iss) /\ nextNonce' = nextNonce + 1
         /\ UNCHANGED <<counters, roomVars>>

Asking(s) == s \in DOMAIN sockets /\ ~Joined(s) /\ sockets[s].who = Nobody
Tried(s) == [sockets[s] EXCEPT !.tries = @ + 1]
TooMany(s) == sockets[s].tries + 1 > MaxTries
Challenged(s) == Fresh(sockets[s].nonce)
Answered(s) == [Tried(s) EXCEPT !.nonce = 0]

\* A stale challenge; or a wrong key or signature under a fresh one.
AuthRefused(s) ==
    /\ Asking(s) /\ ~TooMany(s)
    /\ Refuse(s, IF Challenged(s) THEN Answered(s) ELSE Tried(s), Without(issued, sockets[s].nonce))
    /\ UNCHANGED <<payVars, ticketVars>>

\* The credentials are right, the invite or invoice is not.
AdmitRefused(s, u, t) ==
    /\ Asking(s) /\ ~TooMany(s) /\ Challenged(s)
    /\ ~Registered(u) /\ ~Entitled(u, t)
    /\ Refuse(s, Answered(s), Without(issued, sockets[s].nonce))
    /\ UNCHANGED <<payVars, ticketVars>>

\* Mutant: the socket that named itself is settled, and keeps its mark.
Named_Marked(s, u) ==
    /\ sockets' = [sockets EXCEPT ![s] = [Answered(s) EXCEPT !.who = u, !.ref = 0]]
    /\ unnamed' = IF sockets[s].anonymous THEN unnamed - 1 ELSE unnamed

Named(s, u) ==
    /\ sockets' = [sockets EXCEPT ![s] = [Answered(s) EXCEPT !.who = u, !.anonymous = FALSE, !.ref = 0]]
    /\ unnamed' = IF sockets[s].anonymous THEN unnamed - 1 ELSE unnamed

OnAuth(s, u) ==
    /\ Asking(s) /\ ~TooMany(s) /\ Challenged(s)
    /\ \/ Registered(u) /\ UNCHANGED <<users, invites, invoices>>
       \/ ~Registered(u) /\ \E t \in Invite \union DOMAIN invoices : Admit(u, t)
    /\ issued' = Without(issued, sockets[s].nonce)
    /\ Named(s, u)
    /\ UNCHANGED <<clock, nextRef, chain, cursor, scan, skipped, spilled, perIp, nextNonce,
                   roomVars, ticketVars>>

\* onPayRequest: an invoice and a challenge for the AUTH that follows; who is
\* registered already is told so, and gets none.
OnPayRequest(s, u) ==
    /\ Asking(s) /\ ~TooMany(s) /\ Challenged(s)
    /\ LET left == Without(issued, sockets[s].nonce) IN
       \/ /\ Registered(u)
          /\ issued' = left
          /\ sockets' = [sockets EXCEPT ![s] = [Answered(s) EXCEPT !.told = TRUE]]
          /\ UNCHANGED <<invoices, nextRef, counters, nextNonce, roomVars>>
       \/ /\ ~Registered(u)
          /\ Bill(u)
          /\ \E r \in DOMAIN invoices' :
                /\ invoices'[r].who = u /\ invoices'[r].ends > clock
                /\ Refuse(s, [Answered(s) EXCEPT !.ref = r], left)
    /\ UNCHANGED <<clock, invites, users, chain, cursor, scan, skipped, spilled, ticketVars>>

-----------------------------------------------------------------------------
(* Media sockets, and anonymous sends.                                      *)

\* CALL_JOIN: a media socket needs no name, and gives its challenge back. The
\* sockets of rooms that have expired are ended by the same frame.
CallJoin(s, id, role) ==
    /\ Asking(s)
    /\ Join(s, id, role, clock)
    /\ sockets' = [Restrict(sockets, DOMAIN sockets \ Swept(clock))
                      EXCEPT ![s] = [@ EXCEPT !.nonce = 0, !.anonymous = FALSE]]
    /\ perIp' = [ip \in Ip |-> perIp[ip] - Cardinality({q \in Swept(clock) : IpOf[q] = ip})]
    /\ unnamed' = unnamed - Unnamed({s} \union Swept(clock))
    /\ issued' = Without(issued, sockets[s].nonce)
    /\ UNCHANGED <<payVars, nextNonce, ticketVars>>

CallJoinRefused(s, id, role) ==
    LET out == Swept(clock) \union {s} IN
    /\ Asking(s) /\ ~Joins(s, id, role, clock)
    /\ Ended(out) /\ CloseRooms(Stale(clock))
    /\ unnamed' = unnamed - Unnamed(out)
    /\ UNCHANGED <<payVars, issued, nextNonce, ticketVars>>

CallMedia(s) ==
    /\ Media(s, clock)
    /\ UNCHANGED <<entryVars, ticketVars>>

SweepRooms ==
    /\ Stale(clock) # {}
    /\ CloseRooms(Stale(clock)) /\ Ended(Swept(clock))
    /\ unnamed' = unnamed - Unnamed(Swept(clock))
    /\ UNCHANGED <<payVars, issued, nextNonce, ticketVars>>

OnTicketRequest(s) ==
    /\ s \in DOMAIN sockets /\ sockets[s].who # Nobody
    /\ Issue(clock)
    /\ UNCHANGED <<entryVars, roomVars>>

\* SEND_ANON up to the answer of the ticket; what follows is in Relay.
OnSendAnon(s, t) ==
    /\ s \in DOMAIN sockets /\ ~Joined(s)
    /\ Redeem(t, clock) \/ Refused(t, clock)
    /\ UNCHANGED <<entryVars, roomVars>>

-----------------------------------------------------------------------------
\* The process ends: sockets, challenges, rooms and spent tickets are in memory only.
Forget ==
    /\ rooms' = << >> /\ members' = << >> /\ ForgetSpent
    /\ sockets' = << >> /\ perIp' = [ip \in Ip |-> 0] /\ unnamed' = 0
    /\ issued' = << >> /\ UNCHANGED nextNonce

Restart ==
    /\ scan' = Idle /\ Forget
    /\ UNCHANGED <<clock, invoices, nextRef, invites, users, chain, cursor, skipped, spilled>>

CrashInScan == \E h \in 0 .. Len(chain), k \in 0 .. MaxTx : SettleCut(h, k) /\ Forget

CrashInAuth(s, u) ==
    /\ Asking(s) /\ ~TooMany(s) /\ Challenged(s) /\ ~Registered(u)
    /\ \E t \in Invite \union DOMAIN invoices : AdmitCut(u, t)
    /\ scan' = Idle /\ Forget
    /\ UNCHANGED <<clock, nextRef, chain, cursor, skipped>>

Init ==
    /\ PayInit /\ RoomsInit /\ TicketsInit
    /\ sockets = << >> /\ perIp = [ip \in Ip |-> 0] /\ unnamed = 0
    /\ issued = << >> /\ nextNonce = 1

\* The cleanup timer. (SweepRooms has a timer of its own.)
SweepMemory == /\ issued' = Alive(issued)
               /\ SweepSpent(clock)
               /\ UNCHANGED <<payVars, sockets, counters, nextNonce, roomVars>>

Next ==
    \/ \E s \in Socket :
         \/ Open(s) \/ OpenBusy(s) \/ Close(s) \/ AuthRefused(s)
         \/ CallMedia(s) \/ OnTicketRequest(s)
         \/ \E id \in Room, role \in Role : CallJoin(s, id, role) \/ CallJoinRefused(s, id, role)
         \/ \E t \in DOMAIN tickets : OnSendAnon(s, t)
         \/ \E u \in Person :
              \/ OnAuth(s, u) \/ OnPayRequest(s, u) \/ CrashInAuth(s, u)
              \/ \E t \in Invite \union DOMAIN invoices : AdmitRefused(s, u, t)
    \/ Watch /\ UNCHANGED <<gateVars, roomVars, ticketVars>>
    \/ SweepRooms \/ SweepMemory \/ Restart \/ CrashInScan

Spec == Init /\ [][Next]_vars
-----------------------------------------------------------------------------
\* The types of the sockets and the challenges, beside those of Payments.
TypeOK ==
    /\ PayTypeOK /\ RoomsTypeOK /\ TicketsTypeOK
    /\ \A s \in DOMAIN sockets :
          /\ s \in Socket
          /\ sockets[s] \in [anonymous : BOOLEAN, nonce : 0 .. nextNonce - 1, tries : 0 .. MaxTries,
                             who : Person \union {Nobody}, ref : 0 .. nextRef - 1, told : BOOLEAN]
    /\ DOMAIN issued \subseteq 1 .. nextNonce - 1
    /\ Cardinality(DOMAIN issued) <= MaxNonces

\* Each socket is counted once, as long as it is open, and as unnamed until it
\* names itself or joins a call; so the caps hold for the sockets there are. And the
\* seats of the rooms agree with the members, which are open sockets: a call that
\* ends, for whatever reason, leaves nothing behind.
CountersTrue ==
    /\ TypeOK
    /\ \A ip \in Ip :
          /\ perIp[ip] = Cardinality({s \in DOMAIN sockets : IpOf[s] = ip})
          /\ perIp[ip] <= MaxPerIp
    /\ unnamed = Cardinality({s \in DOMAIN sockets : sockets[s].who = Nobody /\ ~Joined(s)})
    /\ unnamed <= MaxUnnamed
    /\ SeatsAgree /\ DOMAIN members \subseteq DOMAIN sockets

\* The comment on authFail: whoever is refused can try again on the same
\* connection, so every unnamed socket holds a challenge that no other one
\* holds (apart from one that was told it is registered already).
CanTryAgain ==
    \A s \in DOMAIN sockets : Asking(s) =>
        /\ sockets[s].nonce # 0 \/ sockets[s].told
        /\ \A q \in DOMAIN sockets \ {s} : sockets[q].nonce = sockets[s].nonce => sockets[s].nonce = 0

\* The door stays open to whoever may still come in: no cap is worn down by
\* sockets that are gone, and no socket is left without a challenge to answer.
StaysOpen == CountersTrue /\ CanTryAgain

\* What opens the door is used once: an invite, a transfer and a ticket.
TokensOnce == OneEntryPerToken /\ TicketOnce
\* Both: no token is used twice, and a payment the cursor has passed was booked.
BookedOnce == TokensOnce /\ PaymentSeen
=============================================================================

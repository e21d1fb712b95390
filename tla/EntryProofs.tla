----------------------------- MODULE EntryProofs -----------------------------
(***************************************************************************)
(* Theorems about Gate and what it is made of: an invite, a transfer or a  *)
(* ticket opens the door once, no payment is passed over or lost, and the  *)
(* counts that limit the door are of the sockets that are there.           *)
(***************************************************************************)
EXTENDS Gate, FiniteSetTheorems, TLAPS

-----------------------------------------------------------------------------
(* Tables and least members                                                *)

\* What a table holds after a row was put into it.
LEMMA PutAt ==
  ASSUME NEW f, NEW k, NEW v
  PROVE  /\ DOMAIN Put(f, k, v) = DOMAIN f \union {k}
         /\ Put(f, k, v)[k] = v
         /\ \A x \in DOMAIN f : x # k => Put(f, k, v)[x] = f[x]
BY DEF Put

\* What is left of a table.
LEMMA RestrictAt ==
  ASSUME NEW f, NEW S
  PROVE  DOMAIN Restrict(f, S) = S /\ \A x \in S : Restrict(f, S)[x] = f[x]
BY DEF Restrict

\* A set of natural numbers that is not empty has a least member, and Min is it.
LEMMA MinIsMember ==
  ASSUME NEW S \in SUBSET Nat, S # {}
  PROVE  Min(S) \in S
<1> DEFINE Less == OpToRel(<, Nat)
<1>1. IsWellFoundedOn(Less, Nat)
  BY NatLessThanWellFounded
<1> HIDE DEF Less
<1>2. PICK x \in S : \A y \in S : <<y, x>> \notin Less
  BY <1>1, WFMin
<1>3. \A y \in S : ~(y < x)
  BY <1>2 DEF Less, OpToRel
<1>4. \A y \in S : x <= y
  BY <1>3
<1> QED BY <1>4 DEF Min

-----------------------------------------------------------------------------
(* What a step does to the tickets and to the payments                     *)

TicketMove ==
  /\ clock' = clock \/ clock' = clock + 1
  /\ \/ UNCHANGED ticketVars
     \/ Issue(clock)
     \/ \E t \in DOMAIN tickets : Redeem(t, clock) \/ Refused(t, clock)
     \/ SweepSpent(clock)
     \/ ForgetSpent

PayMove ==
  \/ UNCHANGED payVars
  \/ \E u \in Person :
       Bill(u) /\ UNCHANGED <<clock, invites, users, chain, cursor, scan, skipped, spilled>>
  \/ \E u \in Person \ DOMAIN users, t \in Invite \union DOMAIN invoices :
       \/ Admit(u, t) /\ UNCHANGED <<clock, nextRef, chain, cursor, scan, skipped, spilled>>
       \/ AdmitCut(u, t) /\ scan' = Idle /\ UNCHANGED <<clock, nextRef, chain, cursor, skipped>>
  \/ \E r \in 0 .. nextRef - 1 : Transfer(r)
  \/ Poll \/ PollFails
  \/ \E h \in 0 .. Len(chain) : Settle(h) \/ \E k \in 0 .. MaxTx : SettleCut(h, k)
  \/ scan' = Idle /\ UNCHANGED <<clock, invoices, nextRef, invites, users, chain, cursor, skipped, spilled>>
  \/ Tick \/ Sweep

\* No action of the relay does more to them than that.
LEMMA NextMoves == [Next]_vars => TicketMove /\ PayMove
<1> SUFFICES ASSUME [Next]_vars PROVE TicketMove /\ PayMove
  OBVIOUS
<1> DEFINE Moves == TicketMove /\ PayMove
<1>1. ASSUME UNCHANGED payVars,
             \/ UNCHANGED ticketVars \/ Issue(clock) \/ SweepSpent(clock) \/ ForgetSpent
             \/ \E t \in DOMAIN tickets : Redeem(t, clock) \/ Refused(t, clock)
      PROVE  Moves
  BY <1>1 DEF TicketMove, PayMove, payVars
<1>2. ASSUME PayMove, clock' = clock, UNCHANGED ticketVars \/ ForgetSpent PROVE Moves
  BY <1>2 DEF TicketMove
<1>3. ASSUME NEW s \in Socket, \/ Open(s) \/ OpenBusy(s) \/ Close(s) \/ AuthRefused(s)
                               \/ CallMedia(s) \/ OnTicketRequest(s)
      PROVE  Moves
  BY <1>1, <1>3 DEF Open, OpenBusy, Close, AuthRefused, CallMedia, OnTicketRequest, entryVars
<1>4. ASSUME NEW s \in Socket, NEW id, NEW role, CallJoin(s, id, role) \/ CallJoinRefused(s, id, role)
      PROVE  Moves
  BY <1>1, <1>4 DEF CallJoin, CallJoinRefused
<1>5. ASSUME NEW s \in Socket, NEW t \in DOMAIN tickets, OnSendAnon(s, t) PROVE Moves
  BY <1>1, <1>5 DEF OnSendAnon, entryVars
<1>6. ASSUME NEW s \in Socket, NEW u \in Person, OnAuth(s, u) PROVE Moves
  <2>1. UNCHANGED ticketVars /\ clock' = clock
    BY <1>6 DEF OnAuth
  <2>2. PayMove
    BY <1>6 DEF OnAuth, PayMove, payVars, Registered
  <2> QED BY <1>2, <2>1, <2>2
<1>7. ASSUME NEW s \in Socket, NEW u \in Person, OnPayRequest(s, u) PROVE Moves
  <2>1. UNCHANGED ticketVars /\ clock' = clock
    BY <1>7 DEF OnPayRequest
  <2>2. PayMove
    BY <1>7 DEF OnPayRequest, PayMove, payVars
  <2> QED BY <1>2, <2>1, <2>2
<1>8. ASSUME NEW s \in Socket, NEW u \in Person, CrashInAuth(s, u) PROVE Moves
  <2>1. ForgetSpent /\ clock' = clock
    BY <1>8 DEF CrashInAuth, Forget
  <2>2. PayMove
    BY <1>8 DEF CrashInAuth, PayMove, Registered
  <2> QED BY <1>2, <2>1, <2>2
<1>9. ASSUME NEW s \in Socket, NEW u \in Person, NEW t, AdmitRefused(s, u, t) PROVE Moves
  BY <1>1, <1>9 DEF AdmitRefused
<1>10. ASSUME Watch, UNCHANGED ticketVars PROVE Moves
  <2>1. clock' = clock \/ clock' = clock + 1
    BY <1>10 DEF Watch, Transfer, Poll, PollFails, Settle, Tick, Sweep
  <2>2. PayMove
    BY <1>10 DEF Watch, PayMove
  <2> QED BY <1>10, <2>1, <2>2 DEF TicketMove
<1>11. ASSUME SweepRooms \/ SweepMemory PROVE Moves
  BY <1>1, <1>11 DEF SweepRooms, SweepMemory
<1>12. ASSUME Restart PROVE Moves
  <2>1. ForgetSpent /\ clock' = clock
    BY <1>12 DEF Restart, Forget
  <2>2. PayMove
    BY <1>12 DEF Restart, PayMove
  <2> QED BY <1>2, <2>1, <2>2
<1>13. ASSUME CrashInScan PROVE Moves
  <2>1. ForgetSpent /\ clock' = clock
    BY <1>13 DEF CrashInScan, Forget, SettleCut
  <2>2. PayMove
    BY <1>13 DEF CrashInScan, PayMove
  <2> QED BY <1>2, <2>1, <2>2
<1>14. ASSUME UNCHANGED vars PROVE Moves
  BY <1>1, <1>14 DEF vars, entryVars
<1> HIDE DEF Moves
<1>15. ASSUME NEW s \in Socket, NEW u \in Person,
              \/ OnAuth(s, u) \/ OnPayRequest(s, u) \/ CrashInAuth(s, u)
              \/ \E t \in Invite \union DOMAIN invoices : AdmitRefused(s, u, t)
       PROVE  Moves
  BY <1>6, <1>7, <1>8, <1>9, <1>15
<1>16. ASSUME \E s \in Socket :
                \/ Open(s) \/ OpenBusy(s) \/ Close(s) \/ AuthRefused(s)
                \/ CallMedia(s) \/ OnTicketRequest(s)
                \/ \E id \in Room, role \in Role : CallJoin(s, id, role) \/ CallJoinRefused(s, id, role)
                \/ \E t \in DOMAIN tickets : OnSendAnon(s, t)
                \/ \E u \in Person :
                     \/ OnAuth(s, u) \/ OnPayRequest(s, u) \/ CrashInAuth(s, u)
                     \/ \E t \in Invite \union DOMAIN invoices : AdmitRefused(s, u, t)
       PROVE  Moves
  BY <1>3, <1>4, <1>5, <1>15, <1>16
<1>17. ASSUME Watch /\ UNCHANGED <<gateVars, roomVars, ticketVars>> PROVE Moves
  BY <1>10, <1>17
<1>18. ASSUME Next PROVE Moves
  BY <1>18, <1>11, <1>12, <1>13, <1>16, <1>17 DEF Next
<1>19. Moves
  BY <1>14, <1>18
<1> QED BY <1>19 DEF Moves

-----------------------------------------------------------------------------
(* Tickets                                                                 *)

\* A ticket that this process accepted is remembered, or has expired.
TicketInv ==
  /\ \E n \in Nat : DOMAIN tickets = 1 .. n
  /\ DOMAIN uses = DOMAIN tickets
  /\ \A t \in DOMAIN tickets : tickets[t] \in Nat
  /\ \A t \in DOMAIN spent : t \in DOMAIN tickets /\ spent[t] = tickets[t]
  /\ \A t \in DOMAIN uses :
       uses[t] = 0 \/ (uses[t] = 1 /\ (t \in DOMAIN spent \/ tickets[t] <= clock))

\* The sweep of the map takes only what has expired.
LEMMA SweptTickets ==
  ASSUME TicketInv, clock \in Nat, NEW m, m = Unexpired(clock) \/ m = Kept(clock)
  PROVE  /\ \A t \in DOMAIN m : t \in DOMAIN spent /\ m[t] = spent[t]
         /\ \A t \in DOMAIN spent : t \in DOMAIN m \/ tickets[t] <= clock
<1>1. /\ \A t \in DOMAIN Unexpired(clock) : t \in DOMAIN spent /\ Unexpired(clock)[t] = spent[t]
      /\ \A t \in DOMAIN spent : t \in DOMAIN Unexpired(clock) \/ tickets[t] <= clock
  BY DEF Unexpired, Restrict, TicketInv
<1> QED BY <1>1 DEF Kept

\* One step of the tickets.
LEMMA TicketStep == TicketInv /\ clock \in Nat /\ TicketMove => TicketInv'
<1> SUFFICES ASSUME TicketInv, clock \in Nat, TicketMove PROVE TicketInv'
  OBVIOUS
<1>0. clock <= clock' /\ clock' \in Nat
  BY DEF TicketMove
<1>1. CASE UNCHANGED ticketVars
  BY <1>0, <1>1 DEF ticketVars, TicketInv
<1>2. CASE Issue(clock)
  <2> DEFINE t0 == Cardinality(DOMAIN tickets) + 1
  <2>1. /\ tickets' = Put(tickets, t0, clock + TicketTtl)
        /\ uses' = Put(uses, t0, 0) /\ spent' = spent /\ TicketTtl \in Nat
    BY <1>2, TicketsAssumption DEF Issue
  <2>0. t0 \notin DOMAIN tickets /\ \E n \in Nat : DOMAIN tickets \union {t0} = 1 .. n
    <3>1. PICK n \in Nat : DOMAIN tickets = 1 .. n
      BY DEF TicketInv
    <3>2. Cardinality(1 .. n) = n
      BY FS_Interval
    <3>3. t0 = n + 1
      BY <3>1, <3>2
    <3> QED BY <3>1, <3>3
  <2> HIDE DEF t0
  <2>2. /\ DOMAIN tickets' = DOMAIN tickets \union {t0} /\ DOMAIN uses' = DOMAIN uses \union {t0}
        /\ tickets'[t0] = clock + TicketTtl /\ uses'[t0] = 0
        /\ \A t \in DOMAIN tickets : t # t0 => tickets'[t] = tickets[t]
        /\ \A t \in DOMAIN uses : t # t0 => uses'[t] = uses[t]
    BY <2>1 DEF Put
  <2>3. \A t \in DOMAIN tickets' : tickets'[t] \in Nat
    <3>1. clock + TicketTtl \in Nat
      BY <2>1
    <3> QED BY <2>2, <3>1 DEF TicketInv
  <2>4. \A t \in DOMAIN spent' : t \in DOMAIN tickets' /\ spent'[t] = tickets'[t]
    <3> SUFFICES ASSUME NEW t \in DOMAIN spent
                 PROVE  t \in DOMAIN tickets' /\ spent[t] = tickets'[t]
      BY <2>1
    <3> QED BY <2>0, <2>2 DEF TicketInv
  <2>5. \A t \in DOMAIN uses' :
          uses'[t] = 0 \/ (uses'[t] = 1 /\ (t \in DOMAIN spent' \/ tickets'[t] <= clock'))
    BY <1>0, <2>0, <2>1, <2>2 DEF TicketInv
  <2>6. DOMAIN uses' = DOMAIN tickets' /\ \E n \in Nat : DOMAIN tickets' = 1 .. n
    BY <2>0, <2>2 DEF TicketInv
  <2> QED BY <2>3, <2>4, <2>5, <2>6 DEF TicketInv
<1>3. CASE \E t \in DOMAIN tickets : Redeem(t, clock) \/ Refused(t, clock)
  <2>1. PICK t \in DOMAIN tickets : Redeem(t, clock) \/ Refused(t, clock)
    BY <1>3
  <2> DEFINE m == Kept(clock)
  <2>2. /\ \A x \in DOMAIN m : x \in DOMAIN spent /\ m[x] = spent[x]
        /\ \A x \in DOMAIN spent : x \in DOMAIN m \/ tickets[x] <= clock
    BY SweptTickets
  <2>3. CASE Redeem(t, clock)
    <3>1. /\ spent' = Put(m, t, tickets[t]) /\ t \notin DOMAIN spent /\ tickets[t] > clock
          /\ uses' = [uses EXCEPT ![t] = @ + 1] /\ tickets' = tickets
      BY <2>3 DEF Redeem, Genuine
    <3> HIDE DEF m
    <3>2. /\ DOMAIN spent' = DOMAIN m \union {t} /\ spent'[t] = tickets[t]
          /\ \A x \in DOMAIN m : x # t => spent'[x] = m[x]
      BY <3>1 DEF Put
    <3>3. uses[t] = 0
      BY <3>1 DEF TicketInv
    <3>4. \A x \in DOMAIN uses' :
            uses'[x] = 0 \/ (uses'[x] = 1 /\ (x \in DOMAIN spent' \/ tickets'[x] <= clock'))
      BY <1>0, <2>2, <3>1, <3>2, <3>3 DEF TicketInv
    <3>5. \A x \in DOMAIN spent' : x \in DOMAIN tickets' /\ spent'[x] = tickets'[x]
      BY <2>2, <3>1, <3>2 DEF TicketInv
    <3>6. DOMAIN uses' = DOMAIN uses
      BY <3>1
    <3> QED BY <3>1, <3>4, <3>5, <3>6 DEF TicketInv
  <2>4. CASE Refused(t, clock)
    <3>1. (spent' = m \/ spent' = spent) /\ tickets' = tickets /\ uses' = uses
      BY <2>4 DEF Refused
    <3> HIDE DEF m
    <3>2. \A x \in DOMAIN spent' : x \in DOMAIN tickets' /\ spent'[x] = tickets'[x]
      BY <2>2, <3>1 DEF TicketInv
    <3>3. \A x \in DOMAIN spent : x \in DOMAIN spent' \/ tickets[x] <= clock
      BY <2>2, <3>1
    <3>4. \A x \in DOMAIN uses' :
            uses'[x] = 0 \/ (uses'[x] = 1 /\ (x \in DOMAIN spent' \/ tickets'[x] <= clock'))
      BY <1>0, <3>1, <3>3 DEF TicketInv
    <3> QED BY <3>1, <3>2, <3>4 DEF TicketInv
  <2> QED BY <2>1, <2>3, <2>4
<1>4. CASE SweepSpent(clock)
  <2> DEFINE m == Unexpired(clock)
  <2>1. /\ \A x \in DOMAIN m : x \in DOMAIN spent /\ m[x] = spent[x]
        /\ \A x \in DOMAIN spent : x \in DOMAIN m \/ tickets[x] <= clock
    BY SweptTickets
  <2>2. spent' = m /\ tickets' = tickets /\ uses' = uses
    BY <1>4 DEF SweepSpent
  <2> HIDE DEF m
  <2> QED BY <1>0, <2>1, <2>2 DEF TicketInv
<1>5. CASE ForgetSpent
  BY <1>5 DEF ForgetSpent, TicketInv
<1> QED BY <1>1, <1>2, <1>3, <1>4, <1>5 DEF TicketMove

-----------------------------------------------------------------------------
(* Payments and invites                                                    *)

\* Types, as far as the proofs need them.
PayTypes ==
  /\ clock \in Nat
  /\ nextRef \in Nat \ {0}
  /\ chain \in Seq(0 .. nextRef - 1)
  /\ cursor \in 0 .. Len(chain)
  /\ \A r \in DOMAIN invoices :
       /\ r \in 1 .. nextRef - 1
       /\ invoices[r] \in [who : Person, ends : Nat, paid : 0 .. Len(chain)]
  /\ invites \subseteq Invite
  /\ scan.at \in 0 .. clock

\* An invoice is paid by a transfer that names it.
PaidTrue == \A r \in DOMAIN invoices : invoices[r].paid # 0 => chain[invoices[r].paid] = r

\* A token that opens nothing any more: an invite that is gone, or a transfer
\* whose invoice is gone, and references are not given twice.
UsedUp(x) ==
  \/ x \in Invite \ invites
  \/ x \in 1 .. Len(chain) /\ chain[x] # 0 /\ chain[x] \notin DOMAIN invoices

\* Who came in did so by a token that is used up, each by another one.
Book ==
  /\ \A u \in DOMAIN users : UsedUp(users[u]) /\ users[u] \notin spilled
  /\ \A x \in spilled : UsedUp(x)
  /\ \A u, v \in DOMAIN users : users[u] = users[v] => u = v

PayInv == PayTypes /\ PaidTrue /\ Book

\* What is used up stays so while tokens go, transfers are added and the next
\* reference is given.
LEMMA UsedUpStays ==
  ASSUME PayTypes, invites' \subseteq invites,
         DOMAIN invoices' \subseteq DOMAIN invoices \union {nextRef},
         \/ chain' = chain \/ \E r \in 0 .. nextRef - 1 : chain' = Append(chain, r),
         NEW x, UsedUp(x)
  PROVE  UsedUp(x)'
<1>1. CASE x \in Invite \ invites
  BY <1>1 DEF UsedUp
<1>2. CASE x \in 1 .. Len(chain) /\ chain[x] # 0 /\ chain[x] \notin DOMAIN invoices
  <2>1. chain[x] \in 0 .. nextRef - 1 /\ nextRef \in Nat
    BY <1>2 DEF PayTypes
  <2>2. x \in 1 .. Len(chain') /\ chain'[x] = chain[x]
    <3>1. chain \in Seq(0 .. nextRef - 1)
      BY DEF PayTypes
    <3>2. ASSUME NEW r \in 0 .. nextRef - 1, chain' = Append(chain, r)
          PROVE  x \in 1 .. Len(chain') /\ chain'[x] = chain[x]
      BY <1>2, <3>1, <3>2
    <3> QED BY <1>2, <3>2
  <2>3. chain[x] \notin DOMAIN invoices'
    BY <1>2, <2>1
  <2> QED BY <1>2, <2>2, <2>3 DEF UsedUp
<1> QED BY <1>1, <1>2 DEF UsedUp

\* While nobody comes in the book stays as it is.
LEMMA BookStays ==
  ASSUME PayTypes, Book, users' = users, spilled' = spilled, invites' \subseteq invites,
         DOMAIN invoices' \subseteq DOMAIN invoices \union {nextRef},
         \/ chain' = chain \/ \E r \in 0 .. nextRef - 1 : chain' = Append(chain, r)
  PROVE  Book'
<1>1. \A x : UsedUp(x) => UsedUp(x)'
  BY UsedUpStays
<1> QED BY <1>1 DEF Book

\* The credits of a scan: each invoice keeps its payment, or gets the first
\* transfer that names it.
LEMMA CreditedTrue ==
  ASSUME PayTypes, PaidTrue, NEW lts \in SUBSET (1 .. Len(chain))
  PROVE  /\ DOMAIN Credited(lts) = DOMAIN invoices
         /\ \A r \in DOMAIN invoices :
              /\ Credited(lts)[r] \in [who : Person, ends : Nat, paid : 0 .. Len(chain)]
              /\ Credited(lts)[r].ends = invoices[r].ends
              /\ invoices[r].paid # 0 => Credited(lts)[r] = invoices[r]
              /\ Credited(lts)[r].paid # 0 => chain[Credited(lts)[r].paid] = r
              /\ Credited(lts)[r].paid = 0 =>
                   /\ invoices[r].paid = 0
                   /\ invoices[r].ends <= scan.at \/ \A lt \in lts : chain[lt] # r
<1>1. DOMAIN Credited(lts) = DOMAIN invoices
  BY DEF Credited
<1> SUFFICES ASSUME NEW r \in DOMAIN invoices
             PROVE  /\ Credited(lts)[r] \in [who : Person, ends : Nat, paid : 0 .. Len(chain)]
                    /\ Credited(lts)[r].ends = invoices[r].ends
                    /\ invoices[r].paid # 0 => Credited(lts)[r] = invoices[r]
                    /\ Credited(lts)[r].paid # 0 => chain[Credited(lts)[r].paid] = r
                    /\ Credited(lts)[r].paid = 0 =>
                         /\ invoices[r].paid = 0
                         /\ invoices[r].ends <= scan.at \/ \A lt \in lts : chain[lt] # r
  BY <1>1
<1>a. Funding(lts, r) \subseteq lts /\ Funding(lts, r) \in SUBSET Nat
  <2>1. Len(chain) \in Nat
    BY DEF PayTypes
  <2>2. lts \in SUBSET Nat
    BY <2>1
  <2> QED BY <2>2 DEF Funding
<1> DEFINE F == Funding(lts, r)
           c == Credited(lts)[r]
<1>2. invoices[r] \in [who : Person, ends : Nat, paid : 0 .. Len(chain)] /\ scan.at \in Int
  BY DEF PayTypes
<1>3. c = IF invoices[r].paid = 0 /\ invoices[r].ends > scan.at /\ F # {}
          THEN [invoices[r] EXCEPT !.paid = Min(F)] ELSE invoices[r]
  BY DEF Credited
<1>4. F # {} => Min(F) \in lts /\ chain[Min(F)] = r
  <2>1. F \in SUBSET Nat /\ F \subseteq lts
    BY <1>a
  <2>2. F # {} => Min(F) \in F
    BY <2>1, MinIsMember
  <2> QED BY <2>2 DEF Funding
<1>5. F = {} => \A lt \in lts : chain[lt] # r
  BY DEF Funding
<1> HIDE DEF F, c
<1>6. CASE invoices[r].paid = 0 /\ invoices[r].ends > scan.at /\ F # {}
  <2> DEFINE m == Min(F)
  <2>1. c = [invoices[r] EXCEPT !.paid = m] /\ m \in 1 .. Len(chain) /\ chain[m] = r
    BY <1>3, <1>4, <1>6
  <2> HIDE DEF m
  <2>2. /\ c \in [who : Person, ends : Nat, paid : 0 .. Len(chain)]
        /\ c.ends = invoices[r].ends /\ c.paid = m
    BY <1>2, <2>1
  <2> QED BY <1>6, <2>1, <2>2 DEF c
<1>7. CASE ~(invoices[r].paid = 0 /\ invoices[r].ends > scan.at /\ F # {})
  <2>1. c = invoices[r]
    BY <1>3, <1>7
  <2> QED BY <1>2, <1>5, <1>7, <2>1 DEF c, PaidTrue
<1> QED BY <1>6, <1>7

\* What a scan finds are transfers.
LEMMA FoundTransfers ==
  ASSUME PayTypes, NEW h \in 0 .. Len(chain)
  PROVE  Found(h) \in SUBSET (1 .. Len(chain))
BY DEF Found, PayTypes

\* One step of the payments: the register stays true.
LEMMA PayStep == PayInv /\ PayMove => PayInv'
<1> SUFFICES ASSUME PayTypes, PaidTrue, Book, PayMove PROVE PayInv'
  BY DEF PayInv
<1> DEFINE Goal == PayInv'
<1>0. ASSUME users' = users, spilled' = spilled, invites' \subseteq invites,
             clock' \in Nat, nextRef' = nextRef, chain' = chain, cursor' \in 0 .. Len(chain),
             scan'.at \in 0 .. clock', DOMAIN invoices' \subseteq DOMAIN invoices,
             \A r \in DOMAIN invoices' :
               /\ invoices'[r] \in [who : Person, ends : Nat, paid : 0 .. Len(chain)]
               /\ invoices'[r].paid # 0 => chain[invoices'[r].paid] = r
      PROVE  Goal
  <2>1. Book'
    BY <1>0, BookStays
  <2>2. PayTypes'
    BY <1>0 DEF PayTypes
  <2>3. PaidTrue'
    BY <1>0 DEF PaidTrue
  <2> QED BY <2>1, <2>2, <2>3 DEF PayInv
<1>1. /\ clock \in Nat /\ cursor \in 0 .. Len(chain) /\ scan.at \in 0 .. clock
      /\ Idle.at \in 0 .. clock
      /\ \A r \in DOMAIN invoices :
           /\ invoices[r] \in [who : Person, ends : Nat, paid : 0 .. Len(chain)]
           /\ invoices[r].paid # 0 => chain[invoices[r].paid] = r
  BY DEF PayTypes, PaidTrue, Idle
<1> HIDE DEF Goal
<1>2. ASSUME UNCHANGED payVars PROVE Goal
  BY <1>0, <1>1, <1>2 DEF payVars
<1>3. ASSUME NEW u \in Person, Bill(u),
             UNCHANGED <<clock, invites, users, chain, cursor, scan, skipped, spilled>>
      PROVE  Goal
  <2>1. CASE UNCHANGED <<invoices, nextRef>>
    BY <1>0, <1>1, <1>3, <2>1
  <2>2. CASE /\ invoices' = Put(invoices, nextRef, [who |-> u, ends |-> clock + Lifetime, paid |-> 0])
             /\ nextRef' = nextRef + 1
    <3> DEFINE row == [who |-> u, ends |-> clock + Lifetime, paid |-> 0]
    <3>1. row \in [who : Person, ends : Nat, paid : 0 .. Len(chain)] /\ row.paid = 0
      BY <1>1, PaymentsAssumption DEF PayTypes
    <3> HIDE DEF row
    <3>2. /\ DOMAIN invoices' = DOMAIN invoices \union {nextRef} /\ invoices'[nextRef] = row
          /\ \A r \in DOMAIN invoices : r # nextRef => invoices'[r] = invoices[r]
      BY <2>2 DEF Put, row
    <3>3. Book'
      BY <1>3, <3>2, BookStays
    <3>4. nextRef \in Nat \ {0} /\ chain \in Seq(0 .. nextRef - 1)
      BY DEF PayTypes
    <3>5. chain \in Seq(0 .. nextRef)
      BY <3>4
    <3>6. PayTypes'
      BY <1>1, <1>3, <2>2, <3>1, <3>2, <3>4, <3>5 DEF PayTypes
    <3>7. PaidTrue'
      BY <1>1, <1>3, <3>1, <3>2 DEF PaidTrue
    <3> QED BY <3>3, <3>6, <3>7 DEF PayInv, Goal
  <2> QED BY <1>3, <2>1, <2>2 DEF Bill
<1>4. ASSUME NEW u \in Person \ DOMAIN users, NEW x \in Invite \union DOMAIN invoices,
             NEW tk, tk = Token(x), Entitled(u, x), Consume(x),
             UNCHANGED <<clock, nextRef, chain, cursor>>, scan'.at \in 0 .. clock,
             \/ users' = Put(users, u, tk) /\ spilled' = spilled
             \/ users' = users /\ spilled' = spilled \union {tk}
      PROVE  Goal
  <2>1. /\ invites' \subseteq invites /\ DOMAIN invoices' \subseteq DOMAIN invoices
        /\ \A r \in DOMAIN invoices' : invoices'[r] = invoices[r]
    BY <1>4, RestrictAt DEF Consume
  <2>2. ~UsedUp(tk) /\ UsedUp(tk)'
    <3>1. CASE x \in Invite
      <4>1. tk = x /\ x \in invites /\ x \notin invites'
        BY <1>4, <3>1 DEF Token, Entitled, Invited, Consume
      <4>2. x \notin 1 .. Len(chain)
        BY <3>1, PaymentsAssumption
      <4> QED BY <3>1, <4>1, <4>2 DEF UsedUp
    <3>2. CASE x \notin Invite
      <4>1. /\ x \in DOMAIN invoices /\ invoices[x].paid # 0 /\ tk = invoices[x].paid
            /\ x \notin DOMAIN invoices'
        BY <1>4, <3>2, RestrictAt DEF Token, Entitled, Pays, Consume
      <4>2. tk \in 1 .. Len(chain) /\ chain[tk] = x /\ x # 0
        BY <1>1, <4>1 DEF PayTypes
      <4>3. tk \notin Invite
        BY <4>2, PaymentsAssumption
      <4> QED BY <1>4, <4>1, <4>2, <4>3 DEF UsedUp
    <3> QED BY <3>1, <3>2
  <2>3. \A y : UsedUp(y) => UsedUp(y)'
    BY <1>4, <2>1, UsedUpStays
  <2>4. (\A v \in DOMAIN users : users[v] # tk) /\ tk \notin spilled
    BY <2>2 DEF Book
  <2>5. CASE users' = Put(users, u, tk) /\ spilled' = spilled
    <3>1. /\ DOMAIN users' = DOMAIN users \union {u} /\ users'[u] = tk
          /\ \A v \in DOMAIN users : v # u /\ users'[v] = users[v]
      BY <1>4, <2>5 DEF Put
    <3>2. Book'
      BY <2>2, <2>3, <2>4, <2>5, <3>1 DEF Book
    <3> QED BY <1>1, <1>4, <2>1, <3>2 DEF Goal, PayInv, PayTypes, PaidTrue
  <2>6. CASE users' = users /\ spilled' = spilled \union {tk}
    <3>1. Book'
      BY <2>2, <2>3, <2>4, <2>6 DEF Book
    <3> QED BY <1>1, <1>4, <2>1, <3>1 DEF Goal, PayInv, PayTypes, PaidTrue
  <2> QED BY <1>4, <2>5, <2>6
<1>5. ASSUME NEW u \in Person \ DOMAIN users, NEW x \in Invite \union DOMAIN invoices,
             \/ Admit(u, x) /\ UNCHANGED <<clock, nextRef, chain, cursor, scan, skipped, spilled>>
             \/ AdmitCut(u, x) /\ scan' = Idle /\ UNCHANGED <<clock, nextRef, chain, cursor, skipped>>
      PROVE  Goal
  BY <1>1, <1>4, <1>5 DEF Admit, AdmitCut
<1>6. ASSUME NEW r \in 0 .. nextRef - 1, Transfer(r) PROVE Goal
  <2>1. /\ chain' = Append(chain, r) /\ users' = users /\ spilled' = spilled /\ clock' = clock
        /\ invites' = invites /\ invoices' = invoices /\ nextRef' = nextRef
        /\ cursor' = cursor /\ scan' = scan
    BY <1>6 DEF Transfer
  <2>2. Book'
    BY <2>1, BookStays
  <2>3. chain \in Seq(0 .. nextRef - 1) /\ Len(chain) \in Nat
    BY DEF PayTypes
  <2>4. /\ chain' \in Seq(0 .. nextRef - 1) /\ Len(chain') = Len(chain) + 1
        /\ \A i \in 1 .. Len(chain) : chain'[i] = chain[i]
    BY <2>1, <2>3
  <2>5. PayTypes'
    BY <2>1, <2>3, <2>4 DEF PayTypes
  <2>6. PaidTrue'
    BY <1>1, <2>1, <2>3, <2>4 DEF PaidTrue
  <2> QED BY <2>2, <2>5, <2>6 DEF Goal, PayInv
<1>7. ASSUME Poll \/ PollFails PROVE Goal
  BY <1>0, <1>1, <1>7 DEF Poll, PollFails
<1>8. ASSUME NEW h \in 0 .. Len(chain), Settle(h) \/ \E k \in 0 .. MaxTx : SettleCut(h, k)
      PROVE  Goal
  <2>1. /\ users' = users /\ spilled' = spilled /\ invites' = invites /\ clock' = clock
        /\ nextRef' = nextRef /\ chain' = chain /\ scan' = Idle
        /\ cursor' = cursor \/ cursor' = h
    BY <1>8 DEF Settle, SettleCut
  <2>2. \/ invoices' = invoices
        \/ \E lts \in SUBSET (1 .. Len(chain)) : invoices' = Credited(lts)
    <3>1. Found(h) \in SUBSET (1 .. Len(chain))
      BY FoundTransfers
    <3>2. ASSUME Settle(h) PROVE invoices' = invoices \/ invoices' = Credited(Found(h))
      BY <3>2 DEF Settle
    <3>3. ASSUME NEW k, SettleCut(h, k) PROVE invoices' = Credited({lt \in Found(h) : lt <= k})
      BY <3>3 DEF SettleCut
    <3> QED BY <1>8, <3>1, <3>2, <3>3
  <2>3. DOMAIN invoices' \subseteq DOMAIN invoices
        /\ \A r \in DOMAIN invoices' :
             /\ invoices'[r] \in [who : Person, ends : Nat, paid : 0 .. Len(chain)]
             /\ invoices'[r].paid # 0 => chain[invoices'[r].paid] = r
    BY <1>1, <2>2, CreditedTrue
  <2> QED BY <1>0, <1>1, <2>1, <2>3
<1>9. ASSUME scan' = Idle,
             UNCHANGED <<clock, invoices, nextRef, invites, users, chain, cursor, skipped, spilled>>
      PROVE  Goal
  BY <1>0, <1>1, <1>9
<1>10. ASSUME Tick PROVE Goal
  BY <1>0, <1>1, <1>10 DEF Tick
<1>11. ASSUME Sweep PROVE Goal
  <2>1. /\ DOMAIN invoices' \subseteq DOMAIN invoices
        /\ \A r \in DOMAIN invoices' : invoices'[r] = invoices[r]
    BY <1>11, RestrictAt DEF Sweep
  <2> QED BY <1>0, <1>1, <1>11, <2>1 DEF Sweep
<1>12. Goal
  BY <1>2, <1>3, <1>5, <1>6, <1>7, <1>8, <1>9, <1>10, <1>11 DEF PayMove
<1> QED BY <1>12 DEF Goal

-----------------------------------------------------------------------------
(* What it comes to                                                        *)

\* The invariants hold in every reachable state.
LEMMA EntryHolds == Spec => [](PayInv /\ TicketInv)
<1>1. Init => PayInv /\ TicketInv
  <2> SUFFICES ASSUME PayInit, TicketsInit PROVE PayInv /\ TicketInv
    BY DEF Init
  <2>1. PayTypes
    BY PaymentsAssumption DEF PayInit, PayTypes, Idle
  <2>2. PaidTrue /\ Book
    BY DEF PayInit, PaidTrue, Book
  <2>3. DOMAIN tickets = 1 .. 0 /\ DOMAIN uses = {} /\ DOMAIN spent = {}
    BY DEF TicketsInit
  <2>4. TicketInv
    BY <2>3 DEF TicketInv
  <2> QED BY <2>1, <2>2, <2>4 DEF PayInv
<1>2. PayInv /\ TicketInv /\ [Next]_vars => (PayInv /\ TicketInv)'
  <2> SUFFICES ASSUME PayInv, TicketInv, [Next]_vars PROVE PayInv' /\ TicketInv'
    OBVIOUS
  <2>1. TicketMove /\ PayMove
    BY NextMoves
  <2>2. clock \in Nat
    BY DEF PayInv, PayTypes
  <2> QED BY <2>1, <2>2, TicketStep, PayStep
<1> QED BY <1>1, <1>2, PTL DEF Spec

\* With any number of people, invites, invoices, transfers and tickets, and a
\* process that may be killed between any two statements: a token opens once.
THEOREM TokensOnceHolds == Spec => []TokensOnce
<1>1. PayInv /\ TicketInv => TokensOnce
  <2> SUFFICES ASSUME PayInv, TicketInv PROVE OneEntryPerToken /\ TicketOnce
    BY DEF TokensOnce
  <2>1. \A u, v \in DOMAIN users : users[u] = users[v] => u = v
    BY DEF PayInv, Book
  <2>2. ASSUME NEW u \in DOMAIN users
        PROVE  /\ users[u] \notin invites \union spilled
               /\ users[u] \notin Invite => \A r \in DOMAIN invoices : invoices[r].paid # users[u]
    <3>1. UsedUp(users[u]) /\ users[u] \notin spilled
      BY DEF PayInv, Book
    <3>2. invites \subseteq Invite /\ \A x \in 1 .. Len(chain) : x \in Nat /\ x # 0
      BY DEF PayInv, PayTypes
    <3>3. users[u] \notin invites
      BY <3>1, <3>2, PaymentsAssumption DEF UsedUp
    <3>4. ASSUME users[u] \notin Invite, NEW r \in DOMAIN invoices PROVE invoices[r].paid # users[u]
      <4>1. users[u] # 0 /\ chain[users[u]] \notin DOMAIN invoices
        BY <3>1, <3>2, <3>4 DEF UsedUp
      <4> QED BY <4>1 DEF PayInv, PaidTrue
    <3> QED BY <3>1, <3>3, <3>4
  <2>3. OneEntryPerToken
    BY <2>1, <2>2 DEF OneEntryPerToken
  <2>4. TicketOnce
    BY DEF TicketOnce, TicketInv
  <2> QED BY <2>3, <2>4
<1> QED BY <1>1, EntryHolds, PTL

\* The cursor passes over no transfer that pays an open invoice, but for what its
\* pages do not reach: an open unpaid invoice has no transfer that was read.
LEMMA SeenStep == PayInv /\ PaymentSeen /\ PayMove => PaymentSeen'
<1> SUFFICES ASSUME PayTypes, PaidTrue, PaymentSeen, PayMove PROVE PaymentSeen'
  BY DEF PayInv
<1> DEFINE Goal == PaymentSeen'
<1>1. /\ clock \in Nat /\ cursor \in 0 .. Len(chain) /\ nextRef \in Nat
      /\ chain \in Seq(0 .. nextRef - 1) /\ Len(chain) \in Nat /\ scan.at \in 0 .. clock
      /\ \A r \in DOMAIN invoices : invoices[r].ends \in Nat
  BY DEF PayTypes
<1>0. ASSUME cursor' = cursor, skipped' = skipped, clock' = clock \/ clock' = clock + 1,
             \A lt \in 1 .. cursor : chain'[lt] = chain[lt],
             \A lt \in 1 .. cursor : chain[lt] \in DOMAIN invoices' =>
               /\ chain[lt] \in DOMAIN invoices
               /\ invoices'[chain[lt]].ends = invoices[chain[lt]].ends
               /\ invoices'[chain[lt]].paid = 0 => invoices[chain[lt]].paid = 0
      PROVE  Goal
  BY <1>0, <1>1 DEF PaymentSeen, Live
<1> HIDE DEF Goal
<1>2. ASSUME UNCHANGED payVars PROVE Goal
  BY <1>0, <1>2 DEF payVars
<1>3. ASSUME NEW u \in Person, Bill(u),
             UNCHANGED <<clock, invites, users, chain, cursor, scan, skipped, spilled>>
      PROVE  Goal
  <2>1. ASSUME NEW lt \in 1 .. cursor PROVE chain[lt] # nextRef
    <3>1. lt \in 1 .. Len(chain)
      BY <1>1
    <3>2. chain[lt] \in 0 .. nextRef - 1
      BY <1>1, <3>1
    <3> QED BY <1>1, <3>2
  <2>2. CASE invoices' = invoices
    BY <1>0, <1>3, <2>2
  <2>3. CASE invoices' = Put(invoices, nextRef, [who |-> u, ends |-> clock + Lifetime, paid |-> 0])
    <3>1. \A r \in DOMAIN invoices' : r # nextRef => r \in DOMAIN invoices /\ invoices'[r] = invoices[r]
      BY <2>3 DEF Put
    <3> QED BY <1>0, <1>3, <2>1, <3>1
  <2> QED BY <1>3, <2>2, <2>3 DEF Bill
<1>4. ASSUME NEW u, NEW x, Consume(x), UNCHANGED <<clock, chain, cursor, skipped>> PROVE Goal
  <2>1. \A r \in DOMAIN invoices' : r \in DOMAIN invoices /\ invoices'[r] = invoices[r]
    BY <1>4, RestrictAt DEF Consume
  <2> QED BY <1>0, <1>4, <2>1
<1>5. ASSUME NEW u \in Person \ DOMAIN users, NEW x \in Invite \union DOMAIN invoices,
             \/ Admit(u, x) /\ UNCHANGED <<clock, nextRef, chain, cursor, scan, skipped, spilled>>
             \/ AdmitCut(u, x) /\ scan' = Idle /\ UNCHANGED <<clock, nextRef, chain, cursor, skipped>>
      PROVE  Goal
  BY <1>4, <1>5 DEF Admit, AdmitCut
<1>6. ASSUME NEW r \in 0 .. nextRef - 1, Transfer(r) PROVE Goal
  <2>1. \A lt \in 1 .. cursor : chain'[lt] = chain[lt]
    BY <1>1, <1>6 DEF Transfer
  <2> QED BY <1>0, <1>6, <2>1 DEF Transfer
<1>7. ASSUME Poll \/ PollFails PROVE Goal
  BY <1>0, <1>7 DEF Poll, PollFails
<1>8. ASSUME NEW h \in 0 .. Len(chain), Settle(h) PROVE Goal
  <2>1. CASE UNCHANGED <<invoices, cursor, skipped>>
    BY <1>0, <1>8, <2>1 DEF Settle
  <2>2. CASE /\ h > cursor /\ invoices' = Credited(Found(h)) /\ cursor' = h
             /\ skipped' = skipped \union ((cursor + 1 .. h) \ Found(h))
    <3>1. Found(h) \in SUBSET (1 .. Len(chain))
      BY FoundTransfers
    <3>2. /\ DOMAIN invoices' = DOMAIN invoices
          /\ \A r \in DOMAIN invoices :
               /\ invoices'[r].ends = invoices[r].ends
               /\ invoices'[r].paid = 0 =>
                    /\ invoices[r].paid = 0
                    /\ invoices[r].ends <= scan.at \/ \A lt \in Found(h) : chain[lt] # r
      BY <2>2, <3>1, CreditedTrue
    <3>3. chain' = chain /\ clock' = clock
      BY <1>8 DEF Settle
    <3>4. ASSUME NEW lt \in 1 .. h, chain[lt] \in DOMAIN invoices,
                 invoices[chain[lt]].ends > clock, invoices'[chain[lt]].paid = 0
          PROVE  lt \in skipped'
      <4>1. CASE lt <= cursor
        <5>1. lt \in 1 .. cursor
          BY <1>1, <4>1
        <5> QED BY <2>2, <3>2, <3>4, <5>1 DEF PaymentSeen, Live
      <4>2. CASE lt > cursor
        <5>1. lt \in cursor + 1 .. h
          BY <1>1, <4>2
        <5>2. lt \notin Found(h)
          BY <1>1, <3>2, <3>4
        <5> QED BY <2>2, <5>1, <5>2
      <4> QED BY <1>1, <4>1, <4>2
    <3>5. \A lt \in 1 .. h : LET r == chain[lt] IN
            r \in DOMAIN invoices' /\ invoices'[r].ends > clock' /\ invoices'[r].paid = 0
              => lt \in skipped'
      BY <3>2, <3>3, <3>4
    <3> QED BY <2>2, <3>3, <3>5 DEF Goal, PaymentSeen, Live
  <2> QED BY <1>8, <2>1, <2>2 DEF Settle
<1>9. ASSUME NEW h \in 0 .. Len(chain), NEW k, SettleCut(h, k) PROVE Goal
  <2>1. Found(h) \in SUBSET (1 .. Len(chain))
    BY FoundTransfers
  <2> DEFINE lts == {lt \in Found(h) : lt <= k}
  <2>2. lts \in SUBSET (1 .. Len(chain)) /\ invoices' = Credited(lts)
    BY <1>9, <2>1 DEF SettleCut
  <2> HIDE DEF lts
  <2>3. /\ DOMAIN invoices' = DOMAIN invoices
        /\ \A r \in DOMAIN invoices :
             /\ invoices'[r].ends = invoices[r].ends
             /\ invoices'[r].paid = 0 => invoices[r].paid = 0
    BY <2>2, CreditedTrue
  <2> QED BY <1>0, <1>9, <2>3 DEF SettleCut
<1>10. ASSUME scan' = Idle,
              UNCHANGED <<clock, invoices, nextRef, invites, users, chain, cursor, skipped, spilled>>
       PROVE  Goal
  BY <1>0, <1>10
<1>11. ASSUME Tick PROVE Goal
  BY <1>0, <1>11 DEF Tick
<1>12. ASSUME Sweep PROVE Goal
  <2>1. \A r \in DOMAIN invoices' : r \in DOMAIN invoices /\ invoices'[r] = invoices[r]
    BY <1>12, RestrictAt DEF Sweep
  <2> QED BY <1>0, <1>12, <2>1 DEF Sweep
<1>13. Goal
  BY <1>2, <1>3, <1>5, <1>6, <1>7, <1>8, <1>9, <1>10, <1>11, <1>12 DEF PayMove
<1> QED BY <1>13 DEF Goal

\* Whenever scans fail, overlap payments or are killed, no payment is passed over.
THEOREM PaymentSeenHolds == Spec => []PaymentSeen
<1>1. Init => PaymentSeen
  BY DEF Init, PayInit, PaymentSeen
<1>2. PayInv /\ PaymentSeen /\ [Next]_vars => PaymentSeen'
  BY NextMoves, SeenStep
<1> QED BY <1>1, <1>2, EntryHolds, PTL DEF Spec

\* Together: no token opens twice, and no payment is passed over.
THEOREM BookedOnceHolds == Spec => []BookedOnce
BY TokensOnceHolds, PaymentSeenHolds, PTL DEF BookedOnce

\* What may become of a paid invoice in a step.
PaidKept ==
  \A r \in DOMAIN invoices : invoices[r].paid # 0 =>
    \/ r \in DOMAIN invoices' /\ invoices'[r] = invoices[r]
    \/ ~Live(r)
    \/ invoices[r].who \in DOMAIN users' /\ users'[invoices[r].who] = invoices[r].paid
    \/ invoices[r].paid \in spilled'

LEMMA KeptStep == PayInv /\ PayMove => PaidKept
<1> SUFFICES ASSUME PayTypes, PaidTrue, PayMove,
                    NEW r \in DOMAIN invoices, invoices[r].paid # 0
             PROVE  \/ r \in DOMAIN invoices' /\ invoices'[r] = invoices[r]
                    \/ ~Live(r)
                    \/ invoices[r].who \in DOMAIN users' /\ users'[invoices[r].who] = invoices[r].paid
                    \/ invoices[r].paid \in spilled'
  BY DEF PayInv, PaidKept
<1> DEFINE Goal == \/ r \in DOMAIN invoices' /\ invoices'[r] = invoices[r]
                   \/ ~Live(r)
                   \/ invoices[r].who \in DOMAIN users' /\ users'[invoices[r].who] = invoices[r].paid
                   \/ invoices[r].paid \in spilled'
<1>0. ASSUME r \in DOMAIN invoices', invoices'[r] = invoices[r] PROVE Goal
  BY <1>0
<1>1. r \in Nat /\ r # nextRef /\ r \notin Invite
  BY PaymentsAssumption DEF PayTypes
<1>2. ASSUME UNCHANGED invoices PROVE Goal
  BY <1>2
<1>3. ASSUME NEW u \in Person, Bill(u) PROVE Goal
  <2>1. CASE invoices' = invoices
    BY <2>1
  <2>2. CASE invoices' = Put(invoices, nextRef, [who |-> u, ends |-> clock + Lifetime, paid |-> 0])
    BY <1>1, <2>2 DEF Put
  <2> QED BY <1>3, <2>1, <2>2 DEF Bill
<1>4. ASSUME NEW u \in Person \ DOMAIN users, NEW x, Admit(u, x) \/ AdmitCut(u, x) PROVE Goal
  <2>1. Entitled(u, x) /\ Consume(x)
    BY <1>4 DEF Admit, AdmitCut
  <2>2. CASE x # r
    <3>1. r \in DOMAIN invoices' /\ invoices'[r] = invoices[r]
      BY <2>1, <2>2, RestrictAt DEF Consume
    <3> QED BY <3>1
  <2>3. CASE x = r
    <3>1. invoices[r].who = u /\ Token(x) = invoices[r].paid
      BY <1>1, <2>1, <2>3 DEF Entitled, Pays, Token
    <3>2. CASE Admit(u, x)
      <4>1. u \in DOMAIN users' /\ users'[u] = Token(x)
        BY <3>2 DEF Admit, Put
      <4> QED BY <3>1, <4>1
    <3>3. CASE AdmitCut(u, x)
      BY <3>1, <3>3 DEF AdmitCut
    <3> QED BY <1>4, <3>2, <3>3
  <2> QED BY <2>2, <2>3
<1>5. ASSUME NEW h \in 0 .. Len(chain), Settle(h) \/ \E k \in 0 .. MaxTx : SettleCut(h, k)
      PROVE  Goal
  <2>1. \/ invoices' = invoices
        \/ \E lts \in SUBSET (1 .. Len(chain)) : invoices' = Credited(lts)
    <3>1. Found(h) \in SUBSET (1 .. Len(chain))
      BY FoundTransfers
    <3>2. ASSUME Settle(h) PROVE invoices' = invoices \/ invoices' = Credited(Found(h))
      BY <3>2 DEF Settle
    <3>3. ASSUME NEW k, SettleCut(h, k) PROVE invoices' = Credited({lt \in Found(h) : lt <= k})
      BY <3>3 DEF SettleCut
    <3> QED BY <1>5, <3>1, <3>2, <3>3
  <2>2. r \in DOMAIN invoices' /\ invoices'[r] = invoices[r]
    BY <2>1, CreditedTrue
  <2> QED BY <2>2
<1>6. ASSUME Sweep PROVE Goal
  BY <1>6, RestrictAt DEF Sweep
<1> HIDE DEF Goal
<1>7. Goal
  BY <1>2, <1>3, <1>4, <1>5, <1>6 DEF PayMove, payVars, Transfer, Poll, PollFails, Tick
<1> QED BY <1>7 DEF Goal

\* Step by step: who paid keeps the invoice until it is used or expires.
THEOREM PaidIsKeptHolds == Spec => PaidIsKept
<1>1. PayInv /\ [Next]_vars => [PaidKept]_payVars
  <2> SUFFICES ASSUME PayInv, [Next]_vars PROVE [PaidKept]_payVars
    OBVIOUS
  <2>1. PayMove
    BY NextMoves
  <2> QED BY <2>1, KeptStep
<1> QED BY <1>1, EntryHolds, PTL DEF Spec, PaidIsKept, PaidKept

-----------------------------------------------------------------------------
(***************************************************************************)
(* The sockets, and the seats of the rooms.  They are stated of their      *)
(* values, since a frame may end some sockets before it seats another.     *)
(***************************************************************************)
SocketRows == [anonymous : BOOLEAN, nonce : Nat, tries : 0 .. MaxTries,
               who : Person \union {Nobody}, ref : Nat, told : BOOLEAN]
RoomRows == [slots : [Role -> Socket \union {Nobody}], created : Nat, last : Nat]

\* Each socket has its row, and none is marked as unnamed that named itself or
\* joined a call.
Marked(so, me) ==
  /\ IsFiniteSet(DOMAIN so) /\ DOMAIN so \subseteq Socket
  /\ \A s \in DOMAIN so :
       /\ so[s] \in SocketRows
       /\ so[s].anonymous <=> so[s].who = Nobody /\ s \notin DOMAIN me

From(so, ip) == {s \in DOMAIN so : IpOf[s] = ip}
Anonymous(so) == {s \in DOMAIN so : so[s].anonymous}

\* The counters count them.
Counted(so, pi, un) ==
  /\ pi \in [Ip -> Nat]
  /\ \A ip \in Ip : pi[ip] = Cardinality(From(so, ip)) /\ pi[ip] <= MaxPerIp
  /\ un = Cardinality(Anonymous(so)) /\ un <= MaxUnnamed

\* Members and seats agree.
SeatedRight(so, ro, me) ==
  /\ DOMAIN me \subseteq DOMAIN so
  /\ \A s \in DOMAIN me :
       /\ me[s].room \in DOMAIN ro /\ me[s].role \in Role
       /\ ro[me[s].room].slots[me[s].role] = s
  /\ IsFiniteSet(DOMAIN ro) /\ DOMAIN ro \subseteq Room /\ Cardinality(DOMAIN ro) <= MaxRooms
  /\ \A id \in DOMAIN ro :
       /\ ro[id] \in RoomRows
       /\ \E r \in Role : ro[id].slots[r] # Nobody
       /\ \A r \in Role : ro[id].slots[r] # Nobody =>
            ro[id].slots[r] \in DOMAIN me /\ me[ro[id].slots[r]].room = id

House(so, pi, un, ro, me) == Marked(so, me) /\ Counted(so, pi, un) /\ SeatedRight(so, ro, me)

LEMMA TakenOut ==
  ASSUME NEW A, NEW B, IsFiniteSet(A), B \subseteq A
  PROVE  /\ Cardinality(A \ B) = Cardinality(A) - Cardinality(B)
         /\ Cardinality(A \ B) \in Nat /\ Cardinality(A \ B) <= Cardinality(A)
<1>1. A \cap B = B
  OBVIOUS
<1>2. IsFiniteSet(A \ B) /\ Cardinality(A \ B) = Cardinality(A) - Cardinality(B)
  BY <1>1, FS_Difference
<1>3. Cardinality(A) \in Nat /\ Cardinality(A \ B) \in Nat
  BY <1>2, FS_CardinalityType
<1>4. Cardinality(A \ B) <= Cardinality(A)
  BY FS_Subset
<1> QED BY <1>2, <1>3, <1>4

\* The counters when the sockets S have ended.
PerIpWithout(pi, S) == [ip \in Ip |-> pi[ip] - Cardinality({s \in S : IpOf[s] = ip})]
UnnamedWithout(so, un, S) == un - Cardinality({s \in S : so[s].anonymous})

\* Sockets end, each with whoever sat with it.
LEMMA HouseAfterLeave ==
  ASSUME NEW so, NEW pi, NEW un, NEW ro, NEW me, House(so, pi, un, ro, me),
         NEW S \in SUBSET DOMAIN so, NEW ids \in SUBSET DOMAIN ro, NEW M,
         \A s \in DOMAIN me : s \in M <=> me[s].room \in ids,
         M \subseteq S, \A s \in S : s \in DOMAIN me => s \in M
  PROVE  House(Restrict(so, DOMAIN so \ S),
               PerIpWithout(pi, S), UnnamedWithout(so, un, S),
               Restrict(ro, DOMAIN ro \ ids), Restrict(me, DOMAIN me \ M))
<1> DEFINE so1 == Restrict(so, DOMAIN so \ S)
           pi1 == PerIpWithout(pi, S)
           un1 == UnnamedWithout(so, un, S)
           ro1 == Restrict(ro, DOMAIN ro \ ids)
           me1 == Restrict(me, DOMAIN me \ M)
<1>1. DOMAIN so1 = DOMAIN so \ S /\ \A s \in DOMAIN so1 : so1[s] = so[s]
  BY RestrictAt
<1>2. DOMAIN ro1 = DOMAIN ro \ ids /\ \A id \in DOMAIN ro1 : ro1[id] = ro[id]
  BY RestrictAt
<1>3. DOMAIN me1 = DOMAIN me \ M /\ \A s \in DOMAIN me1 : me1[s] = me[s]
  BY RestrictAt
<1> HIDE DEF so1, ro1, me1
<1>4. Marked(so, me) /\ Counted(so, pi, un) /\ SeatedRight(so, ro, me)
  BY DEF House
<1>5. IsFiniteSet(DOMAIN so) /\ IsFiniteSet(DOMAIN so1)
  BY <1>1, <1>4, FS_Subset DEF Marked
<1>6. Marked(so1, me1)
  <2>1. \A s \in DOMAIN so1 : s \in DOMAIN me1 <=> s \in DOMAIN me
    BY <1>1, <1>3
  <2>2. \A s \in DOMAIN so : so[s] \in SocketRows
                             /\ (so[s].anonymous <=> so[s].who = Nobody /\ s \notin DOMAIN me)
    BY <1>4 DEF Marked
  <2>3. \A s \in DOMAIN so1 : so1[s] \in SocketRows
                              /\ (so1[s].anonymous <=> so1[s].who = Nobody /\ s \notin DOMAIN me1)
    BY <1>1, <2>1, <2>2
  <2> QED BY <1>1, <1>4, <1>5, <2>3 DEF Marked
<1>7. Counted(so1, pi1, un1)
  <2>1. ASSUME NEW ip \in Ip
        PROVE  pi1[ip] \in Nat /\ pi1[ip] = Cardinality(From(so1, ip)) /\ pi1[ip] <= MaxPerIp
    <3> DEFINE A == From(so, ip)
               B == {s \in S : IpOf[s] = ip}
    <3>1. From(so1, ip) = A \ B /\ B \subseteq A
      BY <1>1 DEF From
    <3>2. IsFiniteSet(A)
      BY <1>5, FS_Subset DEF From
    <3>3. pi[ip] = Cardinality(A) /\ pi[ip] \in Nat /\ pi[ip] <= MaxPerIp /\ MaxPerIp \in Nat
      BY <1>4, GateAssumption DEF Counted
    <3>4. pi1[ip] = pi[ip] - Cardinality(B)
      BY DEF PerIpWithout
    <3> HIDE DEF A, B, pi1
    <3>5. /\ Cardinality(A \ B) = Cardinality(A) - Cardinality(B)
          /\ Cardinality(A \ B) \in Nat /\ Cardinality(A \ B) <= Cardinality(A)
      BY <3>1, <3>2, TakenOut
    <3> QED BY <3>1, <3>3, <3>4, <3>5
  <2>2. un1 = Cardinality(Anonymous(so1)) /\ un1 <= MaxUnnamed
    <3> DEFINE A == Anonymous(so)
               B == {s \in S : so[s].anonymous}
    <3>1. Anonymous(so1) = A \ B /\ B \subseteq A
      BY <1>1 DEF Anonymous
    <3>2. IsFiniteSet(A)
      BY <1>5, FS_Subset DEF Anonymous
    <3>3. un = Cardinality(A) /\ un <= MaxUnnamed /\ MaxUnnamed \in Nat /\ un1 = un - Cardinality(B)
      BY <1>4, GateAssumption DEF Counted, UnnamedWithout
    <3> HIDE DEF A, B, un1
    <3>4. Cardinality(A) \in Nat
      BY <3>2, FS_CardinalityType
    <3>5. /\ Cardinality(A \ B) = Cardinality(A) - Cardinality(B)
          /\ Cardinality(A \ B) \in Nat /\ Cardinality(A \ B) <= Cardinality(A)
      BY <3>1, <3>2, TakenOut
    <3> QED BY <3>1, <3>3, <3>4, <3>5
  <2>3. pi1 \in [Ip -> Nat]
    <3>1. \A ip \in Ip : pi1[ip] \in Nat
      BY <2>1
    <3>2. pi1 = [ip \in Ip |-> pi1[ip]]
      BY DEF PerIpWithout
    <3> QED BY <3>1, <3>2
  <2> HIDE DEF pi1, un1
  <2> QED BY <2>1, <2>2, <2>3 DEF Counted
<1>8. SeatedRight(so1, ro1, me1)
  <2>1. DOMAIN me1 \subseteq DOMAIN so1
    BY <1>1, <1>3, <1>4 DEF SeatedRight
  <2>2. ASSUME NEW s \in DOMAIN me1
        PROVE  /\ me1[s].room \in DOMAIN ro1 /\ me1[s].role \in Role
               /\ ro1[me1[s].room].slots[me1[s].role] = s
    <3>1. /\ me[s].room \in DOMAIN ro /\ me[s].role \in Role
          /\ ro[me[s].room].slots[me[s].role] = s
      BY <1>3, <1>4 DEF SeatedRight
    <3>2. me[s].room \notin ids /\ me1[s] = me[s]
      BY <1>3
    <3> QED BY <1>2, <3>1, <3>2
  <2>3. IsFiniteSet(DOMAIN ro1) /\ DOMAIN ro1 \subseteq Room /\ Cardinality(DOMAIN ro1) <= MaxRooms
    <3>1. IsFiniteSet(DOMAIN ro) /\ DOMAIN ro \subseteq Room /\ Cardinality(DOMAIN ro) <= MaxRooms
      BY <1>4 DEF SeatedRight
    <3>2. IsFiniteSet(DOMAIN ro1) /\ Cardinality(DOMAIN ro1) <= Cardinality(DOMAIN ro)
      BY <1>2, <3>1, FS_Subset
    <3>3. Cardinality(DOMAIN ro) \in Nat /\ Cardinality(DOMAIN ro1) \in Nat /\ MaxRooms \in Nat
      BY <3>1, <3>2, FS_CardinalityType, RoomsAssumption
    <3> QED BY <1>2, <3>1, <3>2, <3>3
  <2>4. ASSUME NEW id \in DOMAIN ro1
        PROVE  /\ ro1[id] \in RoomRows
               /\ \E r \in Role : ro1[id].slots[r] # Nobody
               /\ \A r \in Role : ro1[id].slots[r] # Nobody =>
                    ro1[id].slots[r] \in DOMAIN me1 /\ me1[ro1[id].slots[r]].room = id
    <3>1. /\ ro[id] \in RoomRows
          /\ \E r \in Role : ro[id].slots[r] # Nobody
          /\ \A r \in Role : ro[id].slots[r] # Nobody =>
               ro[id].slots[r] \in DOMAIN me /\ me[ro[id].slots[r]].room = id
      BY <1>2, <1>4 DEF SeatedRight
    <3>2. ro1[id] = ro[id] /\ id \notin ids
      BY <1>2
    <3> QED BY <1>3, <3>1, <3>2
  <2> QED BY <2>1, <2>2, <2>3, <2>4 DEF SeatedRight
<1> QED BY <1>6, <1>7, <1>8 DEF House, so1, ro1, me1

\* A socket is opened and counted.
LEMMA HouseAfterOpen ==
  ASSUME NEW so, NEW pi, NEW un, NEW ro, NEW me, House(so, pi, un, ro, me),
         NEW s \in Socket, s \notin DOMAIN so,
         NEW c \in SocketRows, c.anonymous, c.who = Nobody,
         pi[IpOf[s]] < MaxPerIp, un + 1 <= MaxUnnamed
  PROVE  House(Put(so, s, c), [pi EXCEPT ![IpOf[s]] = @ + 1], un + 1, ro, me)
<1> DEFINE so1 == Put(so, s, c)
           pi1 == [pi EXCEPT ![IpOf[s]] = @ + 1]
<1>1. DOMAIN so1 = DOMAIN so \union {s} /\ so1[s] = c /\ \A q \in DOMAIN so : so1[q] = so[q]
  BY DEF Put
<1> HIDE DEF so1
<1>2. Marked(so, me) /\ Counted(so, pi, un) /\ SeatedRight(so, ro, me)
  BY DEF House
<1>3. IsFiniteSet(DOMAIN so) /\ IsFiniteSet(DOMAIN so1) /\ s \notin DOMAIN me
  BY <1>1, <1>2, FS_AddElement DEF Marked, SeatedRight
<1>4. Marked(so1, me)
  BY <1>1, <1>2, <1>3 DEF Marked
<1>5. SeatedRight(so1, ro, me)
  BY <1>1, <1>2 DEF SeatedRight
<1>6. pi1 \in [Ip -> Nat] /\ \A ip \in Ip : pi1[ip] = Cardinality(From(so1, ip)) /\ pi1[ip] <= MaxPerIp
  <2>1. pi \in [Ip -> Nat] /\ IpOf[s] \in Ip /\ MaxPerIp \in Nat
    BY <1>2, GateAssumption DEF Counted
  <2>2. ASSUME NEW ip \in Ip
        PROVE  pi1[ip] = Cardinality(From(so1, ip)) /\ pi1[ip] <= MaxPerIp
    <3>1. pi[ip] = Cardinality(From(so, ip)) /\ pi[ip] <= MaxPerIp /\ IsFiniteSet(From(so, ip))
      BY <1>2, <1>3, FS_Subset DEF Counted, From
    <3>2. CASE ip = IpOf[s]
      <4>1. From(so1, ip) = From(so, ip) \union {s} /\ s \notin From(so, ip)
        BY <1>1, <3>2 DEF From
      <4>2. Cardinality(From(so1, ip)) = Cardinality(From(so, ip)) + 1
        <5> DEFINE A == From(so, ip)
        <5>1. IsFiniteSet(A) /\ s \notin A /\ From(so1, ip) = A \union {s}
          BY <3>1, <4>1
        <5> HIDE DEF A
        <5>2. Cardinality(A \union {s}) = Cardinality(A) + 1
          BY <5>1, FS_AddElement
        <5> QED BY <5>1, <5>2 DEF A
      <4>3. pi1[ip] = pi[ip] + 1 /\ pi[ip] \in Nat
        BY <2>1, <3>2
      <4> QED BY <2>1, <3>1, <3>2, <4>2, <4>3
    <3>3. CASE ip # IpOf[s]
      <4>1. From(so1, ip) = From(so, ip)
        BY <1>1, <3>3 DEF From
      <4>2. pi1[ip] = pi[ip]
        BY <2>1, <3>3
      <4> QED BY <3>1, <4>1, <4>2
    <3> QED BY <3>2, <3>3
  <2> QED BY <2>1, <2>2
<1>7. un + 1 = Cardinality(Anonymous(so1))
  <2>1. Anonymous(so1) = Anonymous(so) \union {s} /\ s \notin Anonymous(so)
    BY <1>1 DEF Anonymous
  <2>2. IsFiniteSet(Anonymous(so)) /\ un = Cardinality(Anonymous(so))
    BY <1>2, <1>3, FS_Subset DEF Anonymous, Counted
  <2> QED BY <2>1, <2>2, FS_AddElement
<1>8. Counted(so1, pi1, un + 1)
  <2> HIDE DEF pi1
  <2> QED BY <1>6, <1>7 DEF Counted
<1> QED BY <1>4, <1>5, <1>8 DEF House, so1, pi1

\* The marks are counted when one row is written.
LEMMA OneRow ==
  ASSUME NEW so, IsFiniteSet(DOMAIN so), NEW s \in DOMAIN so, NEW c, c.anonymous \in BOOLEAN,
         so[s].anonymous \in BOOLEAN, c.anonymous => so[s].anonymous
  PROVE  /\ \A ip : From([so EXCEPT ![s] = c], ip) = From(so, ip)
         /\ IsFiniteSet(Anonymous(so)) /\ Cardinality(Anonymous(so)) \in Nat
         /\ Cardinality(Anonymous([so EXCEPT ![s] = c]))
              = Cardinality(Anonymous(so)) - (IF so[s].anonymous /\ ~c.anonymous THEN 1 ELSE 0)
<1> DEFINE so1 == [so EXCEPT ![s] = c]
<1>1. DOMAIN so1 = DOMAIN so /\ so1[s] = c /\ \A q \in DOMAIN so : q # s => so1[q] = so[q]
  OBVIOUS
<1> HIDE DEF so1
<1>2. \A ip : From(so1, ip) = From(so, ip)
  BY <1>1 DEF From
<1>3. IsFiniteSet(Anonymous(so)) /\ Cardinality(Anonymous(so)) \in Nat
  BY FS_Subset, FS_CardinalityType DEF Anonymous
<1>4. CASE so[s].anonymous /\ ~c.anonymous
  <2>1. Anonymous(so1) = Anonymous(so) \ {s} /\ s \in Anonymous(so)
    BY <1>1, <1>4 DEF Anonymous
  <2>2. Cardinality(Anonymous(so1)) = Cardinality(Anonymous(so)) - 1
    BY <1>3, <2>1, FS_RemoveElement
  <2>3. /\ \A ip : From(so1, ip) = From(so, ip)
        /\ Cardinality(Anonymous(so1))
             = Cardinality(Anonymous(so)) - (IF so[s].anonymous /\ ~c.anonymous THEN 1 ELSE 0)
    BY <1>2, <1>4, <2>2
  <2> QED BY <1>3, <2>3 DEF so1
<1>5. CASE ~(so[s].anonymous /\ ~c.anonymous)
  <2>1. Anonymous(so1) = Anonymous(so)
    BY <1>1, <1>5 DEF Anonymous
  <2>2. /\ \A ip : From(so1, ip) = From(so, ip)
        /\ Cardinality(Anonymous(so1))
             = Cardinality(Anonymous(so)) - (IF so[s].anonymous /\ ~c.anonymous THEN 1 ELSE 0)
    BY <1>2, <1>3, <1>5, <2>1
  <2> QED BY <1>3, <2>2 DEF so1
<1> QED BY <1>4, <1>5

\* One socket's row is written: it may name itself.
LEMMA HouseAfterRow ==
  ASSUME NEW so, NEW pi, NEW un, NEW ro, NEW me, House(so, pi, un, ro, me),
         NEW s \in DOMAIN so, s \notin DOMAIN me, NEW c \in SocketRows,
         c.anonymous => so[s].anonymous, c.anonymous <=> c.who = Nobody
  PROVE  House([so EXCEPT ![s] = c], pi,
               un - (IF so[s].anonymous /\ ~c.anonymous THEN 1 ELSE 0), ro, me)
<1> DEFINE so1 == [so EXCEPT ![s] = c]
           un1 == un - (IF so[s].anonymous /\ ~c.anonymous THEN 1 ELSE 0)
<1>1. DOMAIN so1 = DOMAIN so /\ so1[s] = c /\ \A q \in DOMAIN so : q # s => so1[q] = so[q]
  OBVIOUS
<1>2. Marked(so, me) /\ Counted(so, pi, un) /\ SeatedRight(so, ro, me)
  BY DEF House
<1>3. IsFiniteSet(DOMAIN so) /\ so[s].anonymous \in BOOLEAN /\ c.anonymous \in BOOLEAN
  BY <1>2 DEF Marked, SocketRows
<1>4. /\ \A ip : From(so1, ip) = From(so, ip)
      /\ Cardinality(Anonymous(so)) \in Nat
      /\ Cardinality(Anonymous(so1))
           = Cardinality(Anonymous(so)) - (IF so[s].anonymous /\ ~c.anonymous THEN 1 ELSE 0)
  BY <1>3, OneRow
<1> HIDE DEF so1
<1>5. Marked(so1, me)
  BY <1>1, <1>2 DEF Marked
<1>6. SeatedRight(so1, ro, me)
  BY <1>1, <1>2 DEF SeatedRight
<1>7. un = Cardinality(Anonymous(so)) /\ un <= MaxUnnamed /\ MaxUnnamed \in Nat
  BY <1>2, GateAssumption DEF Counted
<1>8. un1 = Cardinality(Anonymous(so1)) /\ un1 <= MaxUnnamed
  BY <1>4, <1>7
<1>9. Counted(so1, pi, un1)
  <2> HIDE DEF un1
  <2> QED BY <1>2, <1>4, <1>8 DEF Counted
<1> QED BY <1>5, <1>6, <1>9 DEF House, so1, un1

\* A socket without a name sits down: on a free slot, or in a room of its own.
LEMMA HouseAfterSeat ==
  ASSUME NEW so, NEW pi, NEW un, NEW ro, NEW me, House(so, pi, un, ro, me),
         NEW s \in DOMAIN so, s \notin DOMAIN me,
         NEW c \in SocketRows, ~c.anonymous,
         NEW id \in Room, NEW role \in Role, NEW now \in Nat,
         IF id \in DOMAIN ro THEN ro[id].slots[role] = Nobody ELSE Cardinality(DOMAIN ro) < MaxRooms,
         NEW row,
         row = IF id \in DOMAIN ro THEN [ro[id] EXCEPT !.slots[role] = s, !.last = now]
               ELSE [slots |-> [r \in Role |-> IF r = role THEN s ELSE Nobody], created |-> now, last |-> now]
  PROVE  House([so EXCEPT ![s] = c], pi, un - (IF so[s].anonymous THEN 1 ELSE 0),
               Put(ro, id, row), Put(me, s, [room |-> id, role |-> role]))
<1> DEFINE so1 == [so EXCEPT ![s] = c]
           un1 == un - (IF so[s].anonymous THEN 1 ELSE 0)
           ro1 == Put(ro, id, row)
           me1 == Put(me, s, [room |-> id, role |-> role])
<1>1. DOMAIN so1 = DOMAIN so /\ so1[s] = c /\ \A q \in DOMAIN so : q # s => so1[q] = so[q]
  OBVIOUS
<1>2. /\ DOMAIN ro1 = DOMAIN ro \union {id} /\ ro1[id] = row
      /\ \A x \in DOMAIN ro : x # id => ro1[x] = ro[x]
  <2> HIDE DEF so1, un1, me1
  <2> QED BY DEF Put
<1>3. /\ DOMAIN me1 = DOMAIN me \union {s} /\ me1[s].room = id /\ me1[s].role = role
      /\ \A q \in DOMAIN me : me1[q] = me[q]
  <2> HIDE DEF so1, un1, ro1
  <2> QED BY DEF Put
<1>4. Marked(so, me) /\ Counted(so, pi, un) /\ SeatedRight(so, ro, me)
  BY DEF House
<1>5. IsFiniteSet(DOMAIN so) /\ so[s].anonymous \in BOOLEAN /\ c.anonymous \in BOOLEAN /\ s \in Socket
  BY <1>4 DEF Marked, SocketRows
<1>6. /\ \A ip : From(so1, ip) = From(so, ip)
      /\ Cardinality(Anonymous(so)) \in Nat
      /\ Cardinality(Anonymous(so1)) = Cardinality(Anonymous(so)) - (IF so[s].anonymous THEN 1 ELSE 0)
  BY <1>5, OneRow
<1> HIDE DEF so1, ro1, me1
<1>7. Marked(so1, me1)
  BY <1>1, <1>3, <1>4 DEF Marked
<1>8. Counted(so1, pi, un1)
  <2>1. un = Cardinality(Anonymous(so)) /\ un <= MaxUnnamed /\ MaxUnnamed \in Nat
    BY <1>4, GateAssumption DEF Counted
  <2>2. un1 = Cardinality(Anonymous(so1)) /\ un1 <= MaxUnnamed
    BY <1>6, <2>1
  <2> HIDE DEF un1
  <2> QED BY <1>4, <1>6, <2>2 DEF Counted
<1>9. s # Nobody
  BY <1>5, GateAssumption
<1>10. /\ row \in RoomRows /\ row.slots[role] = s
       /\ \A r \in Role : r # role =>
            row.slots[r] = IF id \in DOMAIN ro THEN ro[id].slots[r] ELSE Nobody
  <2>1. CASE id \in DOMAIN ro
    <3>1. ro[id] \in RoomRows
      BY <1>4, <2>1 DEF SeatedRight
    <3>2. row = [ro[id] EXCEPT !.slots[role] = s, !.last = now]
      BY <2>1
    <3>3. /\ row \in RoomRows /\ row.slots[role] = s
          /\ \A r \in Role : r # role => row.slots[r] = ro[id].slots[r]
      <4>1. PICK slots \in [Role -> Socket \union {Nobody}], created \in Nat, last \in Nat :
              ro[id] = [slots |-> slots, created |-> created, last |-> last]
        BY <3>1 DEF RoomRows
      <4>2. /\ ro[id].slots = slots /\ ro[id].created = created
            /\ DOMAIN ro[id] = {"slots", "created", "last"}
        BY <4>1
      <4>3. /\ DOMAIN row = {"slots", "created", "last"}
            /\ row.slots = [slots EXCEPT ![role] = s] /\ row.created = created /\ row.last = now
        BY <3>2, <4>2
      <4>4. row = [x \in {"slots", "created", "last"} |-> row[x]]
        BY <3>2, <4>2
      <4> QED BY <1>5, <4>2, <4>3, <4>4 DEF RoomRows
    <3> QED BY <2>1, <3>3
  <2>2. CASE id \notin DOMAIN ro
    BY <1>5, <2>2 DEF RoomRows
  <2> QED BY <2>1, <2>2
<1>11. SeatedRight(so1, ro1, me1)
  <2>1. DOMAIN me1 \subseteq DOMAIN so1
    BY <1>1, <1>3, <1>4 DEF SeatedRight
  <2>2. ASSUME NEW q \in DOMAIN me1
        PROVE  /\ me1[q].room \in DOMAIN ro1 /\ me1[q].role \in Role
               /\ ro1[me1[q].room].slots[me1[q].role] = q
    <3>1. CASE q = s
      BY <1>2, <1>3, <1>10, <3>1
    <3>2. CASE q # s
      <4>1. /\ q \in DOMAIN me /\ me1[q] = me[q] /\ me[q].room \in DOMAIN ro /\ me[q].role \in Role
            /\ ro[me[q].room].slots[me[q].role] = q
        BY <1>3, <1>4, <3>2 DEF SeatedRight
      <4>2. q # Nobody
        BY <1>4, <4>1, GateAssumption DEF SeatedRight, Marked
      <4>3. CASE me[q].room = id
        <5>1. id \in DOMAIN ro /\ ro[id].slots[me[q].role] = q /\ ro1[id] = row
          BY <1>2, <4>1, <4>3
        <5>2. me[q].role # role
          BY <4>2, <5>1
        <5>3. row.slots[me[q].role] = q
          BY <1>10, <4>1, <5>1, <5>2
        <5> QED BY <1>2, <4>1, <4>3, <5>1, <5>3
      <4>4. CASE me[q].room # id
        BY <1>2, <4>1, <4>4
      <4> QED BY <4>3, <4>4
    <3> QED BY <3>1, <3>2
  <2>3. IsFiniteSet(DOMAIN ro1) /\ DOMAIN ro1 \subseteq Room /\ Cardinality(DOMAIN ro1) <= MaxRooms
    <3>1. IsFiniteSet(DOMAIN ro) /\ DOMAIN ro \subseteq Room /\ Cardinality(DOMAIN ro) <= MaxRooms
      BY <1>4 DEF SeatedRight
    <3>2. Cardinality(DOMAIN ro) \in Nat /\ MaxRooms \in Nat
      BY <3>1, FS_CardinalityType, RoomsAssumption
    <3>3. /\ IsFiniteSet(DOMAIN ro1)
          /\ Cardinality(DOMAIN ro1) = IF id \in DOMAIN ro THEN Cardinality(DOMAIN ro) ELSE Cardinality(DOMAIN ro) + 1
      BY <1>2, <3>1, FS_AddElement
    <3> QED BY <1>2, <3>1, <3>2, <3>3
  <2>4. ASSUME NEW x \in DOMAIN ro1
        PROVE  /\ ro1[x] \in RoomRows
               /\ \E r \in Role : ro1[x].slots[r] # Nobody
               /\ \A r \in Role : ro1[x].slots[r] # Nobody =>
                    ro1[x].slots[r] \in DOMAIN me1 /\ me1[ro1[x].slots[r]].room = x
    <3>1. \A y \in DOMAIN ro :
            /\ ro[y] \in RoomRows
            /\ \E r \in Role : ro[y].slots[r] # Nobody
            /\ \A r \in Role : ro[y].slots[r] # Nobody =>
                 ro[y].slots[r] \in DOMAIN me /\ me[ro[y].slots[r]].room = y
      BY <1>4 DEF SeatedRight
    <3>2. CASE x # id
      <4>1. x \in DOMAIN ro /\ ro1[x] = ro[x]
        BY <1>2, <3>2
      <4> QED BY <1>3, <3>1, <4>1
    <3>3. CASE x = id
      <4>1. ASSUME NEW r \in Role, row.slots[r] # Nobody
            PROVE  row.slots[r] \in DOMAIN me1 /\ me1[row.slots[r]].room = id
        <5>1. CASE r = role
          BY <1>3, <1>10, <5>1
        <5>2. CASE r # role
          <6>1. id \in DOMAIN ro /\ row.slots[r] = ro[id].slots[r]
            BY <1>10, <4>1, <5>2
          <6>2. ro[id].slots[r] \in DOMAIN me /\ me[ro[id].slots[r]].room = id
            BY <3>1, <4>1, <6>1
          <6> QED BY <1>3, <6>1, <6>2
        <5> QED BY <5>1, <5>2
      <4> QED BY <1>2, <1>9, <1>10, <3>3, <4>1
    <3> QED BY <3>2, <3>3
  <2> QED BY <2>1, <2>2, <2>3, <2>4 DEF SeatedRight
<1> QED BY <1>7, <1>8, <1>11 DEF House, so1, un1, ro1, me1

(***************************************************************************)
(* The challenges.                                                         *)
(***************************************************************************)
\* Challenges and invoices of the sockets were given, no challenge to two of
\* them; and who may still ask has one, or was told why not.
RowsTrue(so, me, nn, nr) ==
  \A s \in DOMAIN so :
    /\ so[s].nonce < nn /\ so[s].ref < nr
    /\ so[s].who = Nobody /\ s \notin DOMAIN me => so[s].nonce # 0 \/ so[s].told
    /\ \A q \in DOMAIN so \ {s} : so[q].nonce = so[s].nonce => so[s].nonce = 0

IssuedTrue(iss, nn) ==
  /\ nn \in Nat \ {0}
  /\ DOMAIN iss \subseteq 1 .. nn - 1 /\ Cardinality(DOMAIN iss) <= MaxNonces

GateInv ==
  /\ House(sockets, perIp, unnamed, rooms, members)
  /\ RowsTrue(sockets, members, nextNonce, nextRef)
  /\ IssuedTrue(issued, nextNonce)

\* Challenges that go, are kept or are swept.
LEMMA FewerIssued ==
  ASSUME NEW iss, NEW nn, IssuedTrue(iss, nn), NEW jss, DOMAIN jss \subseteq DOMAIN iss
  PROVE  IssuedTrue(jss, nn) /\ IsFiniteSet(DOMAIN jss) /\ Cardinality(DOMAIN jss) \in Nat
<1>1. IsFiniteSet(1 .. nn - 1)
  BY FS_Interval DEF IssuedTrue
<1>2. IsFiniteSet(DOMAIN iss)
  BY <1>1, FS_Subset DEF IssuedTrue
<1>3. IsFiniteSet(DOMAIN jss) /\ Cardinality(DOMAIN jss) <= Cardinality(DOMAIN iss)
  BY <1>2, FS_Subset
<1>4. Cardinality(DOMAIN jss) \in Nat /\ Cardinality(DOMAIN iss) \in Nat /\ MaxNonces \in Nat
  BY <1>2, <1>3, FS_CardinalityType, GateAssumption
<1> QED BY <1>3, <1>4 DEF IssuedTrue

LEMMA SpareIsFewer ==
  ASSUME NEW iss
  PROVE  DOMAIN Spare(iss) \subseteq DOMAIN iss /\ DOMAIN Alive(iss) \subseteq DOMAIN iss
BY RestrictAt DEF Spare, Alive

\* Another challenge fits in.
LEMMA OneMoreIssued ==
  ASSUME NEW iss, IssuedTrue(issued, nextNonce), DOMAIN iss \subseteq DOMAIN issued, ~Full(iss)
  PROVE  IssuedTrue(With(iss), nextNonce + 1)
<1> DEFINE sp == Spare(iss)
<1>1. DOMAIN sp \subseteq DOMAIN issued
  BY SpareIsFewer
<1>2. IsFiniteSet(DOMAIN sp) /\ Cardinality(DOMAIN sp) \in Nat /\ IssuedTrue(sp, nextNonce)
  BY <1>1, FewerIssued
<1>3. Cardinality(DOMAIN sp) < MaxNonces /\ MaxNonces \in Nat
  BY <1>2, GateAssumption DEF Full
<1>4. DOMAIN With(iss) = DOMAIN sp \union {nextNonce}
  BY DEF With, Put
<1> HIDE DEF sp
<1>5. nextNonce \notin DOMAIN sp /\ nextNonce \in Nat \ {0}
  BY <1>2 DEF IssuedTrue
<1>6. Cardinality(DOMAIN With(iss)) = Cardinality(DOMAIN sp) + 1
  BY <1>2, <1>4, <1>5, FS_AddElement
<1>7. DOMAIN With(iss) \subseteq 1 .. (nextNonce + 1) - 1
  BY <1>2, <1>4, <1>5 DEF IssuedTrue
<1> QED BY <1>2, <1>3, <1>5, <1>6, <1>7 DEF IssuedTrue

\* Who sits in the rooms ids.
LEMMA SeatedIn ==
  ASSUME House(sockets, perIp, unnamed, rooms, members), NEW ids \in SUBSET DOMAIN rooms
  PROVE  /\ UNION {Seated(id) : id \in ids} \subseteq DOMAIN members
         /\ \A s \in DOMAIN members :
              s \in UNION {Seated(id) : id \in ids} <=> members[s].room \in ids
<1>1. SeatedRight(sockets, rooms, members)
  BY DEF House
<1>2. ASSUME NEW id \in ids, NEW s \in Seated(id)
      PROVE  s \in DOMAIN members /\ members[s].room = id
  BY <1>1, <1>2 DEF SeatedRight, Seated
<1>3. ASSUME NEW s \in DOMAIN members, members[s].room \in ids
      PROVE  s \in Seated(members[s].room)
  <2>1. s # Nobody
    BY <1>3, GateAssumption DEF House, SeatedRight, Marked
  <2> QED BY <1>1, <2>1 DEF SeatedRight, Seated
<1> QED BY <1>2, <1>3

\* Sockets end with the rooms they sat in.
LEMMA LeavingKeeps ==
  ASSUME GateInv, NEW S \in SUBSET DOMAIN sockets, NEW ids \in SUBSET DOMAIN rooms,
         UNION {Seated(id) : id \in ids} \subseteq S,
         \A s \in S \intersect DOMAIN members : members[s].room \in ids,
         Ended(S), CloseRooms(ids), unnamed' = unnamed - Unnamed(S),
         nextNonce' = nextNonce, nextRef <= nextRef', nextRef \in Nat, nextRef' \in Nat,
         DOMAIN issued' \subseteq DOMAIN issued
  PROVE  GateInv'
<1> DEFINE M == UNION {Seated(id) : id \in ids}
<1>1. House(sockets, perIp, unnamed, rooms, members)
  BY DEF GateInv
<1>2. /\ \A s \in DOMAIN members : s \in M <=> members[s].room \in ids
      /\ M \subseteq DOMAIN members
  BY <1>1, SeatedIn
<1>3. \A s \in S : s \in DOMAIN members => s \in M
  BY <1>2
<1>4. M \subseteq S
  OBVIOUS
<1>5. /\ sockets' = Restrict(sockets, DOMAIN sockets \ S)
      /\ perIp' = PerIpWithout(perIp, S)
      /\ unnamed' = UnnamedWithout(sockets, unnamed, S)
      /\ rooms' = Restrict(rooms, DOMAIN rooms \ ids)
      /\ members' = Restrict(members, DOMAIN members \ M)
  BY DEF Ended, CloseRooms, Unnamed, PerIpWithout, UnnamedWithout
<1> HIDE DEF M
<1>6. House(sockets', perIp', unnamed', rooms', members')
  <2>1. House(Restrict(sockets, DOMAIN sockets \ S), PerIpWithout(perIp, S),
              UnnamedWithout(sockets, unnamed, S),
              Restrict(rooms, DOMAIN rooms \ ids), Restrict(members, DOMAIN members \ M))
    BY <1>1, <1>2, <1>3, <1>4, HouseAfterLeave
  <2> QED BY <1>5, <2>1
<1>7. RowsTrue(sockets', members', nextNonce', nextRef')
  <2>1. /\ DOMAIN sockets' = DOMAIN sockets \ S
        /\ \A s \in DOMAIN sockets' : sockets'[s] = sockets[s]
        /\ DOMAIN members' = DOMAIN members \ M
    BY <1>5, RestrictAt
  <2>2. RowsTrue(sockets, members, nextNonce, nextRef)
    BY DEF GateInv
  <2>3. \A s \in DOMAIN sockets : sockets[s].ref \in Nat
    BY <1>1 DEF House, Marked, SocketRows
  <2> SUFFICES ASSUME NEW s \in DOMAIN sockets'
               PROVE  /\ sockets'[s].nonce < nextNonce' /\ sockets'[s].ref < nextRef'
                      /\ sockets'[s].who = Nobody /\ s \notin DOMAIN members' =>
                           sockets'[s].nonce # 0 \/ sockets'[s].told
                      /\ \A q \in DOMAIN sockets' \ {s} :
                           sockets'[q].nonce = sockets'[s].nonce => sockets'[s].nonce = 0
    BY DEF RowsTrue
  <2>4. s \in DOMAIN sockets /\ sockets'[s] = sockets[s] /\ (s \in DOMAIN members' <=> s \in DOMAIN members)
    BY <1>4, <2>1
  <2>5. /\ sockets[s].nonce < nextNonce /\ sockets[s].ref < nextRef
        /\ sockets[s].who = Nobody /\ s \notin DOMAIN members => sockets[s].nonce # 0 \/ sockets[s].told
        /\ \A q \in DOMAIN sockets \ {s} : sockets[q].nonce = sockets[s].nonce => sockets[s].nonce = 0
    BY <2>2, <2>4 DEF RowsTrue
  <2> QED BY <2>1, <2>3, <2>4, <2>5
<1>8. IssuedTrue(issued', nextNonce')
  BY FewerIssued DEF GateInv
<1> QED BY <1>6, <1>7, <1>8 DEF GateInv

\* What no socket notices.
LEMMA QuietKeeps ==
  ASSUME GateInv, nextRef \in Nat, UNCHANGED <<sockets, perIp, unnamed, rooms, members, nextNonce>>,
         nextRef' = nextRef, DOMAIN issued' \subseteq DOMAIN issued
  PROVE  GateInv'
<1>1. IssuedTrue(issued', nextNonce')
  BY FewerIssued DEF GateInv
<1>2. House(sockets', perIp', unnamed', rooms', members')
  BY DEF GateInv
<1>3. RowsTrue(sockets', members', nextNonce', nextRef')
  BY DEF GateInv
<1> QED BY <1>1, <1>2, <1>3 DEF GateInv

\* handleClose.
LEMMA LeaveKeeps ==
  ASSUME GateInv, NEW s \in DOMAIN sockets, Leave(s),
         nextNonce' = nextNonce, nextRef <= nextRef', nextRef \in Nat, nextRef' \in Nat,
         DOMAIN issued' \subseteq DOMAIN issued
  PROVE  GateInv'
<1>1. House(sockets, perIp, unnamed, rooms, members) /\ SeatedRight(sockets, rooms, members)
  BY DEF GateInv, House
<1> DEFINE ids == RoomsOf({s})
<1>2. ids \in SUBSET DOMAIN rooms
  BY <1>1 DEF RoomsOf, SeatedRight
<1>3. UNION {Seated(id) : id \in ids} \subseteq DOMAIN members
  BY <1>1, <1>2, SeatedIn
<1>4. Parted({s}) = {s} \union UNION {Seated(id) : id \in ids}
  BY DEF Parted
<1>5. \A q \in Parted({s}) \intersect DOMAIN members : members[q].room \in ids
  <2> SUFFICES ASSUME NEW q \in DOMAIN members, q \in Parted({s}) PROVE members[q].room \in ids
    OBVIOUS
  <2>1. CASE q = s
    BY <2>1 DEF RoomsOf
  <2>2. CASE q \in UNION {Seated(id) : id \in ids}
    BY <1>1, <1>2, <2>2, SeatedIn
  <2> QED BY <1>4, <2>1, <2>2
<1>6. Parted({s}) \in SUBSET DOMAIN sockets
  BY <1>1, <1>3, <1>4 DEF SeatedRight
<1>7. Ended(Parted({s})) /\ CloseRooms(ids) /\ unnamed' = unnamed - Unnamed(Parted({s}))
  BY DEF Leave
<1>8. UNION {Seated(id) : id \in ids} \subseteq Parted({s})
  BY <1>4
<1> HIDE DEF ids
<1> QED BY <1>2, <1>5, <1>6, <1>7, <1>8, LeavingKeeps

\* One row is written, with the challenge that was given last or with none.
LEMMA RowKeeps ==
  ASSUME GateInv, NEW s \in DOMAIN sockets, s \notin DOMAIN members, NEW c \in SocketRows,
         c.anonymous => sockets[s].anonymous, c.anonymous <=> c.who = Nobody,
         sockets' = [sockets EXCEPT ![s] = c],
         unnamed' = unnamed - (IF sockets[s].anonymous /\ ~c.anonymous THEN 1 ELSE 0),
         UNCHANGED <<perIp, rooms, members>>,
         nextRef <= nextRef', nextRef \in Nat, nextRef' \in Nat, c.ref < nextRef',
         \/ c.nonce = 0 /\ nextNonce' = nextNonce /\ (c.who = Nobody => c.told)
         \/ c.nonce = nextNonce /\ nextNonce' = nextNonce + 1,
         IssuedTrue(issued', nextNonce')
  PROVE  GateInv'
<1>1. House(sockets, perIp, unnamed, rooms, members) /\ IssuedTrue(issued, nextNonce)
      /\ RowsTrue(sockets, members, nextNonce, nextRef)
  BY DEF GateInv
<1>2. House([sockets EXCEPT ![s] = c], perIp,
            unnamed - (IF sockets[s].anonymous /\ ~c.anonymous THEN 1 ELSE 0), rooms, members)
  BY <1>1, HouseAfterRow
<1>3. House(sockets', perIp', unnamed', rooms', members')
  BY <1>2
<1>4. RowsTrue(sockets', members', nextNonce', nextRef')
  <2>1. /\ DOMAIN sockets' = DOMAIN sockets /\ sockets'[s] = c
        /\ \A q \in DOMAIN sockets : q # s => sockets'[q] = sockets[q]
        /\ members' = members
    OBVIOUS
  <2>2. nextNonce \in Nat \ {0} /\ nextNonce <= nextNonce' /\ nextNonce' \in Nat
    BY <1>1 DEF IssuedTrue
  <2>3. \A q \in DOMAIN sockets : sockets[q].ref \in Nat /\ sockets[q].nonce \in Nat
    BY <1>1 DEF House, Marked, SocketRows
  <2>4. \A q \in DOMAIN sockets : sockets[q].nonce < nextNonce
    BY <1>1 DEF RowsTrue
  <2>5. ASSUME NEW q \in DOMAIN sockets
        PROVE  /\ sockets'[q].nonce < nextNonce' /\ sockets'[q].ref < nextRef'
               /\ sockets'[q].who = Nobody /\ q \notin DOMAIN members =>
                    sockets'[q].nonce # 0 \/ sockets'[q].told
    <3>1. CASE q = s
      BY <2>1, <2>2, <3>1
    <3>2. CASE q # s
      <4>1. /\ sockets[q].nonce < nextNonce /\ sockets[q].ref < nextRef
            /\ sockets[q].who = Nobody /\ q \notin DOMAIN members =>
                 sockets[q].nonce # 0 \/ sockets[q].told
        BY <1>1 DEF RowsTrue
      <4> QED BY <2>1, <2>2, <2>3, <3>2, <4>1
    <3> QED BY <3>1, <3>2
  <2>6. ASSUME NEW q \in DOMAIN sockets, NEW x \in DOMAIN sockets \ {q},
               sockets'[x].nonce = sockets'[q].nonce
        PROVE  sockets'[q].nonce = 0
    <3>1. CASE q # s /\ x # s
      BY <1>1, <2>1, <2>6, <3>1 DEF RowsTrue
    <3>2. CASE c.nonce = 0
      BY <2>1, <2>6, <1>1, <3>2 DEF RowsTrue
    <3>3. CASE (q = s \/ x = s) /\ c.nonce = nextNonce
      BY <2>1, <2>2, <2>3, <2>4, <2>6, <3>3
    <3> QED BY <3>1, <3>2, <3>3
  <2> QED BY <2>1, <2>5, <2>6 DEF RowsTrue
<1> QED BY <1>3, <1>4 DEF GateInv

\* authFail.
LEMMA RefuseKeeps ==
  ASSUME GateInv, NEW s \in DOMAIN sockets, s \notin DOMAIN members, NEW c \in SocketRows,
         c.anonymous, c.who = Nobody, sockets[s].anonymous,
         NEW iss, DOMAIN iss \subseteq DOMAIN issued, Refuse(s, c, iss),
         nextRef <= nextRef', nextRef \in Nat, nextRef' \in Nat, c.ref < nextRef'
  PROVE  GateInv'
<1>1. CASE Full(iss)
  <2>1. Leave(s) /\ issued' = Spare(iss) /\ nextNonce' = nextNonce
    BY <1>1 DEF Refuse
  <2>2. DOMAIN issued' \subseteq DOMAIN issued
    BY <2>1, SpareIsFewer
  <2> QED BY <2>1, <2>2, LeaveKeeps
<1>2. CASE ~Full(iss)
  <2> DEFINE d == [c EXCEPT !.nonce = nextNonce]
  <2>1. /\ sockets' = [sockets EXCEPT ![s] = d]
        /\ issued' = With(iss) /\ nextNonce' = nextNonce + 1
        /\ UNCHANGED <<perIp, unnamed, rooms, members>>
    BY <1>2 DEF Refuse, counters, roomVars
  <2>2. IssuedTrue(issued, nextNonce) /\ nextNonce \in Nat
    BY DEF GateInv, IssuedTrue
  <2>3. IssuedTrue(issued', nextNonce')
    BY <1>2, <2>1, <2>2, OneMoreIssued
  <2>4. /\ d \in SocketRows /\ d.nonce = nextNonce /\ d.anonymous = c.anonymous
        /\ d.who = c.who /\ d.ref = c.ref
    BY <2>2 DEF SocketRows
  <2>5. unnamed \in Nat
    <3>1. IsFiniteSet(Anonymous(sockets)) /\ unnamed = Cardinality(Anonymous(sockets))
      BY FS_Subset DEF GateInv, House, Marked, Counted, Anonymous
    <3> QED BY <3>1, FS_CardinalityType
  <2> HIDE DEF d
  <2>6. unnamed' = unnamed - (IF sockets[s].anonymous /\ ~d.anonymous THEN 1 ELSE 0)
    BY <2>1, <2>4, <2>5
  <2> QED BY <2>1, <2>2, <2>3, <2>4, <2>6, RowKeeps
<1> QED BY <1>1, <1>2

\* The row of a socket that asks, once it has tried.
LEMMA AskingRows ==
  ASSUME GateInv, NEW s, Asking(s), ~TooMany(s)
  PROVE  /\ s \in DOMAIN sockets /\ s \in Socket /\ s \notin DOMAIN members
         /\ sockets[s] \in SocketRows /\ sockets[s].anonymous = TRUE
         /\ sockets[s].who = Nobody /\ sockets[s].ref < nextRef
         /\ Tried(s) \in SocketRows /\ Tried(s).anonymous = TRUE /\ Tried(s).who = Nobody
         /\ Tried(s).ref = sockets[s].ref
         /\ Answered(s) \in SocketRows /\ Answered(s).anonymous = TRUE /\ Answered(s).who = Nobody
         /\ Answered(s).ref = sockets[s].ref /\ Answered(s).nonce = 0
<1>1. s \in DOMAIN sockets /\ s \notin DOMAIN members /\ sockets[s].who = Nobody
  BY DEF Asking, Joined
<1>2. sockets[s] \in SocketRows /\ sockets[s].anonymous /\ s \in Socket
  BY <1>1 DEF GateInv, House, Marked
<1>3. sockets[s].anonymous = TRUE /\ sockets[s].tries \in Nat /\ sockets[s].ref < nextRef
  BY <1>1, <1>2, GateAssumption DEF SocketRows, GateInv, RowsTrue
<1>4. sockets[s].tries + 1 \in 0 .. MaxTries
  BY <1>3, GateAssumption DEF TooMany
<1>5. /\ Tried(s) \in SocketRows /\ Tried(s).anonymous = TRUE /\ Tried(s).who = Nobody
      /\ Tried(s).ref = sockets[s].ref
  BY <1>1, <1>2, <1>3, <1>4 DEF Tried, SocketRows
<1>6. /\ Answered(s) \in SocketRows /\ Answered(s).anonymous = TRUE /\ Answered(s).who = Nobody
      /\ Answered(s).ref = sockets[s].ref /\ Answered(s).nonce = 0
  BY <1>5 DEF Answered, SocketRows
<1> QED BY <1>1, <1>2, <1>3, <1>5, <1>6

\* One step of the sockets.
LEMMA GateStep == GateInv /\ PayInv /\ [Next]_vars => GateInv'
<1> SUFFICES ASSUME GateInv, PayInv, [Next]_vars PROVE GateInv'
  OBVIOUS
<1> DEFINE Goal == GateInv'
<1>1. clock \in Nat /\ nextRef \in Nat \ {0}
      /\ \A r \in DOMAIN invoices : r \in 1 .. nextRef - 1
  BY DEF PayInv, PayTypes
<1>2. House(sockets, perIp, unnamed, rooms, members) /\ IssuedTrue(issued, nextNonce)
      /\ nextNonce \in Nat \ {0}
  BY DEF GateInv, IssuedTrue
<1>3. /\ Marked(sockets, members) /\ Counted(sockets, perIp, unnamed)
      /\ SeatedRight(sockets, rooms, members)
  BY <1>2 DEF House
<1>4. unnamed \in Nat
  <2>1. IsFiniteSet(Anonymous(sockets)) /\ unnamed = Cardinality(Anonymous(sockets))
    BY <1>3, FS_Subset DEF Marked, Counted, Anonymous
  <2> QED BY <2>1, FS_CardinalityType
<1>5. ASSUME UNCHANGED <<gateVars, roomVars>>, nextRef' = nextRef PROVE Goal
  BY <1>1, <1>5, QuietKeeps DEF gateVars, roomVars
<1>6. \A n : DOMAIN Without(issued, n) \subseteq DOMAIN issued
  BY RestrictAt DEF Without
<1>7. \A n : IssuedTrue(Without(issued, n), nextNonce)
  BY <1>2, <1>6, FewerIssued
<1>8. Stale(clock) \in SUBSET DOMAIN rooms /\ Swept(clock) \subseteq DOMAIN members
      /\ Swept(clock) \subseteq DOMAIN sockets
      /\ \A s \in DOMAIN members : s \in Swept(clock) <=> members[s].room \in Stale(clock)
  <2>1. Stale(clock) \in SUBSET DOMAIN rooms
    BY DEF Stale
  <2>2. Swept(clock) = UNION {Seated(id) : id \in Stale(clock)}
    BY DEF Swept
  <2> QED BY <1>2, <1>3, <2>1, <2>2, SeatedIn DEF SeatedRight
<1> HIDE DEF Goal
<1>9. ASSUME NEW s \in Socket, Open(s) PROVE Goal
  <2> DEFINE c == [anonymous |-> TRUE, nonce |-> nextNonce, tries |-> 0,
                   who |-> Nobody, ref |-> 0, told |-> FALSE]
  <2>1. /\ s \notin DOMAIN sockets /\ perIp[IpOf[s]] < MaxPerIp /\ unnamed + 1 <= MaxUnnamed
        /\ ~Full(issued)
        /\ sockets' = Put(sockets, s, c)
        /\ perIp' = [perIp EXCEPT ![IpOf[s]] = @ + 1] /\ unnamed' = unnamed + 1
        /\ issued' = With(issued) /\ nextNonce' = nextNonce + 1
        /\ rooms' = rooms /\ members' = members /\ nextRef' = nextRef
    BY <1>9 DEF Open, roomVars, payVars
  <2>2. /\ c \in SocketRows /\ c.anonymous /\ c.who = Nobody /\ c.nonce = nextNonce /\ c.ref = 0
    BY <1>2, GateAssumption DEF SocketRows
  <2> HIDE DEF c
  <2>3. House(Put(sockets, s, c), [perIp EXCEPT ![IpOf[s]] = @ + 1], unnamed + 1, rooms, members)
    BY <1>2, <2>1, <2>2, HouseAfterOpen
  <2>4. House(sockets', perIp', unnamed', rooms', members')
    BY <2>1, <2>3
  <2>5. IssuedTrue(issued', nextNonce')
    BY <1>2, <2>1, OneMoreIssued
  <2>6. RowsTrue(sockets', members', nextNonce', nextRef')
    <3>1. /\ DOMAIN sockets' = DOMAIN sockets \union {s} /\ sockets'[s] = c
          /\ \A q \in DOMAIN sockets : sockets'[q] = sockets[q]
      BY <2>1 DEF Put
    <3>2. /\ RowsTrue(sockets, members, nextNonce, nextRef)
          /\ \A q \in DOMAIN sockets : sockets[q].nonce \in Nat /\ sockets[q].nonce < nextNonce
      BY <1>3 DEF GateInv, RowsTrue, Marked, SocketRows
    <3> QED BY <1>1, <1>2, <2>1, <2>2, <3>1, <3>2 DEF RowsTrue
  <2> QED BY <2>4, <2>5, <2>6 DEF GateInv, Goal
<1>10. ASSUME NEW s \in Socket, OpenBusy(s) PROVE Goal
  <2>1. DOMAIN issued' \subseteq DOMAIN issued
    BY <1>10, SpareIsFewer DEF OpenBusy
  <2> QED BY <1>1, <1>10, <2>1, QuietKeeps DEF OpenBusy, counters, payVars, roomVars, Goal
<1>11. ASSUME NEW s \in Socket, Close(s) PROVE Goal
  BY <1>1, <1>11, LeaveKeeps DEF Close, payVars, Goal
<1>12. ASSUME NEW s \in Socket, AuthRefused(s) PROVE Goal
  <2>1. /\ Asking(s) /\ ~TooMany(s) /\ nextRef' = nextRef
        /\ \E c \in {Answered(s), Tried(s)} : Refuse(s, c, Without(issued, sockets[s].nonce))
    BY <1>12 DEF AuthRefused, payVars
  <2>2. PICK c \in {Answered(s), Tried(s)} : Refuse(s, c, Without(issued, sockets[s].nonce))
    BY <2>1
  <2>3. /\ s \in DOMAIN sockets /\ s \notin DOMAIN members /\ sockets[s].anonymous
        /\ c \in SocketRows /\ c.anonymous /\ c.who = Nobody /\ c.ref < nextRef
    BY <2>1, <2>2, AskingRows
  <2> QED BY <1>1, <1>6, <2>1, <2>2, <2>3, RefuseKeeps DEF Goal
<1>13. ASSUME NEW s \in Socket, NEW u \in Person, NEW t, AdmitRefused(s, u, t) PROVE Goal
  <2>1. /\ Asking(s) /\ ~TooMany(s) /\ nextRef' = nextRef
        /\ Refuse(s, Answered(s), Without(issued, sockets[s].nonce))
    BY <1>13 DEF AdmitRefused, payVars
  <2>2. /\ s \in DOMAIN sockets /\ s \notin DOMAIN members /\ sockets[s].anonymous
        /\ Answered(s) \in SocketRows /\ Answered(s).anonymous /\ Answered(s).who = Nobody
        /\ Answered(s).ref < nextRef
    BY <2>1, AskingRows
  <2> QED BY <1>1, <1>6, <2>1, <2>2, RefuseKeeps DEF Goal
<1>14. ASSUME NEW s \in Socket, NEW u \in Person, OnAuth(s, u) PROVE Goal
  <2> DEFINE c == [Answered(s) EXCEPT !.who = u, !.anonymous = FALSE, !.ref = 0]
  <2>1. /\ Asking(s) /\ ~TooMany(s)
        /\ issued' = Without(issued, sockets[s].nonce) /\ nextNonce' = nextNonce
        /\ sockets' = [sockets EXCEPT ![s] = c]
        /\ unnamed' = IF sockets[s].anonymous THEN unnamed - 1 ELSE unnamed
        /\ perIp' = perIp /\ rooms' = rooms /\ members' = members /\ nextRef' = nextRef
    BY <1>14 DEF OnAuth, Named, roomVars
  <2>2. /\ s \in DOMAIN sockets /\ s \notin DOMAIN members /\ sockets[s].anonymous = TRUE
        /\ Answered(s) \in SocketRows /\ Answered(s).nonce = 0
    BY <2>1, AskingRows
  <2>3. /\ c \in SocketRows /\ c.anonymous = FALSE /\ c.who = u /\ c.ref = 0 /\ c.nonce = 0
    BY <2>2 DEF SocketRows
  <2>4. u # Nobody
    BY GateAssumption
  <2> HIDE DEF c
  <2>5. unnamed' = unnamed - (IF sockets[s].anonymous /\ ~c.anonymous THEN 1 ELSE 0)
    BY <2>1, <2>2, <2>3
  <2>6. IssuedTrue(issued', nextNonce')
    BY <1>7, <2>1
  <2>7. /\ c.anonymous => sockets[s].anonymous
        /\ c.anonymous <=> c.who = Nobody
        /\ nextRef <= nextRef' /\ nextRef \in Nat /\ nextRef' \in Nat /\ c.ref < nextRef'
        /\ c.who = Nobody => c.told
        /\ UNCHANGED <<perIp, rooms, members>>
    BY <1>1, <2>1, <2>3, <2>4
  <2>8. sockets' = [sockets EXCEPT ![s] = c] /\ c \in SocketRows /\ c.nonce = 0 /\ nextNonce' = nextNonce
    BY <2>1, <2>3
  <2> QED BY <2>2, <2>5, <2>6, <2>7, <2>8, RowKeeps DEF Goal
<1>15. ASSUME NEW s \in Socket, NEW u \in Person, OnPayRequest(s, u) PROVE Goal
  <2> DEFINE iss == Without(issued, sockets[s].nonce)
  <2>1. Asking(s) /\ ~TooMany(s)
    BY <1>15 DEF OnPayRequest
  <2>2. /\ s \in DOMAIN sockets /\ s \notin DOMAIN members /\ sockets[s].anonymous = TRUE
        /\ Answered(s) \in SocketRows /\ Answered(s).anonymous = TRUE /\ Answered(s).who = Nobody
        /\ Answered(s).nonce = 0 /\ Answered(s).ref < nextRef
    BY <2>1, AskingRows
  <2>3. CASE /\ issued' = iss
             /\ sockets' = [sockets EXCEPT ![s] = [Answered(s) EXCEPT !.told = TRUE]]
             /\ UNCHANGED <<invoices, nextRef, counters, nextNonce, roomVars>>
    <3> DEFINE c == [Answered(s) EXCEPT !.told = TRUE]
    <3>1. /\ c \in SocketRows /\ c.anonymous = TRUE /\ c.who = Nobody /\ c.nonce = 0 /\ c.told
          /\ c.ref = Answered(s).ref
      BY <2>2 DEF SocketRows
    <3>2. sockets' = [sockets EXCEPT ![s] = c]
      BY <2>3
    <3> HIDE DEF c
    <3>3. unnamed' = unnamed - (IF sockets[s].anonymous /\ ~c.anonymous THEN 1 ELSE 0)
      BY <1>4, <2>3, <3>1 DEF counters
    <3>4. IssuedTrue(issued', nextNonce')
      BY <1>7, <2>3
    <3>5. nextNonce' = nextNonce /\ nextRef' = nextRef /\ UNCHANGED <<perIp, rooms, members>>
      BY <2>3 DEF counters, roomVars
    <3>6. /\ c.anonymous => sockets[s].anonymous
          /\ c.anonymous <=> c.who = Nobody
          /\ nextRef <= nextRef' /\ nextRef \in Nat /\ nextRef' \in Nat /\ c.ref < nextRef'
          /\ c.who = Nobody => c.told
      BY <1>1, <2>2, <3>1, <3>5
    <3> QED BY <2>2, <3>1, <3>2, <3>3, <3>4, <3>5, <3>6, RowKeeps DEF Goal
  <2>4. ASSUME NEW r \in DOMAIN invoices', Bill(u), Refuse(s, [Answered(s) EXCEPT !.ref = r], iss)
        PROVE  Goal
    <3>1. nextRef' \in Nat /\ nextRef <= nextRef' /\ r \in Nat /\ r < nextRef'
      <4>1. CASE UNCHANGED <<invoices, nextRef>>
        BY <1>1, <2>4, <4>1
      <4>2. CASE /\ invoices' = Put(invoices, nextRef, [who |-> u, ends |-> clock + Lifetime, paid |-> 0])
                 /\ nextRef' = nextRef + 1
        <5>1. DOMAIN invoices' = DOMAIN invoices \union {nextRef}
          BY <4>2 DEF Put
        <5>2. r \in DOMAIN invoices \/ r = nextRef
          BY <5>1
        <5> QED BY <1>1, <4>2, <5>2
      <4> QED BY <2>4, <4>1, <4>2 DEF Bill
    <3> DEFINE c == [Answered(s) EXCEPT !.ref = r]
    <3>2. /\ c \in SocketRows /\ c.anonymous /\ c.who = Nobody /\ c.ref = r
      BY <2>2, <3>1 DEF SocketRows
    <3>3. Refuse(s, c, iss)
      BY <2>4
    <3>4. DOMAIN iss \subseteq DOMAIN issued
      BY <1>6
    <3> HIDE DEF c, iss
    <3> QED BY <1>1, <2>2, <3>1, <3>2, <3>3, <3>4, RefuseKeeps DEF Goal
  <2> QED BY <1>15, <2>3, <2>4 DEF OnPayRequest
<1>16. ASSUME NEW s \in Socket, NEW id \in Room, NEW role \in Role, CallJoin(s, id, role) PROVE Goal
  <2>1. Asking(s) /\ Joins(s, id, role, clock)
    BY <1>16 DEF CallJoin, Join
  <2> DEFINE S == Swept(clock)
             so1 == Restrict(sockets, DOMAIN sockets \ S)
             c == [sockets[s] EXCEPT !.nonce = 0, !.anonymous = FALSE]
             un1 == UnnamedWithout(sockets, unnamed, S)
             me1 == Restrict(members, DOMAIN members \ S)
  <2>2. House(so1, PerIpWithout(perIp, S), un1, Left(clock), me1)
    <3>1. House(so1, PerIpWithout(perIp, S), un1, Restrict(rooms, DOMAIN rooms \ Stale(clock)), me1)
      BY <1>2, <1>8, HouseAfterLeave
    <3> QED BY <3>1 DEF Left
  <2>3. /\ s \in DOMAIN sockets /\ s \notin DOMAIN members /\ s \notin S
        /\ sockets[s] \in SocketRows /\ sockets[s].anonymous
    BY <1>3, <1>8, <2>1 DEF Asking, Joined, Marked
  <2>4. /\ DOMAIN so1 = DOMAIN sockets \ S /\ \A q \in DOMAIN so1 : so1[q] = sockets[q]
        /\ DOMAIN me1 = DOMAIN members \ S
        /\ DOMAIN Left(clock) = DOMAIN rooms \ Stale(clock)
        /\ \A x \in DOMAIN Left(clock) : Left(clock)[x] = rooms[x]
    BY RestrictAt DEF Left
  <2>5. c \in SocketRows /\ c.anonymous = FALSE /\ c.nonce = 0 /\ c.ref = sockets[s].ref
        /\ c.who = sockets[s].who
    BY <2>3 DEF SocketRows
  <2>6. /\ sockets' = [so1 EXCEPT ![s] = c]
        /\ perIp' = PerIpWithout(perIp, S)
        /\ rooms' = Put(Left(clock), id, Seat(s, id, role, clock))
        /\ members' = Put(me1, s, [room |-> id, role |-> role])
        /\ issued' = Without(issued, sockets[s].nonce)
        /\ nextNonce' = nextNonce /\ nextRef' = nextRef
    <3>1. so1[s] = sockets[s]
      BY <2>3, <2>4
    <3>2. sockets' = [so1 EXCEPT ![s] = [so1[s] EXCEPT !.nonce = 0, !.anonymous = FALSE]]
      BY <1>16 DEF CallJoin
    <3>3. sockets' = [so1 EXCEPT ![s] = c]
      BY <3>1, <3>2
    <3> QED BY <1>16, <3>3 DEF CallJoin, Join, PerIpWithout, payVars
  <2>7. unnamed' = un1 - (IF so1[s].anonymous THEN 1 ELSE 0)
    <3> DEFINE A == {q \in S : sockets[q].anonymous}
               B == {q \in {s} \union S : sockets[q].anonymous}
    <3>1. B = A \union {s} /\ s \notin A
      BY <2>3
    <3>2. IsFiniteSet(A)
      <4>1. A \subseteq DOMAIN sockets /\ IsFiniteSet(DOMAIN sockets)
        BY <1>3, <1>8 DEF Marked
      <4> QED BY <4>1, FS_Subset
    <3>3. unnamed' = unnamed - Cardinality(B)
      BY <1>16 DEF CallJoin, Unnamed
    <3>4. un1 = unnamed - Cardinality(A) /\ so1[s] = sockets[s]
      BY <2>3, <2>4 DEF UnnamedWithout
    <3> HIDE DEF A, B, un1
    <3>5. Cardinality(A \union {s}) = Cardinality(A) + 1 /\ Cardinality(A) \in Nat
      BY <3>1, <3>2, FS_AddElement, FS_CardinalityType
    <3> QED BY <1>4, <2>3, <3>1, <3>3, <3>4, <3>5
  <2> HIDE DEF S, so1, c, un1, me1
  <2>8. IF id \in DOMAIN Left(clock) THEN Left(clock)[id].slots[role] = Nobody
        ELSE Cardinality(DOMAIN Left(clock)) < MaxRooms
    BY <2>1, <2>4 DEF Joins
  <2> DEFINE row == Seat(s, id, role, clock)
  <2>9. row = IF id \in DOMAIN Left(clock) THEN [Left(clock)[id] EXCEPT !.slots[role] = s, !.last = clock]
              ELSE [slots |-> [r \in Role |-> IF r = role THEN s ELSE Nobody],
                    created |-> clock, last |-> clock]
    BY <2>4 DEF Seat
  <2> HIDE DEF row
  <2>10. s \in DOMAIN so1 /\ s \notin DOMAIN me1
    BY <2>3, <2>4
  <2>11. House([so1 EXCEPT ![s] = c], PerIpWithout(perIp, S), un1 - (IF so1[s].anonymous THEN 1 ELSE 0),
               Put(Left(clock), id, row), Put(me1, s, [room |-> id, role |-> role]))
    BY <1>1, <2>2, <2>5, <2>8, <2>9, <2>10, HouseAfterSeat
  <2>12. House(sockets', perIp', unnamed', rooms', members')
    BY <2>6, <2>7, <2>11 DEF row
  <2>13. IssuedTrue(issued', nextNonce')
    BY <1>7, <2>6
  <2>14. RowsTrue(sockets', members', nextNonce', nextRef')
    <3>1. /\ DOMAIN sockets' = DOMAIN so1 /\ sockets'[s] = c
          /\ \A q \in DOMAIN so1 : q # s => sockets'[q] = sockets[q]
          /\ DOMAIN members' = DOMAIN me1 \union {s}
      <4>1. DOMAIN sockets' = DOMAIN so1 /\ sockets'[s] = c
            /\ \A q \in DOMAIN so1 : q # s => sockets'[q] = so1[q]
        BY <2>6, <2>10
      <4>2. DOMAIN members' = DOMAIN me1 \union {s}
        BY <2>6 DEF Put
      <4> QED BY <2>4, <4>1, <4>2
    <3>2. RowsTrue(sockets, members, nextNonce, nextRef)
      BY DEF GateInv
    <3>3. ASSUME NEW q \in DOMAIN sockets'
          PROVE  /\ sockets'[q].nonce < nextNonce' /\ sockets'[q].ref < nextRef'
                 /\ sockets'[q].who = Nobody /\ q \notin DOMAIN members' =>
                      sockets'[q].nonce # 0 \/ sockets'[q].told
                 /\ \A x \in DOMAIN sockets' \ {q} :
                      sockets'[x].nonce = sockets'[q].nonce => sockets'[q].nonce = 0
      <4>1. q \in DOMAIN sockets /\ q \notin S
        BY <2>4, <3>1
      <4>2. /\ sockets[q].nonce < nextNonce /\ sockets[q].ref < nextRef
            /\ sockets[q].who = Nobody /\ q \notin DOMAIN members =>
                 sockets[q].nonce # 0 \/ sockets[q].told
            /\ \A x \in DOMAIN sockets \ {q} : sockets[x].nonce = sockets[q].nonce => sockets[q].nonce = 0
        BY <3>2, <4>1 DEF RowsTrue
      <4>3. CASE q = s
        BY <1>2, <2>5, <2>6, <3>1, <4>2, <4>3
      <4>4. CASE q # s
        <5>1. sockets'[q] = sockets[q] /\ (q \in DOMAIN members' <=> q \in DOMAIN members)
          BY <2>4, <3>1, <4>1, <4>4
        <5>2. ASSUME NEW x \in DOMAIN sockets' \ {q}, sockets'[x].nonce = sockets'[q].nonce
              PROVE  sockets'[q].nonce = 0
          BY <2>4, <2>5, <3>1, <4>2, <5>1, <5>2
        <5> QED BY <2>6, <4>2, <5>1, <5>2
      <4> QED BY <4>3, <4>4
    <3> QED BY <3>3 DEF RowsTrue
  <2> QED BY <2>12, <2>13, <2>14 DEF GateInv, Goal
<1>17. ASSUME NEW s \in Socket, NEW id, NEW role, CallJoinRefused(s, id, role) PROVE Goal
  <2> DEFINE out == Swept(clock) \union {s}
  <2>1. /\ Asking(s) /\ Ended(out) /\ CloseRooms(Stale(clock)) /\ unnamed' = unnamed - Unnamed(out)
        /\ nextNonce' = nextNonce /\ nextRef' = nextRef /\ issued' = issued
    BY <1>17 DEF CallJoinRefused, payVars
  <2>2. /\ out \in SUBSET DOMAIN sockets
        /\ UNION {Seated(x) : x \in Stale(clock)} \subseteq out
        /\ \A q \in out \intersect DOMAIN members : members[q].room \in Stale(clock)
    BY <1>8, <2>1 DEF Asking, Joined, Swept
  <2> HIDE DEF out
  <2> QED BY <1>1, <1>8, <2>1, <2>2, LeavingKeeps DEF Goal
<1>18. ASSUME SweepRooms PROVE Goal
  <2>1. /\ Ended(Swept(clock)) /\ CloseRooms(Stale(clock))
        /\ unnamed' = unnamed - Unnamed(Swept(clock))
        /\ nextNonce' = nextNonce /\ nextRef' = nextRef /\ issued' = issued
    BY <1>18 DEF SweepRooms, payVars
  <2>2. /\ UNION {Seated(x) : x \in Stale(clock)} \subseteq Swept(clock)
        /\ \A q \in Swept(clock) \intersect DOMAIN members : members[q].room \in Stale(clock)
    BY <1>8 DEF Swept
  <2> QED BY <1>1, <1>8, <2>1, <2>2, LeavingKeeps DEF Goal
<1>19. ASSUME NEW s \in Socket, CallMedia(s) PROVE Goal
  <2>1. /\ s \in DOMAIN members /\ rooms' = [rooms EXCEPT ![members[s].room].last = clock]
        /\ members' = members /\ UNCHANGED gateVars /\ nextRef' = nextRef
    BY <1>19 DEF CallMedia, Media, Joined, entryVars, payVars
  <2>2. PICK id \in DOMAIN rooms : id = members[s].room
    BY <1>3, <2>1 DEF SeatedRight
  <2>3. /\ DOMAIN rooms' = DOMAIN rooms
        /\ \A x \in DOMAIN rooms : x # id => rooms'[x] = rooms[x]
        /\ rooms'[id] = [rooms[id] EXCEPT !.last = clock]
    BY <2>1, <2>2
  <2>4. rooms[id] \in RoomRows
    BY <1>3 DEF SeatedRight
  <2>5. rooms'[id] \in RoomRows /\ rooms'[id].slots = rooms[id].slots
    BY <1>1, <2>3, <2>4 DEF RoomRows
  <2>6. \A x \in DOMAIN rooms : rooms'[x] \in RoomRows /\ rooms'[x].slots = rooms[x].slots
    BY <1>3, <2>3, <2>5 DEF SeatedRight
  <2>7. SeatedRight(sockets', rooms', members')
    <3>1. sockets' = sockets /\ members' = members
      BY <2>1 DEF gateVars
    <3>2. /\ DOMAIN members \subseteq DOMAIN sockets
          /\ IsFiniteSet(DOMAIN rooms') /\ DOMAIN rooms' \subseteq Room
          /\ Cardinality(DOMAIN rooms') <= MaxRooms
      BY <1>3, <2>3 DEF SeatedRight
    <3>3. \A q \in DOMAIN members :
            /\ members[q].room \in DOMAIN rooms' /\ members[q].role \in Role
            /\ rooms'[members[q].room].slots[members[q].role] = q
      BY <1>3, <2>3, <2>6 DEF SeatedRight
    <3>4. \A x \in DOMAIN rooms' :
            /\ rooms'[x] \in RoomRows
            /\ \E r \in Role : rooms'[x].slots[r] # Nobody
            /\ \A r \in Role : rooms'[x].slots[r] # Nobody =>
                 rooms'[x].slots[r] \in DOMAIN members /\ members[rooms'[x].slots[r]].room = x
      BY <1>3, <2>3, <2>6 DEF SeatedRight
    <3> QED BY <3>1, <3>2, <3>3, <3>4 DEF SeatedRight
  <2>8. Marked(sockets', members') /\ Counted(sockets', perIp', unnamed')
    BY <1>3, <2>1 DEF gateVars
  <2>9. RowsTrue(sockets', members', nextNonce', nextRef') /\ IssuedTrue(issued', nextNonce')
    BY <1>2, <2>1 DEF gateVars, GateInv
  <2> QED BY <2>7, <2>8, <2>9 DEF GateInv, House, Goal
<1>20. ASSUME Forget PROVE Goal
  <2>1. /\ DOMAIN sockets' = {} /\ DOMAIN rooms' = {} /\ DOMAIN members' = {} /\ DOMAIN issued' = {}
        /\ perIp' = [ip \in Ip |-> 0] /\ unnamed' = 0 /\ nextNonce' = nextNonce
    BY <1>20 DEF Forget
  <2>2. Cardinality({}) = 0 /\ IsFiniteSet({})
    BY FS_EmptySet
  <2>3. Marked(sockets', members')
    BY <2>1, <2>2 DEF Marked
  <2>4. Counted(sockets', perIp', unnamed')
    <3>1. Anonymous(sockets') = {} /\ \A ip : From(sockets', ip) = {}
      BY <2>1 DEF Anonymous, From
    <3> QED BY <2>1, <2>2, <3>1, GateAssumption DEF Counted
  <2>5. SeatedRight(sockets', rooms', members')
    BY <2>1, <2>2, RoomsAssumption DEF SeatedRight
  <2>6. RowsTrue(sockets', members', nextNonce', nextRef') /\ IssuedTrue(issued', nextNonce')
    BY <1>2, <2>1, <2>2, GateAssumption DEF RowsTrue, IssuedTrue
  <2> QED BY <2>3, <2>4, <2>5, <2>6 DEF GateInv, House, Goal
<1>21. ASSUME SweepMemory PROVE Goal
  <2>1. DOMAIN issued' \subseteq DOMAIN issued
    BY <1>21, SpareIsFewer DEF SweepMemory
  <2> QED BY <1>1, <1>21, <2>1, QuietKeeps DEF SweepMemory, counters, payVars, roomVars, Goal
<1>22. ASSUME Restart \/ CrashInScan \/ (\E s \in Socket, u \in Person : CrashInAuth(s, u)) PROVE Goal
  BY <1>20, <1>22 DEF Restart, CrashInScan, CrashInAuth
<1>23. ASSUME Watch, UNCHANGED <<gateVars, roomVars>> PROVE Goal
  <2>1. nextRef' = nextRef
    BY <1>23 DEF Watch, Transfer, Poll, PollFails, Settle, Tick, Sweep
  <2> QED BY <1>5, <1>23, <2>1
<1>24. ASSUME NEW s \in Socket, OnTicketRequest(s) \/ \E t \in DOMAIN tickets : OnSendAnon(s, t) PROVE Goal
  BY <1>5, <1>24 DEF OnTicketRequest, OnSendAnon, entryVars, payVars
<1>25. ASSUME UNCHANGED vars PROVE Goal
  BY <1>5, <1>25 DEF vars, entryVars, payVars
<1>26. ASSUME NEW s \in Socket,
              \/ Open(s) \/ OpenBusy(s) \/ Close(s) \/ AuthRefused(s)
              \/ CallMedia(s) \/ OnTicketRequest(s)
              \/ \E id \in Room, role \in Role : CallJoin(s, id, role) \/ CallJoinRefused(s, id, role)
              \/ \E t \in DOMAIN tickets : OnSendAnon(s, t)
       PROVE  Goal
  BY <1>9, <1>10, <1>11, <1>12, <1>16, <1>17, <1>19, <1>24, <1>26
<1>27. ASSUME NEW s \in Socket, NEW u \in Person,
              \/ OnAuth(s, u) \/ OnPayRequest(s, u) \/ CrashInAuth(s, u)
              \/ \E t \in Invite \union DOMAIN invoices : AdmitRefused(s, u, t)
       PROVE  Goal
  BY <1>13, <1>14, <1>15, <1>22, <1>27
<1>28. Goal
  BY <1>18, <1>21, <1>22, <1>23, <1>25, <1>26, <1>27 DEF Next
<1> QED BY <1>28 DEF Goal

\* The types of the payments that the proofs above did not need.
PayRest ==
  /\ Len(chain) <= MaxTx
  /\ \A u \in DOMAIN users : u \in Person /\ users[u] \in Tokens
  /\ scan \in [on : BOOLEAN, at : 0 .. clock, low : 0 .. Len(chain)]

LEMMA PayRestStep == PayInv /\ PayRest /\ PayMove => PayRest'
<1> SUFFICES ASSUME PayTypes, PayRest, PayMove PROVE PayRest'
  BY DEF PayInv
<1> DEFINE Goal == PayRest'
<1>1. /\ clock \in Nat /\ chain \in Seq(0 .. nextRef - 1) /\ Len(chain) \in Nat /\ MaxTx \in Nat
      /\ \A r \in DOMAIN invoices : invoices[r].paid \in 0 .. Len(chain)
  BY PaymentsAssumption DEF PayTypes
<1>2. /\ Len(chain) <= MaxTx
      /\ \A u \in DOMAIN users : u \in Person /\ users[u] \in Tokens
      /\ scan \in [on : BOOLEAN, at : 0 .. clock, low : 0 .. Len(chain)]
  BY DEF PayRest
<1>3. Idle \in [on : BOOLEAN, at : 0 .. clock, low : 0 .. Len(chain)]
  BY <1>1 DEF Idle
<1>4. ASSUME users' = users, chain' = chain, clock' = clock,
             scan' \in [on : BOOLEAN, at : 0 .. clock, low : 0 .. Len(chain)]
      PROVE  Goal
  BY <1>2, <1>4 DEF PayRest
<1> HIDE DEF Goal
<1>5. ASSUME UNCHANGED payVars PROVE Goal
  BY <1>2, <1>4, <1>5 DEF payVars
<1>6. ASSUME NEW u \in Person, UNCHANGED <<clock, invites, users, chain, cursor, scan, skipped, spilled>>
      PROVE  Goal
  BY <1>2, <1>4, <1>6
<1>7. ASSUME NEW u \in Person \ DOMAIN users, NEW t \in Invite \union DOMAIN invoices,
             Admit(u, t), UNCHANGED <<clock, nextRef, chain, cursor, scan, skipped, spilled>>
      PROVE  Goal
  <2>1. Token(t) \in Tokens
    <3>1. CASE t \in Invite
      BY <3>1 DEF Token, Tokens
    <3>2. CASE t \notin Invite
      <4>1. t \in DOMAIN invoices /\ invoices[t].paid # 0 /\ Token(t) = invoices[t].paid
        BY <1>7, <3>2 DEF Admit, Entitled, Pays, Token
      <4>2. invoices[t].paid \in 1 .. MaxTx
        BY <1>1, <1>2, <4>1
      <4> QED BY <4>1, <4>2 DEF Tokens
    <3> QED BY <3>1, <3>2
  <2>2. users' = Put(users, u, Token(t))
    BY <1>7 DEF Admit
  <2>3. \A v \in DOMAIN users' : v \in Person /\ users'[v] \in Tokens
    BY <1>2, <2>1, <2>2 DEF Put
  <2> QED BY <1>2, <1>7, <2>3 DEF Goal, PayRest
<1>8. ASSUME NEW u, NEW t, AdmitCut(u, t), scan' = Idle, UNCHANGED <<clock, nextRef, chain, cursor, skipped>>
      PROVE  Goal
  BY <1>3, <1>4, <1>8 DEF AdmitCut
<1>9. ASSUME NEW r \in 0 .. nextRef - 1, Transfer(r) PROVE Goal
  <2>1. /\ Len(chain) < MaxTx /\ chain' = Append(chain, r)
        /\ users' = users /\ scan' = scan /\ clock' = clock
    BY <1>9 DEF Transfer
  <2>2. Len(chain') = Len(chain) + 1
    BY <1>1, <2>1
  <2>3. scan' \in [on : BOOLEAN, at : 0 .. clock, low : 0 .. Len(chain')]
    BY <1>1, <1>2, <2>1, <2>2
  <2> QED BY <1>1, <1>2, <2>1, <2>2, <2>3 DEF Goal, PayRest
<1>10. ASSUME Poll PROVE Goal
  <2>1. scan' \in [on : BOOLEAN, at : 0 .. clock, low : 0 .. Len(chain)]
    BY <1>1, <1>10 DEF Poll
  <2> QED BY <1>4, <1>10, <2>1 DEF Poll
<1>11. ASSUME PollFails PROVE Goal
  BY <1>3, <1>4, <1>11 DEF PollFails
<1>12. ASSUME NEW h \in 0 .. Len(chain), Settle(h) \/ \E k \in 0 .. MaxTx : SettleCut(h, k) PROVE Goal
  BY <1>3, <1>4, <1>12 DEF Settle, SettleCut
<1>13. ASSUME scan' = Idle,
              UNCHANGED <<clock, invoices, nextRef, invites, users, chain, cursor, skipped, spilled>>
       PROVE  Goal
  BY <1>3, <1>4, <1>13
<1>14. ASSUME Tick PROVE Goal
  <2>1. scan' = scan /\ users' = users /\ chain' = chain /\ clock' = clock + 1
    BY <1>14 DEF Tick
  <2>2. scan \in [on : BOOLEAN, at : 0 .. clock + 1, low : 0 .. Len(chain)]
    BY <1>1, <1>2
  <2> QED BY <1>2, <2>1, <2>2 DEF Goal, PayRest
<1>15. ASSUME Sweep PROVE Goal
  BY <1>2, <1>4, <1>15 DEF Sweep
<1>16. Goal
  BY <1>5, <1>6, <1>7, <1>8, <1>9, <1>10, <1>11, <1>12, <1>13, <1>14, <1>15 DEF PayMove
<1> QED BY <1>16 DEF Goal

\* The tickets that are remembered are not too many.
SpentFew == IsFiniteSet(DOMAIN spent) /\ Cardinality(DOMAIN spent) <= MaxSpent

LEMMA SpentStep == SpentFew /\ TicketMove => SpentFew'
<1> SUFFICES ASSUME SpentFew, TicketMove PROVE SpentFew'
  OBVIOUS
<1>1. MaxSpent \in Nat /\ Cardinality(DOMAIN spent) \in Nat
  BY TicketsAssumption, FS_CardinalityType DEF SpentFew
<1>2. ASSUME NEW m, DOMAIN m \subseteq DOMAIN spent
      PROVE  IsFiniteSet(DOMAIN m) /\ Cardinality(DOMAIN m) <= MaxSpent /\ Cardinality(DOMAIN m) \in Nat
  <2>1. IsFiniteSet(DOMAIN m) /\ Cardinality(DOMAIN m) <= Cardinality(DOMAIN spent)
    BY <1>2, FS_Subset DEF SpentFew
  <2>2. Cardinality(DOMAIN m) \in Nat
    BY <2>1, FS_CardinalityType
  <2> QED BY <1>1, <2>1, <2>2 DEF SpentFew
<1>3. DOMAIN Unexpired(clock) \subseteq DOMAIN spent /\ DOMAIN Kept(clock) \subseteq DOMAIN spent
  BY RestrictAt DEF Unexpired, Kept
<1>4. ASSUME DOMAIN spent' \subseteq DOMAIN spent PROVE SpentFew'
  BY <1>2, <1>4 DEF SpentFew
<1>5. ASSUME NEW t \in DOMAIN tickets, Redeem(t, clock) PROVE SpentFew'
  <2> DEFINE m == Kept(clock)
  <2>1. spent' = Put(m, t, tickets[t]) /\ Cardinality(DOMAIN m) < MaxSpent
    BY <1>5 DEF Redeem
  <2>2. IsFiniteSet(DOMAIN m) /\ Cardinality(DOMAIN m) \in Nat
    BY <1>2, <1>3
  <2> HIDE DEF m
  <2>3. DOMAIN spent' = DOMAIN m \union {t}
    BY <2>1 DEF Put
  <2>4. /\ IsFiniteSet(DOMAIN spent')
        /\ Cardinality(DOMAIN spent') = IF t \in DOMAIN m THEN Cardinality(DOMAIN m) ELSE Cardinality(DOMAIN m) + 1
    BY <2>2, <2>3, FS_AddElement
  <2> QED BY <1>1, <2>1, <2>2, <2>4 DEF SpentFew
<1>6. ASSUME NEW t \in DOMAIN tickets, Refused(t, clock) PROVE SpentFew'
  BY <1>3, <1>4, <1>6 DEF Refused
<1>7. ASSUME SweepSpent(clock) \/ ForgetSpent \/ Issue(clock) \/ UNCHANGED ticketVars PROVE SpentFew'
  BY <1>3, <1>4, <1>7 DEF SweepSpent, ForgetSpent, Issue, ticketVars
<1> QED BY <1>5, <1>6, <1>7 DEF TicketMove

\* With any number of sockets, addresses, rooms and challenges, and whoever ends,
\* joins or is swept in whatever order: no cap is worn down by sockets that are
\* gone, and no socket is left without a challenge to answer.
THEOREM StaysOpenHolds == Spec => []StaysOpen
<1> DEFINE Inv == PayInv /\ TicketInv /\ GateInv /\ PayRest /\ SpentFew
<1>1. Init => Inv
  <2> SUFFICES ASSUME Init PROVE Inv
    OBVIOUS
  <2>1. PayInv
    <3>1. PayTypes
      BY PaymentsAssumption DEF Init, PayInit, PayTypes, Idle
    <3> QED BY <3>1 DEF Init, PayInit, PayInv, PaidTrue, Book
  <2>2. TicketInv
    <3>1. DOMAIN tickets = 1 .. 0 /\ DOMAIN uses = {} /\ DOMAIN spent = {}
      BY DEF Init, TicketsInit
    <3> QED BY <3>1 DEF TicketInv
  <2>3. PayRest
    BY PaymentsAssumption DEF Init, PayInit, PayRest, Idle
  <2>4. IsFiniteSet({}) /\ Cardinality({}) = 0
    BY FS_EmptySet
  <2>5. SpentFew
    BY <2>4, TicketsAssumption DEF Init, TicketsInit, SpentFew
  <2>6. GateInv
    <3>1. DOMAIN sockets = {} /\ DOMAIN rooms = {} /\ DOMAIN members = {} /\ DOMAIN issued = {}
          /\ perIp = [ip \in Ip |-> 0] /\ unnamed = 0 /\ nextNonce = 1
      BY DEF Init, RoomsInit
    <3>2. Anonymous(sockets) = {} /\ \A ip : From(sockets, ip) = {}
      BY <3>1 DEF Anonymous, From
    <3>3. Counted(sockets, perIp, unnamed) /\ Marked(sockets, members)
      <4>1. MaxPerIp \in Nat /\ MaxUnnamed \in Nat
        BY GateAssumption
      <4>2. perIp \in [Ip -> Nat]
        BY <3>1
      <4>3. ASSUME NEW ip \in Ip
            PROVE perIp[ip] = Cardinality(From(sockets, ip)) /\ perIp[ip] <= MaxPerIp
        <5>1. From(sockets, ip) = {}
          BY <3>2
        <5>2. Cardinality(From(sockets, ip)) = 0
          BY <2>4, <5>1, Zenon
        <5>3. perIp[ip] = 0
          BY <3>1
        <5> QED BY <4>1, <5>2, <5>3
      <4>4. unnamed = Cardinality(Anonymous(sockets)) /\ unnamed <= MaxUnnamed
        BY <2>4, <3>1, <3>2, <4>1
      <4>5. Marked(sockets, members)
        BY <2>4, <3>1 DEF Marked
      <4> QED BY <4>2, <4>3, <4>4, <4>5 DEF Counted
    <3>4. SeatedRight(sockets, rooms, members)
      BY <2>4, <3>1, RoomsAssumption DEF SeatedRight
    <3>5. RowsTrue(sockets, members, nextNonce, nextRef) /\ IssuedTrue(issued, nextNonce)
      BY <2>4, <3>1, GateAssumption DEF RowsTrue, IssuedTrue
    <3> QED BY <3>3, <3>4, <3>5 DEF GateInv, House
  <2> QED BY <2>1, <2>2, <2>3, <2>5, <2>6
<1>2. Inv /\ [Next]_vars => Inv'
  <2> SUFFICES ASSUME Inv, [Next]_vars PROVE Inv'
    OBVIOUS
  <2>1. TicketMove /\ PayMove
    BY NextMoves
  <2>2. clock \in Nat
    BY DEF PayInv, PayTypes
  <2> QED BY <2>1, <2>2, TicketStep, PayStep, GateStep, PayRestStep, SpentStep
<1>3. Inv => StaysOpen
  <2> SUFFICES ASSUME Inv PROVE StaysOpen
    OBVIOUS
  <2>1. /\ Marked(sockets, members) /\ Counted(sockets, perIp, unnamed)
        /\ SeatedRight(sockets, rooms, members)
        /\ RowsTrue(sockets, members, nextNonce, nextRef) /\ IssuedTrue(issued, nextNonce)
    BY DEF GateInv, House
  <2>2. PayTypeOK
    BY DEF PayInv, PayTypes, PayRest, PayTypeOK
  <2>3. RoomsTypeOK
    BY <2>1 DEF SeatedRight, RoomRows, RoomsTypeOK
  <2>4. TicketsTypeOK
    <3>1. PICK n \in Nat : DOMAIN tickets = 1 .. n
      BY DEF TicketInv
    <3>2. Cardinality(DOMAIN tickets) = n
      BY <3>1, FS_Interval
    <3> QED BY <3>1, <3>2 DEF TicketInv, SpentFew, TicketsTypeOK
  <2>5. TypeOK
    <3>1. nextNonce \in Nat \ {0} /\ nextRef \in Nat \ {0}
      BY <2>1 DEF IssuedTrue, PayInv, PayTypes
    <3>2. ASSUME NEW s \in DOMAIN sockets
          PROVE  /\ s \in Socket
                 /\ sockets[s] \in [anonymous : BOOLEAN, nonce : 0 .. nextNonce - 1, tries : 0 .. MaxTries,
                                    who : Person \union {Nobody}, ref : 0 .. nextRef - 1, told : BOOLEAN]
      <4>1. sockets[s] \in SocketRows /\ s \in Socket
        BY <2>1 DEF Marked
      <4>2. sockets[s].nonce \in 0 .. nextNonce - 1 /\ sockets[s].ref \in 0 .. nextRef - 1
        BY <2>1, <3>1, <4>1 DEF RowsTrue, SocketRows
      <4> QED BY <4>1, <4>2 DEF SocketRows
    <3> QED BY <2>1, <2>2, <2>3, <2>4, <3>2 DEF TypeOK, IssuedTrue
  <2>6. SeatsAgree /\ DOMAIN members \subseteq DOMAIN sockets
    <3>1. ASSUME NEW s \in DOMAIN members
          PROVE members[s].room \in DOMAIN rooms /\ rooms[members[s].room].slots[members[s].role] = s
      BY <2>1 DEF SeatedRight
    <3>2. ASSUME NEW id \in DOMAIN rooms
          PROVE Seated(id) # {} /\ \A s \in Seated(id) : Joined(s) /\ members[s].room = id
      <4>1. PICK r \in Role : rooms[id].slots[r] # Nobody
        BY <2>1 DEF SeatedRight
      <4>2. \A q \in Role : rooms[id].slots[q] # Nobody =>
              rooms[id].slots[q] \in DOMAIN members /\ members[rooms[id].slots[q]].room = id
        BY <2>1 DEF SeatedRight
      <4> QED BY <4>1, <4>2 DEF Seated, Joined
    <3> QED BY <2>1, <3>1, <3>2 DEF SeatsAgree, Joined, SeatedRight
  <2>7. /\ \A ip \in Ip : perIp[ip] = Cardinality({s \in DOMAIN sockets : IpOf[s] = ip}) /\ perIp[ip] <= MaxPerIp
        /\ unnamed = Cardinality({s \in DOMAIN sockets : sockets[s].who = Nobody /\ ~Joined(s)})
        /\ unnamed <= MaxUnnamed
    <3>1. Anonymous(sockets) = {s \in DOMAIN sockets : sockets[s].who = Nobody /\ ~Joined(s)}
      BY <2>1 DEF Marked, Anonymous, Joined
    <3> QED BY <2>1, <3>1 DEF Counted, From
  <2>8. CanTryAgain
    BY <2>1 DEF CanTryAgain, RowsTrue, Asking, Joined
  <2> QED BY <2>5, <2>6, <2>7, <2>8 DEF StaysOpen, CountersTrue
<1> QED BY <1>1, <1>2, <1>3, PTL DEF Spec
=============================================================================

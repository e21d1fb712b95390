------------------------------ MODULE Payments ------------------------------
(* Paid and invited entry: invoices, the watcher of the TON account that     *)
(* marks them paid, and the invites (valanium-server/src/ton, db/index.ts,   *)
(* admit in ws/session.ts). A transfer is known by its logical time, which   *)
(* is its place in `chain`.                                                  *)
EXTENDS Naturals, Sequences, FiniteSets, Functions, FiniteSetsExt, Tables

CONSTANTS
    Person,      \* identities
    Invite,      \* invite codes
    Lifetime,    \* config.ton.invoiceTtlSec
    InviteEnds,  \* when the invites expire
    Reach,       \* how many transactions a scan reads at most (MAX_PAGES * PAGE)
    \* bounds of a model
    MaxRef, MaxTx, MaxTime

ASSUME PaymentsAssumption ==
    /\ {Lifetime, Reach, MaxRef, MaxTx, MaxTime, InviteEnds} \subseteq Nat
    /\ Invite \intersect Nat = {}

VARIABLES
    clock,
    invoices,  \* payments: who was billed, until when, and the transfer that paid (0: none)
    nextRef,   \* makeRef
    invites,   \* the codes that were not used
    users,     \* who is registered, and by which invite or transfer
    chain,     \* the transactions of the wallet: the invoice each one pays (0: none)
    cursor,    \* last_lt (0: there is none)
    scan,      \* the tick in progress: when it began and the head it saw
    skipped,   \* transfers at or below the cursor that no scan read (history)
    spilled    \* tokens consumed by a process that was killed before it was done (history)

payVars == <<clock, invoices, nextRef, invites, users, chain, cursor, scan, skipped, spilled>>

Live(r) == invoices[r].ends > clock
Idle == [on |-> FALSE, at |-> 0, low |-> 0]

-----------------------------------------------------------------------------
(* PAY_REQUEST: the invoice that is still open, or a new one.               *)

OpenInvoices(u) == {r \in DOMAIN invoices : invoices[r].who = u /\ Live(r)}

Bill(u) ==
    IF OpenInvoices(u) # {}
    THEN UNCHANGED <<invoices, nextRef>>
    ELSE /\ nextRef <= MaxRef
         /\ invoices' = Put(invoices, nextRef, [who |-> u, ends |-> clock + Lifetime, paid |-> 0])
         /\ nextRef' = nextRef + 1

\* Somebody sends money: at least minAccepted() with the memo of invoice r, or
\* anything else (0: an outgoing or bounced message, no memo, too little).
Transfer(r) ==
    /\ Len(chain) < MaxTx
    /\ chain' = Append(chain, r)
    /\ UNCHANGED <<clock, invoices, nextRef, invites, users, cursor, scan, skipped, spilled>>

-----------------------------------------------------------------------------
(* PaymentWatcher.tick: the scan awaits the lite servers, what follows is    *)
(* synchronous; each row is written by a statement of its own.              *)

Poll ==
    /\ ~scan.on
    /\ scan' = [on |-> TRUE, at |-> clock, low |-> Len(chain)]
    /\ UNCHANGED <<clock, invoices, nextRef, invites, users, chain, cursor, skipped, spilled>>

\* What LiteChainSource.scan finds under head h: nothing on the first run,
\* then back to the cursor or as far as its pages go.
Found(h) == IF cursor = 0 THEN {} ELSE {lt \in cursor + 1 .. h : lt + Reach > h}

\* #credit, in the order of the transfers; markPaid is idempotent.
Funding(lts, r) == {lt \in lts : chain[lt] = r}
Credited(lts) ==
    [r \in DOMAIN invoices |->
        IF /\ invoices[r].paid = 0 /\ invoices[r].ends > scan.at
           /\ Funding(lts, r) # {}
        THEN [invoices[r] EXCEPT !.paid = Min(Funding(lts, r))]
        ELSE invoices[r]]

\* Mutant: the head itself is taken for read already.
Settle_Behind(h) ==
    /\ scan.on /\ h \in scan.low .. Len(chain) /\ h > cursor
    /\ invoices' = Credited(Found(h) \ {h})
    /\ cursor' = h
    /\ skipped' = skipped \union ((cursor + 1 .. h) \ Found(h))
    /\ scan' = Idle
    /\ UNCHANGED <<clock, nextRef, invites, users, chain, spilled>>

\* The cursor moves to the head whatever was found.
Settle(h) ==
    /\ scan.on /\ h \in scan.low .. Len(chain)
    /\ \/ h > cursor
          /\ invoices' = Credited(Found(h))
          /\ cursor' = h
          /\ skipped' = skipped \union ((cursor + 1 .. h) \ Found(h))
       \/ h = cursor /\ UNCHANGED <<invoices, cursor, skipped>>
    /\ scan' = Idle
    /\ UNCHANGED <<clock, nextRef, invites, users, chain, spilled>>

\* The lite servers did not answer.
PollFails == scan.on /\ scan' = Idle
             /\ UNCHANGED <<clock, invoices, nextRef, invites, users, chain, cursor, skipped, spilled>>

\* The process is killed among the credits, before the cursor is saved.
SettleCut(h, k) ==
    /\ scan.on /\ h \in scan.low .. Len(chain) /\ h > cursor
    /\ invoices' = Credited({lt \in Found(h) : lt <= k})
    /\ scan' = Idle
    /\ UNCHANGED <<clock, nextRef, invites, users, chain, cursor, skipped, spilled>>

-----------------------------------------------------------------------------
(* admit: the invoice or the invite is deleted, then the user is created.    *)

\* Mutant: whoever knows the memo may use the payment.
Pays_Anyone(u, r) == r \in DOMAIN invoices /\ Live(r) /\ invoices[r].paid # 0
Pays(u, r) == r \in DOMAIN invoices /\ invoices[r].who = u /\ Live(r) /\ invoices[r].paid # 0
Invited(i) == i \in invites /\ InviteEnds > clock

\* Mutant: the invite is checked but not deleted.
Consume_Kept(t) ==
    IF t \in Invite THEN UNCHANGED <<invites, invoices>>
    ELSE invoices' = Restrict(invoices, DOMAIN invoices \ {t}) /\ UNCHANGED invites
Consume(t) ==
    IF t \in Invite
    THEN invites' = invites \ {t} /\ UNCHANGED invoices
    ELSE invoices' = Restrict(invoices, DOMAIN invoices \ {t}) /\ UNCHANGED invites
Entitled(u, t) == IF t \in Invite THEN Invited(t) ELSE Pays(u, t)
Token(t) == IF t \in Invite THEN t ELSE invoices[t].paid

Admit(u, t) ==
    /\ Entitled(u, t)
    /\ Consume(t)
    /\ users' = Put(users, u, Token(t))

\* The process is killed between the two statements.
AdmitCut(u, t) ==
    /\ Entitled(u, t)
    /\ Consume(t)
    /\ spilled' = spilled \union {Token(t)}
    /\ UNCHANGED users

-----------------------------------------------------------------------------
Tick == /\ clock < MaxTime /\ clock' = clock + 1
        /\ UNCHANGED <<invoices, nextRef, invites, users, chain, cursor, scan, skipped, spilled>>

\* Mutant: the sweep takes invoices a moment too early.
Sweep_Early ==
    /\ invoices' = Restrict(invoices, {r \in DOMAIN invoices : invoices[r].ends > clock + 1})
    /\ UNCHANGED <<clock, nextRef, invites, users, chain, cursor, scan, skipped, spilled>>

Sweep ==
    /\ invoices' = Restrict(invoices, {r \in DOMAIN invoices : Live(r)})
    /\ invites' = {i \in invites : InviteEnds > clock}
    /\ UNCHANGED <<clock, nextRef, users, chain, cursor, scan, skipped, spilled>>

PayInit ==
    /\ clock = 0 /\ invoices = << >> /\ nextRef = 1 /\ invites = Invite
    /\ users = << >> /\ chain = << >> /\ cursor = 0 /\ scan = Idle
    /\ skipped = {} /\ spilled = {}

\* What goes on beside the sockets.
Watch ==
    \/ \E r \in 0 .. nextRef - 1 : Transfer(r)
    \/ Poll \/ PollFails
    \/ \E h \in 0 .. Len(chain) : Settle(h)
    \/ Tick \/ Sweep

-----------------------------------------------------------------------------
Tokens == Invite \union 1 .. MaxTx

PayTypeOK ==
    /\ clock \in Nat /\ nextRef \in Nat \ {0} /\ cursor \in 0 .. Len(chain)
    /\ \A r \in DOMAIN invoices :
          /\ r \in 1 .. nextRef - 1
          /\ invoices[r] \in [who : Person, ends : Nat, paid : 0 .. Len(chain)]
    /\ invites \subseteq Invite
    /\ \A u \in DOMAIN users : u \in Person /\ users[u] \in Tokens
    /\ chain \in Seq(0 .. nextRef - 1)
    /\ scan \in [on : BOOLEAN, at : 0 .. clock, low : 0 .. Len(chain)]

\* An invite or a transfer lets one person in, whatever is retried, scanned
\* again or cut off by a crash, and what was used is not open any more.
OneEntryPerToken ==
    /\ \A u, v \in DOMAIN users : users[u] = users[v] => u = v
    /\ \A u \in DOMAIN users :
          /\ users[u] \notin invites \union spilled
          /\ users[u] \notin Invite => \A r \in DOMAIN invoices : invoices[r].paid # users[u]

\* No transfer that pays an open invoice is passed over by the cursor, apart
\* from what lay beyond the pages of a scan or before the first one.
PaymentSeen ==
    \A lt \in 1 .. cursor :
        LET r == chain[lt] IN
        r \in DOMAIN invoices /\ Live(r) /\ invoices[r].paid = 0
            => lt \in skipped

\* A paid invoice goes away only by the registration of the one who was
\* billed, by its expiry, or in a crash in the middle of the registration.
PaidIsKept ==
    [][\A r \in DOMAIN invoices : invoices[r].paid # 0 =>
          \/ r \in DOMAIN invoices' /\ invoices'[r] = invoices[r]
          \/ ~Live(r)
          \/ invoices[r].who \in DOMAIN users' /\ users'[invoices[r].who] = invoices[r].paid
          \/ invoices[r].paid \in spilled']_payVars
=============================================================================

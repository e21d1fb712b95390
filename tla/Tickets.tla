------------------------------- MODULE Tickets -------------------------------
(* Tickets for anonymous sending (valanium-server/src/auth/tickets.ts). The  *)
(* relay remembers only the tickets that were used, until they expire; the   *)
(* signature is taken as given: only a ticket that was issued verifies.      *)
EXTENDS Naturals, FiniteSets, Functions, Tables

CONSTANTS
    TicketTtl, MaxSpent,
    MaxTicket            \* bound of a model: tickets ever issued

ASSUME TicketsAssumption == {TicketTtl, MaxSpent, MaxTicket} \subseteq Nat

VARIABLES
    tickets,  \* the tickets issued, with their expiry (signed into them)
    spent,    \* TicketStore.#spent
    uses      \* how often each ticket was accepted by this process (history)

ticketVars == <<tickets, spent, uses>>

Unexpired(now) == Restrict(spent, {t \in DOMAIN spent : spent[t] > now})
Kept(now) == IF Cardinality(DOMAIN spent) >= MaxSpent THEN Unexpired(now) ELSE spent

Issue(now) ==
    LET t == Cardinality(DOMAIN tickets) + 1 IN
    /\ t <= MaxTicket
    /\ tickets' = Put(tickets, t, now + TicketTtl)
    /\ uses' = Put(uses, t, 0)
    /\ UNCHANGED spent

Genuine(t, now) == tickets[t] > now /\ t \notin DOMAIN spent

\* redeem: true, and the ticket is used up.
Redeem(t, now) ==
    /\ Genuine(t, now)
    /\ Cardinality(DOMAIN Kept(now)) < MaxSpent
    /\ spent' = Put(Kept(now), t, tickets[t])
    /\ uses' = [uses EXCEPT ![t] = @ + 1]
    /\ UNCHANGED tickets

\* redeem: false; when there is no room the map has been swept.
Refused(t, now) ==
    /\ ~Genuine(t, now) \/ Cardinality(DOMAIN Kept(now)) >= MaxSpent
    /\ spent' = IF Genuine(t, now) THEN Kept(now) ELSE spent
    /\ UNCHANGED <<tickets, uses>>

SweepSpent(now) == spent' = Unexpired(now) /\ UNCHANGED <<tickets, uses>>

\* A restart: the key is on disk, the map was in memory.
ForgetSpent == spent' = << >> /\ uses' = [t \in DOMAIN uses |-> 0] /\ UNCHANGED tickets

TicketsInit == tickets = << >> /\ spent = << >> /\ uses = << >>
-----------------------------------------------------------------------------
TicketsTypeOK ==
    /\ DOMAIN tickets = 1 .. Cardinality(DOMAIN tickets) /\ DOMAIN uses = DOMAIN tickets
    /\ DOMAIN spent \subseteq DOMAIN tickets /\ Cardinality(DOMAIN spent) <= MaxSpent
    /\ \A t \in DOMAIN spent : spent[t] = tickets[t]

\* One process accepts a ticket at most once, however the sweeps of the map,
\* its cap and the expiry of the ticket meet.
TicketOnce == \A t \in DOMAIN uses : uses[t] <= 1
=============================================================================

------------------------------- MODULE MCTalk -------------------------------
(* Instances for TLC of what one device keeps: its outbox (MCOutbox), the    *)
(* threads of its history, what it has told its contacts, its profile at the *)
(* relay, and the routes to it.                                              *)
EXTENDS MCOutbox, Threads, Announce, Showcase, Routes

CONSTANTS a1, a2, h1, s1, r1, j1, e1

MCPersonOf == [d \in PeerDevice |-> "a"]
MCLists == {{h1, s1}, {r1, j1}, {j1}}

\* Open to all, or to those who were approved, and the name to contacts only.
ForAll == [scope |-> "everyone", allow |-> {}, deny |-> {}]
MCRules == {[name |-> ForAll, avatar |-> ForAll],
            [name |-> [ForAll EXCEPT !.scope = "contacts"], avatar |-> [ForAll EXCEPT !.scope = "approved"]]}
MCPinStates == [PinName -> {Unset} \union [pending : Friend, untrusted : {{}}]]

\* One kind of letter in play at a time, and no standing that works like another.
Busy == {k \in Kind : \E p \in Friend :
            post[p][k] # <<>> \/ heard[p][k] # Nothing[k] \/ <<p, k>> \in missed}
Small ==
    /\ Cardinality(Busy) <= 1
    /\ \A p \in Friend : standing[p] # "pending" /\ \A k \in Kind : Len(post[p][k]) = 2 => k = "key"

\* Once the user has asked a person's devices to follow a change, nobody ticks off what he
\* wrote, and no third channel is made.
Slim == wants > 0 => got = {} /\ of[MaxGroup] = NoOne

\* The parts share no state that these modules are about: TLC explores the states of one
\* of them while the others are as they were in the beginning, and in one way of that.
TalkInit == Init /\ ThreadsInit /\ AnnounceInit /\ ShowcaseInit /\ RoutesInit
PlainPins == rules.name = ForAll /\ pins = [n \in PinName |-> Unset]
OutboxAtFirst == Init /\ required
AtFirst == PlainPins /\ hosts = {}
TalkNext ==
    \/ /\ AtFirst /\ ThreadsInit /\ AnnounceInit /\ ShowcaseInit /\ RoutesInit
       /\ Next /\ UNCHANGED <<threadsVars, announceVars, showcaseVars, routesVars>>
    \/ /\ AtFirst /\ OutboxAtFirst /\ AnnounceInit /\ ShowcaseInit /\ RoutesInit
       /\ ThreadsNext /\ Slim' /\ UNCHANGED <<vars, announceVars, showcaseVars, routesVars>>
    \/ /\ hosts = {} /\ OutboxAtFirst /\ ThreadsInit /\ ShowcaseInit /\ RoutesInit
       /\ AnnounceNext /\ Small' /\ UNCHANGED <<vars, threadsVars, showcaseVars, routesVars>>
    \/ /\ AtFirst /\ OutboxAtFirst /\ ThreadsInit /\ AnnounceInit /\ RoutesInit
       /\ ShowcaseNext /\ UNCHANGED <<vars, threadsVars, announceVars, routesVars>>
    \/ /\ PlainPins /\ OutboxAtFirst /\ ThreadsInit /\ AnnounceInit /\ ShowcaseInit
       /\ RoutesNext /\ UNCHANGED <<vars, threadsVars, announceVars, showcaseVars>>
talkVars == <<vars, threadsVars, announceVars, showcaseVars, routesVars>>
Talk == TalkInit /\ [][TalkNext]_talkVars

\* Of the outbox, what still matters.
TalkView == <<WithoutSpent, threadsVars, announceVars, showcaseVars, routesVars>>
=============================================================================

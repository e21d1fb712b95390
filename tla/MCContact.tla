----------------------------- MODULE MCContact -----------------------------
(* Instances for TLC of the relay's queue (MCRelay), and of two people with   *)
(* one device each who write to each other for the first time.               *)
EXTENDS MCRelay, Contact

CONSTANTS a, b, m1, m2, m3

MCPeople == {{a}, {b}}
MCOrder == <<a, b>>
MCWriter == [x \in Body |-> IF x = m3 THEN b ELSE a]

\* Contact has a relay of its own, reduced to what first contact needs of it.
\* TLC explores the states of one of the two while the other one is as it was
\* in the beginning.
QueueOrContactInit == Init /\ ContactInit
QueueOrContactNext ==
    \/ ContactInit /\ Next /\ UNCHANGED contactVars
    \/ Init /\ ContactNext /\ UNCHANGED vars

\* The session comes back, ticks and handles what it reads; its relay, queue
\* and reader go on.
GoesOn ==
    \A d \in Handset :
        /\ WF_contactVars(Init /\ Connect(d)) /\ WF_contactVars(Init /\ OnTick(d))
        /\ WF_contactVars(Init /\ OnKeyPackage(d)) /\ WF_contactVars(Init /\ OnPublish(d))
        /\ WF_contactVars(Init /\ OnClaim(d)) /\ WF_contactVars(Init /\ OnEnvelope(d))
        /\ WF_contactVars(Init /\ \E e \in Peers(d) : Accept(d, e))

QueueOrContact ==
    /\ QueueOrContactInit /\ [][QueueOrContactNext]_<<vars, contactVars>>
    /\ DrainFairness /\ GoesOn
=============================================================================

------------------------------ MODULE MCRelay ------------------------------
(* Instances of Relay for TLC: one identity with up to three devices,       *)
(* letters to two of them, and the constants that are functions.            *)
EXTENDS Relay, TLC

CONSTANTS phone, laptop, tablet, alice, l1, l2, l3, s1, s2

MCOwner == [d \in Device |-> alice]
MCTo == [l \in Letter |-> IF l = l3 /\ laptop \in Device THEN laptop ELSE phone]
MCSize == [l \in Letter |-> IF l = l2 THEN 3 ELSE 1]

\* No action reads out; a run whose properties do not read it either tells
\* states apart by the other variables.
WithoutLog == <<durable, now, conn, inflight, pressed, told>>

\* Connections are interchangeable.
SymmetricSessions == Permutations({s1, s2} \cap Sock)
=============================================================================

------------------------------- MODULE MCDoor -------------------------------
(* Instances of Door for TLC.                                               *)
EXTENDS Door
CONSTANTS bob, carol, MaxFrames
Symmetric == Permutations(Peer)
\* Of the policies on their way one is enough; fewer frames once the client left, and a
\* single one once a pass broke.
FewFrames ==
    /\ Len(frames) <= IF broken # {} THEN 1 ELSE IF online THEN MaxFrames ELSE MaxFrames - 1
    /\ Cardinality({i \in DOMAIN frames : frames[i].op = "set"}) <= 1
=============================================================================

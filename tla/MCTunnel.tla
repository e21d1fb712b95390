------------------------------ MODULE MCTunnel ------------------------------
(* Instances for TLC of both halves of the VPN: Tunnel with two devices, the *)
(* first with two keys, and the client's process with two nodes.            *)
EXTENDS Tunnel, VpnClient, TLC

CONSTANTS a, b, ka, kb, ka2, c1, c2, n1, n2, t1, t2

MCKeyOwner == [k \in Key |-> IF k = kb THEN b ELSE a]

\* Handlers, commands and nodes are interchangeable.
Symmetric == Permutations(Slot) \union Permutations(Task) \union Permutations(Place)

\* The halves share no state: the client sees the control plane as answers
\* that may come or not, the control plane sees requests. TLC explores the
\* states of one half while the other one is as it was in the beginning.
BothInit == Init /\ ClientInit
BothNext ==
    \/ given = 0 /\ Next /\ UNCHANGED clientVars
    \/ begun = 0 /\ ~account.expired /\ ClientNext /\ UNCHANGED vars
BothSpec == BothInit /\ [][BothNext]_<<vars, clientVars>>
=============================================================================

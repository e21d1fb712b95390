------------------------------ MODULE MCGroups ------------------------------
(* Instances for TLC of Groups, with three devices the least key of which is *)
(* not the owner's, and of the door of a client (MCDoor).                    *)
EXTENDS Groups, MCDoor
CONSTANTS a, b, c, m1, m2
MCOrder == <<b, a, c>>
MCLimits == [k \in Kinds |-> CASE k = "pair" -> [commits |-> 4, texts |-> 2, events |-> 0]
                               [] k = "chat" -> [commits |-> 3, texts |-> 1, events |-> 1]
                               [] k = "channel" -> [commits |-> 3, texts |-> 1, events |-> 0]]
Interchangeable == Symmetric \union Permutations(Body)
\* A group that has forked stays so: what happens to it then is not explored.
OnePath == ~Forked

\* A pass travels inside a group, as any letter does; the two share no state. TLC explores
\* the states of one of them while the other one is as it was in the beginning.
GroupsOrDoorInit == GroupsInit /\ Init
GroupsOrDoorNext ==
    \/ Init /\ GroupsNext /\ UNCHANGED vars
    \/ GroupsInit /\ kind = "pair" /\ Next /\ UNCHANGED groupsVars
GroupsOrDoor == GroupsOrDoorInit /\ [][GroupsOrDoorNext]_<<groupsVars, vars>>
=============================================================================

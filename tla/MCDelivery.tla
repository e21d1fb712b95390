----------------------------- MODULE MCDelivery -----------------------------
(* Instances of Delivery for TLC: a Welcome or commit (l1), messages that    *)
(* need it, and letters that cannot be read.                                 *)
EXTENDS Delivery, SequencesExt

CONSTANTS phone, alice, l1, l2, l3, l4, s1, s2

MCOwner == [d \in Device |-> alice]
MCTo == [l \in Letter |-> phone]
MCSize == [l \in Letter |-> 1]

Nothing == [l \in Letter |-> {}]
\* Two commits, l1 and l3, the second in the epoch of the first.
TwoEpochs == [l \in Letter |-> CASE l = l1 -> {} [] l \in {l2, l3} -> {l1}
                              [] l = l4 -> {l1, l3}]
AfterFirst == [l \in Letter |-> IF l = l1 THEN {} ELSE {l1}]
OneByOne == [l \in Letter |-> CASE l = l1 -> {} [] l = l2 -> {l1} [] l = l3 -> {l1, l2}
                             [] l = l4 -> {l1, l2, l3}]

NoRatchet == {}
OneSender == {<<l1, l2, l3>>}

\* Connections are interchangeable.
SymmetricSessions == Permutations({s1, s2} \cap Sock)

\* Of what was written to the connections only the frames that the client has
\* yet to read matter; states that differ in the others are one.
Frames == IF cur = None THEN <<>>
          ELSE FlattenSeq([k \in DOMAIN out[cur] |->
                 SetToSortSeq({id \in out[cur][k].ids : Behind(pos, <<k, id>>)}, <)])
WithoutRead == <<durable, now, conn, inflight, pressed, told, cur, Frames, acks, mem, disk, failed>>
=============================================================================

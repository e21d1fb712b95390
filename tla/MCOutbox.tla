------------------------------ MODULE MCOutbox ------------------------------
(* Instances of Outbox for TLC: personal threads with one device each, and  *)
(* a group of both devices.                                                 *)
EXTENDS Outbox

CONSTANTS d1, d2

OneThread == {{d1}}
TwoThreads == {{d1}, {d2}}
AllThreads == {{d1}, {d2}, {d1, d2}}

\* What has no influence any more: a late frame of an envelope that was accepted
\* and is neither queued nor in flight, the age of one that left the queue, the
\* expiry or removal of one that was accepted, and the order of the accepted.
\* States that differ in these only are one.
Finished(r) == r \in Accepted /\ r \notin queue \cup direct \cup anon
Live == {f \in wire : ~Finished(f.item)}
WithoutSpent == <<queue, stored, blocked, required, up, direct, anon, backoff, outcomes,
                  {r \in dead : ~Finished(r)}, aged \cap queue, Live, replies, Accepted,
                  nextRef, {r \in dropped : ~Finished(r)}>>

\* Liveness is about letters that stay: nothing is deleted and nobody blocked, while
\* policies and sessions change.
Undeleted == Next /\ UNCHANGED <<dropped, blocked>>
UndeletedSpec == Init /\ [][Undeleted]_vars /\ Fairness
=============================================================================

-------------------------------- MODULE Door --------------------------------
(* Who may write to one identity, the owner: passes. The owner's client       *)
(* (valanium-core/src/access.rs, and client.rs: grant_missing, deserving,     *)
(* restrictions_ready, sync_server_privacy and the commands that call them)   *)
(* keeps a book of the passes it gave; the relay (valanium-server             *)
(* ws/session.ts, db/index.ts) keeps their hashes and the policy; a peer      *)
(* keeps the last pass it was given.                                          *)
(*                                                                           *)
(* Frames to the relay are written and not awaited: they are read in order,   *)
(* or lost once the client has left the connection; all that before it comes  *)
(* with the next one (it waits before it reconnects). Gifts go through the durable queue (module    *)
(* Outbox) and the relay's (module Relay), in order for each peer.            *)
EXTENDS Naturals, Sequences, FiniteSets, SequencesExt

CONSTANTS
    Peer,       \* peers with whom the owner has a channel
    MaxPasses,  \* MAX_PASSES
    MaxMade     \* bound of a model: passes ever made

ASSUME DoorAssumption == IsFiniteSet(Peer) /\ MaxPasses \in Nat /\ MaxMade \in Nat

Scope == {"unset", "everyone", "approved"}
Policy == {"everyone", "passes"}
Standing == {"none", "known", "approved"}

VARIABLES
    standing,  \* the directory; "none": no entry
    scope,     \* direct_messages of the privacy document; "unset": no document
    policy,    \* Access.policy
    granted,   \* Access.granted; 0: none
    made,      \* passes made so far
    queue,     \* gifts that wait in the durable queue
    online,
    frames,    \* written to the connection, not read yet
    dm,        \* the relay's policy
    passes,    \* the passes the relay knows
    box,       \* gifts that wait at the relay, per peer
    keeps,     \* the pass each peer holds; 0: none
    broken     \* passes of which a frame or the gift was lost, refused, or not recorded (history)

client == <<standing, scope, policy, granted, made, queue>>
relay == <<dm, passes, box>>
vars == <<client, online, frames, relay, keeps, broken>>

-----------------------------------------------------------------------------
(* The book.                                                                 *)

\* Rule.permits over the entries of the directory.
Deserving(sc) == {p \in Peer : standing[p] = "approved" \/ (standing[p] = "known" /\ sc # "approved")}

\* restrictions_ready. (The peers' own passes must have arrived, too: they depend
\* on nothing that is modelled, so Ready only says what it asks of the owner.)
Ready ==
    \/ policy = "passes"
    \/ queue = << >> /\ \A p \in Deserving(scope) : granted[p] # 0

\* What is recorded once all is sent: the rest gives its pass back.
Book(sc, missing) ==
    [p \in Peer |-> IF \E i \in DOMAIN missing : missing[i] = p
                    THEN made + CHOOSE i \in DOMAIN missing : missing[i] = p
                    ELSE IF p \in Deserving(sc) THEN granted[p] ELSE 0]

\* grant_missing: a revoke frame for each pass of a peer who deserves none, then
\* for each peer without a pass a frame and a gift.
Stale(sc) == SetToSeq({p \in Peer : granted[p] # 0} \ Deserving(sc))
Missing(sc) == SetToSeq({p \in Deserving(sc) : granted[p] = 0})
Revokes(stale) == [i \in DOMAIN stale |-> [op |-> "revoke", pass |-> granted[stale[i]]]]
Creates(missing) == [i \in DOMAIN missing |-> [op |-> "create", pass |-> made + i]]
Gifts(missing) == [i \in DOMAIN missing |-> [to |-> missing[i], pass |-> made + i]]

\* All is sent and the book is saved at the end; or an error cuts it after `f`
\* frames and the gifts of all but perhaps the last one, and nothing is recorded.
Whole(sc, missing, sent) ==
    [frames |-> sent, gifts |-> Gifts(missing), whole |-> TRUE,
     granted |-> Book(sc, missing), made |-> made + Len(missing), broken |-> {}]
Cut(missing, sent, f, news, g) ==
    [frames |-> SubSeq(sent, 1, f), gifts |-> SubSeq(Gifts(missing), 1, g), whole |-> FALSE,
     granted |-> granted, made |-> made + news, broken |-> {sent[i].pass : i \in 1 .. f}]

Grants(sc) ==
    LET stale == Stale(sc)
        missing == Missing(sc)
        sent == Revokes(stale) \o Creates(missing)
        News(f) == IF f > Len(stale) THEN f - Len(stale) ELSE 0
    IN {Whole(sc, missing, sent)}
         \union {Cut(missing, sent, f, News(f), News(f) - k) : f \in 0 .. Len(sent), k \in {0, 1}}

Granting(o, behind) ==
    /\ o.made <= MaxMade
    /\ frames' = frames \o o.frames \o behind
    /\ queue' = queue \o o.gifts
    /\ granted' = o.granted /\ made' = o.made
    /\ broken' = broken \union o.broken

\* (history) The passes that the door must not shut out.
Due(o, sc) == {o.granted[p] : p \in Deserving(sc)} \ (IF o.whole THEN {} ELSE {0})

\* Mutant: the door is closed first.
Closing_First(o, sc, pol) ==
    /\ Granting([o EXCEPT !.frames = <<[op |-> "set", policy |-> pol, due |-> Due(o, sc)]>> \o @], << >>)
    /\ policy' = pol

\* Grants, then the policy.
Closing(o, sc, pol) ==
    /\ Granting(o, <<[op |-> "set", policy |-> pol, due |-> Due(o, sc)]>>)
    /\ policy' = pol

\* A send fails on the way: the client leaves the connection.
Breaking(o) == Granting(o, << >>) /\ online' = FALSE /\ UNCHANGED policy

Wanted(sc) == IF sc = "everyone" THEN "everyone" ELSE "passes"

-----------------------------------------------------------------------------
(* The owner's client.                                                       *)

\* AUTH_OK: grant_missing, then sync_server_privacy.
Connect ==
    /\ ~online /\ frames = << >>
    /\ \E o \in Grants(scope) :
          \/ /\ online' = TRUE
             /\ IF scope = "unset" THEN Granting(o, << >>) /\ UNCHANGED policy
                ELSE Closing(o, scope, Wanted(scope))
          \/ Breaking(o)
    /\ UNCHANGED <<standing, scope, relay, keeps>>

\* After ENVELOPE, KEYPKG, SEND_OK and QUEUE_DONE.
Reconcile ==
    /\ online
    /\ \E o \in Grants(scope) : o.frames # << >> /\ Granting(o, << >>)
    /\ UNCHANGED <<standing, scope, policy, online, relay, keeps>>

\* PrivacySet; the new rule is saved before the passes are looked at.
PrivacySet(sc) ==
    /\ sc = "approved" => Ready
    /\ scope' = sc
    /\ IF online THEN \E o \in Grants(sc) : \/ o.whole /\ Closing(o, sc, Wanted(sc)) /\ UNCHANGED online
                                           \/ Breaking(o)
       ELSE UNCHANGED <<policy, granted, made, queue, online, frames, broken>>
    /\ UNCHANGED <<standing, relay, keeps>>

\* The client leaves the connection.
Disconnect ==
    /\ online /\ online' = FALSE
    /\ UNCHANGED <<client, frames, relay, keeps, broken>>

\* What was written and not read is gone.
Lose ==
    /\ ~online /\ frames # << >> /\ frames' = << >>
    /\ broken' = broken \union {frames[i].pass : i \in {j \in DOMAIN frames : frames[j].op # "set"}}
    /\ UNCHANGED <<client, online, relay, keeps>>

\* PrivacyMaximize; on a connection the session is closed, to come back by onion.
Maximize ==
    /\ Ready
    /\ scope' = "approved" /\ online' = FALSE
    /\ UNCHANGED <<standing, policy, granted, made, queue, frames, relay, keeps, broken>>

AccessSet(pol) ==
    /\ online
    /\ pol = "passes" => Ready
    /\ \E o \in Grants(scope) : \/ Closing(o, scope, pol) /\ UNCHANGED online
                               \/ Breaking(o)
    /\ UNCHANGED <<standing, scope, relay, keeps>>

\* Mutant: the book is corrected, the relay is not told.
PassRevoke_Silent(p) ==
    /\ online /\ granted[p] # 0
    /\ granted' = [granted EXCEPT ![p] = 0]
    /\ UNCHANGED <<standing, scope, policy, made, queue, online, frames, relay, keeps, broken>>

PassRevoke(p) ==
    /\ online /\ granted[p] # 0
    /\ frames' = Append(frames, [op |-> "revoke", pass |-> granted[p]])
    /\ granted' = [granted EXCEPT ![p] = 0]
    /\ UNCHANGED <<standing, scope, policy, made, queue, online, relay, keeps, broken>>

\* DirectorySet (a block is an entry like any other), DirectoryForget.
DirectorySet(p, to) ==
    /\ standing[p] # to
    /\ standing' = [standing EXCEPT ![p] = to]
    /\ UNCHANGED <<scope, policy, granted, made, queue, online, frames, relay, keeps, broken>>

-----------------------------------------------------------------------------
(* The relay, and the gifts.                                                 *)

Full == Cardinality(passes) >= MaxPasses

ReadFrame ==
    /\ frames # << >> /\ frames' = Tail(frames)
    /\ LET f == Head(frames) IN
       \/ /\ f.op = "create"   \* onPassCreate: the refusal is only shown
          /\ IF Full THEN broken' = broken \union {f.pass} /\ UNCHANGED passes
             ELSE passes' = passes \union {f.pass} /\ UNCHANGED broken
          /\ UNCHANGED dm
       \/ f.op = "revoke" /\ passes' = passes \ {f.pass} /\ UNCHANGED <<dm, broken>>
       \/ f.op = "set" /\ dm' = f.policy /\ UNCHANGED <<passes, broken>>
    /\ UNCHANGED <<client, online, box, keeps>>

First(i) == \A j \in 1 .. i - 1 : queue[j].to # queue[i].to

\* The relay takes a gift in, by either route.
GiftSent(i) ==
    /\ First(i)
    /\ queue' = RemoveAt(queue, i)
    /\ box' = [box EXCEPT ![queue[i].to] = Append(@, queue[i].pass)]
    /\ UNCHANGED <<standing, scope, policy, granted, made, online, frames, dm, passes, keeps, broken>>

\* It waits for too long, here or there.
GiftExpires(p) ==
    /\ \/ /\ \E i \in DOMAIN queue :
                /\ queue[i].to = p /\ queue' = RemoveAt(queue, i)
                /\ broken' = broken \union {queue[i].pass}
          /\ UNCHANGED box
       \/ /\ box[p] # << >> /\ box' = [box EXCEPT ![p] = Tail(@)]
          /\ broken' = broken \union {Head(box[p])}
          /\ UNCHANGED queue
    /\ UNCHANGED <<standing, scope, policy, granted, made, online, frames, dm, passes, keeps>>

\* Control::Pass at the peer: hold keeps the last one.
ReadGift(p) ==
    /\ box[p] # << >>
    /\ keeps' = [keeps EXCEPT ![p] = Head(box[p])]
    /\ box' = [box EXCEPT ![p] = Tail(@)]
    /\ UNCHANGED <<client, online, frames, dm, passes, broken>>

Init ==
    /\ standing = [p \in Peer |-> "none"] /\ scope = "unset" /\ policy = "everyone"
    /\ granted = [p \in Peer |-> 0] /\ made = 0 /\ queue = << >>
    /\ online = FALSE /\ frames = << >>
    /\ dm = "everyone" /\ passes = {} /\ box = [p \in Peer |-> << >>]
    /\ keeps = [p \in Peer |-> 0] /\ broken = {}

Next ==
    \/ Connect \/ Reconcile \/ Maximize \/ Disconnect \/ Lose \/ ReadFrame
    \/ \E sc \in Scope \ {"unset"} : PrivacySet(sc)
    \/ \E pol \in Policy : AccessSet(pol)
    \/ \E i \in DOMAIN queue : GiftSent(i)
    \/ \E p \in Peer :
         \/ PassRevoke(p) \/ GiftExpires(p) \/ ReadGift(p)
         \/ \E to \in Standing : DirectorySet(p, to)

Spec == Init /\ [][Next]_vars
-----------------------------------------------------------------------------
\* Types; what is made is counted.
TypeOK ==
    /\ standing \in [Peer -> Standing] /\ scope \in Scope /\ {policy, dm} \subseteq Policy
    /\ granted \in [Peer -> 0 .. made] /\ keeps \in [Peer -> 0 .. made]
    /\ made \in 0 .. MaxMade /\ online \in BOOLEAN
    /\ \A i \in DOMAIN queue : queue[i] \in [to : Peer, pass : 1 .. made]
    /\ \A p \in Peer : \A i \in DOMAIN box[p] : box[p][i] \in 1 .. made
    /\ passes \subseteq 1 .. made /\ broken \subseteq 1 .. made
    /\ Cardinality(passes) <= MaxPasses

\* The passes of the owner that a peer has, or will have once its mail is read.
GiftsOf(p) == {keeps[p]} \union ToSet(box[p]) \union {g.pass : g \in {x \in ToSet(queue) : x.to = p}}
IsLatest(q, p) ==
    LET own == {i \in DOMAIN queue : queue[i].to = p} IN
    IF own # {} THEN \E i \in own : queue[i].pass = q /\ \A j \in own : j <= i
    ELSE q = Last(<<keeps[p]>> \o box[p])

\* The book is true: once the relay has read what was written, whoever stands in
\* it can enter with the last pass he was given, and of all passes anybody was ever
\* given the relay honours no other, unless a part of a pass broke. And the relay
\* never holds more of them than it has room for (TypeOK).
BookIsTrue ==
    /\ TypeOK
    /\ frames = << >> => \A p \in Peer :
          /\ granted[p] \notin {0} \union broken => granted[p] \in passes /\ IsLatest(granted[p], p)
          /\ GiftsOf(p) \intersect passes \subseteq {granted[p]} \union broken

\* "First the passes, then the door" (client.rs:3109): when the relay closes it,
\* it knows the pass of everyone who deserved one when the owner decided so.
ClosedAfterGranted ==
    [][dm = "everyone" /\ dm' = "passes" => Head(frames).due \subseteq passes \union broken]_vars
=============================================================================

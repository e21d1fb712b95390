------------------------------ MODULE Announce ------------------------------
(* What a device has told its contacts of its user, and the books it keeps   *)
(* of that (valanium-core/src/client.rs: own_devices_arrived,                *)
(* announce_devices, announce_display_name, grant_missing, attach_channel;   *)
(* privacy.rs, directory.rs, pins.rs).                                       *)
(*                                                                           *)
(* Three things are told inside the channel of a contact, each once: the     *)
(* list of the user's devices, his name or an empty one, as his rules say,   *)
(* and the key of his picture. A book of each says who has been told. The    *)
(* channel may be replaced, a conversation be deleted with what was queued   *)
(* in it, and the process may end between any two saves.                     *)
EXTENDS Naturals, Sequences, FiniteSets

CONSTANTS
    Friend,    \* devices the user talks to
    PinName,   \* names under which older versions pinned keys
    PinStates, \* pins such a version may have left
    Name,      \* names of the user
    Hidden,    \* the empty name
    Rules,     \* the rules for name and picture a user sets
    MaxList,   \* bound of a model: lists of own devices
    MaxChan,   \* bound of a model: channels with one peer
    MaxPost,   \* bound of a model: letters of a kind on their way to one
    Unset

Standing == {"contact", "approved", "pending", "blocked"}
Scope == {"everyone", "approved", "contacts", "nobody"}
Rule == [scope : Scope, allow : SUBSET Friend, deny : SUBSET Friend]
Kind == {"devices", "name", "key"}
Pin == [pending : Friend \union {Unset}, untrusted : SUBSET Friend]

AnnounceAssumption ==
    /\ MaxList \in Nat /\ MaxChan \in Nat /\ MaxPost \in Nat
    /\ Rules \subseteq [name : Rule, avatar : Rule]
    /\ PinStates \subseteq [PinName -> Pin \union {Unset}]
    /\ Unset \notin Name \union {Hidden} \union Friend \union Pin /\ Hidden \notin Name
ASSUME AnnounceAssumption

VARIABLES
    served,    \* connected and let in
    standing,  \* the directory
    rules,     \* the rules for name and picture
    pins,      \* what is pinned
    ownName,   \* own_display_name
    real,      \* the list of devices at the relay
    list,      \* OWN_DEVICES: the one that came last, 0 is none
    toldOf,    \* OWN_DEVICES_TOLD
    named,     \* profile-name-sent: what each was told last
    keyed,     \* PROFILE_KEY_SENT
    chan,      \* conversations: the channel of each peer, 0 is none
    lostState, \* peers whose channel this device has lost the state of
    post,      \* letters on their way, by peer and kind
    heard,     \* what each has read
    missed     \* (history) what a book may be wrong of, and why is not to be seen there

books == <<list, toldOf, named, keyed>>
owner == <<standing, rules, pins, ownName>>
announceVars == <<served, owner, real, books, chan, lostState, post, heard, missed>>
-----------------------------------------------------------------------------
(* Rules and pins.                                                           *)

Relation(p) == IF standing[p] \in {"contact", "approved"} THEN standing[p] ELSE "unknown"

Permits(rule, p) ==
    /\ p \notin rule.deny
    /\ \/ p \in rule.allow
       \/ rule.scope = "everyone"
       \/ rule.scope = "approved" /\ Relation(p) # "unknown"
       \/ rule.scope = "contacts" /\ Relation(p) = "contact"

\* maximize, of the two rules this module is about.
Maximal(rule) == [rule EXCEPT !.scope = "contacts", !.allow = {}]

HeldByPin(p) == \E n \in PinName : pins[n] # Unset /\ (pins[n].pending = p \/ p \in pins[n].untrusted)
Reachable == {p \in Friend : chan[p] # 0 /\ p \notin lostState}

\* The name a peer is to know, under rules rs.
Due(rs, name, p) == IF Permits(rs.name, p) THEN name ELSE Hidden

\* avatar_recipients; without a private picture there is no key to give.
Entitled(rs) ==
    IF rs.avatar.scope = "everyone" THEN {}
    ELSE {p \in Friend : standing[p] \notin {Unset, "blocked"} /\ Permits(rs.avatar, p)}
-----------------------------------------------------------------------------
(* Telling. Each letter is a transaction of its own; a book of names is saved *)
(* after each letter, the others at the end. A step that fails (the queue is  *)
(* full, the process ends) leaves what was saved.                             *)

Saying(p, val) == [val |-> val, chan |-> chan[p]]
Room(p, k) == Len(post[p][k]) < MaxPost

\* What is queued: to each of to[k] a letter of kind k, with its val[k].
Posted(to, val) ==
    /\ \A p \in Friend, k \in Kind : p \in to[k] => Room(p, k)
    /\ post' = [p \in Friend |-> [k \in Kind |->
          IF p \in to[k] THEN Append(post[p][k], Saying(p, val[k][p])) ELSE post[p][k]]]

Same(x) == [k \in Kind |-> [p \in Friend |-> x]]
Unheld(ps) == {p \in ps : ~HeldByPin(p)}
Pairs(ps, k) == ps \X {k}

\* Mutant: the book is saved before the letters are queued.
DevicesArrive_Early(v, whole, ps) ==
    LET before == IF v # list THEN {} ELSE toldOf
        todo == Reachable \ before
    IN /\ served /\ v \in list .. real /\ v # 0
       /\ list' = v
       /\ ps \subseteq todo /\ (whole => ps = todo)
       /\ Posted([devices |-> Unheld(ps), name |-> {}, key |-> {}], Same(v))
       /\ toldOf' = before \union todo
       /\ served' = whole
       /\ missed' = (missed \ Pairs(Unheld(ps), "devices")) \union Pairs({p \in ps : HeldByPin(p)}, "devices")
       /\ UNCHANGED <<owner, real, named, keyed, chan, lostState, heard>>

\* own_devices_arrived: a new list makes the book of the old one void, then
\* announce_devices tells those it does not name; a peer that a pin holds gets nothing and
\* is written down. It may stop after ps were told.
DevicesArrive(v, whole, ps) ==
    LET before == IF v # list THEN {} ELSE toldOf
        todo == Reachable \ before
    IN /\ served /\ v \in list .. real /\ v # 0
       /\ list' = v
       /\ ps \subseteq todo /\ (whole => ps = todo)
       /\ Posted([devices |-> Unheld(ps), name |-> {}, key |-> {}], Same(v))
       /\ toldOf' = IF whole THEN before \union todo ELSE before
       /\ served' = whole
       /\ missed' = (missed \ Pairs(Unheld(ps), "devices"))
                    \union (IF whole THEN Pairs({p \in ps : HeldByPin(p)}, "devices") ELSE {})
       /\ UNCHANGED <<owner, real, named, keyed, chan, lostState, heard>>

\* The process ends between the two saves: a new list, and the book of the old.
DevicesTorn(v) ==
    /\ served /\ v \in list .. real /\ v # list
    /\ list' = v /\ served' = FALSE
    /\ missed' = missed \union Pairs(toldOf, "devices")
    /\ UNCHANGED <<owner, real, toldOf, named, keyed, chan, lostState, post, heard>>

\* announce_display_name: whom it is for.
ToName(rs, name) ==
    {p \in Reachable : standing[p] # "blocked" /\ ~HeldByPin(p) /\ name # Unset /\ named[p] # Due(rs, name, p)}
ToKey(rs) == (Entitled(rs) \intersect Reachable) \ keyed

\* grant_missing, what passes apart: names, then keys. It may stop among the names, with
\* one of them told and not written down (forgot), at the passes, or among the keys, whose
\* book is not saved then.
Grants(rs, name, names, forgot, keys, whole) ==
    LET to == [devices |-> {}, name |-> names, key |-> Unheld(keys)]
    IN /\ names \subseteq ToName(rs, name) /\ forgot \subseteq names /\ Cardinality(forgot) <= 1
       /\ keys \subseteq ToKey(rs)
       /\ keys # {} \/ whole => names = ToName(rs, name) /\ forgot = {}
       /\ whole => keys = ToKey(rs)
       /\ Posted(to, [Same(TRUE) EXCEPT !["name"] = [p \in Friend |-> Due(rs, name, p)]])
       /\ named' = [p \in Friend |-> IF p \in names \ forgot THEN Due(rs, name, p) ELSE named[p]]
       /\ keyed' = IF whole THEN keyed \union keys ELSE keyed
       /\ missed' = (missed \ (Pairs(names \ forgot, "name") \union Pairs(Unheld(keys), "key")))
                     \union Pairs(forgot, "name")
                     \union (IF whole THEN Pairs(keys \ Unheld(keys), "key") ELSE {})
       /\ UNCHANGED <<real, list, toldOf, chan, lostState, heard>>

\* After the login and after most frames: what stops it is reported, or ends the session.
GrantMissing(names, forgot, keys, whole) ==
    /\ served /\ served' \in {TRUE, whole}
    /\ Grants(rules, ownName, names, forgot, keys, whole)
    /\ UNCHANGED owner
-----------------------------------------------------------------------------
(* The user's commands.                                                      *)

Quiet == UNCHANGED <<real, books, chan, lostState, post, heard, missed>>

\* DirectorySet, DirectoryForget; ContactName notes a pending contact.
SetStanding(p, s) ==
    /\ standing' = [standing EXCEPT ![p] = s]
    /\ Quiet /\ UNCHANGED <<served, rules, pins, ownName>>

\* PrivacySet: saved, and acted upon at once if connected.
PrivacySet(r, names, forgot, keys, whole) ==
    /\ rules' = r
    /\ UNCHANGED <<standing, pins, ownName>>
    /\ \/ ~served /\ served' = served /\ UNCHANGED <<real, books, chan, lostState, post, heard, missed>>
       \/ served /\ served' = whole /\ Grants(r, ownName, names, forgot, keys, whole)

\* PrivacyMaximize ends the session.
MaximizeRules ==
    /\ rules' = [name |-> Maximal(rules.name), avatar |-> Maximal(rules.avatar)]
    /\ served' = FALSE
    /\ Quiet /\ UNCHANGED <<standing, pins, ownName>>

\* ProfileName: only while connected, and those who may know it are told at once.
ProfileName(n, names, forgot, whole) ==
    /\ served /\ served' = whole
    /\ whole => names = ToName(rules, n) /\ forgot = {}
    /\ ownName' = n
    /\ Grants(rules, n, names, forgot, {}, FALSE)
    /\ UNCHANGED <<standing, rules, pins>>

\* The key that changed is accepted (it is never the one pinned), or the pin is forgotten.
PinAccept(n, p) ==
    /\ pins[n] # Unset /\ pins[n].pending = p
    /\ pins' = [pins EXCEPT ![n] = [pending |-> Unset, untrusted |-> @.untrusted \ {p}]]
    /\ Quiet /\ UNCHANGED <<served, standing, rules, ownName>>
PinForget(n) ==
    /\ pins' = [pins EXCEPT ![n] = Unset]
    /\ Quiet /\ UNCHANGED <<served, standing, rules, ownName>>
-----------------------------------------------------------------------------
(* Channels and letters.                                                     *)

NextChan(p) == {c \in 1 .. MaxChan : c # chan[p] /\ \A k \in Kind :
                    \A i \in DOMAIN post[p][k] : post[p][k][i].chan # c}

\* Mutant: the book of keys outlives the channel.
Attach_Kept(p, c) ==
    /\ c \in NextChan(p)
    /\ chan' = [chan EXCEPT ![p] = c] /\ lostState' = lostState \ {p}
    /\ UNCHANGED keyed

\* attach_channel: the key is to be given anew in it. The other books stay.
Attach(p, c) ==
    /\ c \in NextChan(p)
    /\ chan' = [chan EXCEPT ![p] = c] /\ lostState' = lostState \ {p}
    /\ keyed' = keyed \ {p}

\* An event Joined: an invitation, as a rule because the peer has lost what he had, the channel or
\* (blank) all he was told.
Nothing == [devices |-> 0, name |-> Unset, key |-> FALSE]
JoinChannel(p, c, blank) ==
    /\ served /\ standing[p] # "blocked"
    /\ standing' = [standing EXCEPT ![p] = IF @ = Unset THEN "pending" ELSE @]
    /\ Attach(p, c)
    /\ heard' = IF blank THEN [heard EXCEPT ![p] = Nothing] ELSE heard
    /\ missed' = IF blank THEN (missed \union {<<p, "devices">>, <<p, "name">>}) \ {<<p, "key">>}
                 ELSE missed \ {<<p, "key">>}
    /\ UNCHANGED <<served, rules, pins, ownName, real, list, toldOf, named, post>>

\* on_key_package, for the first message to a peer or for the repair of a channel.
OpenChannel(p, c) ==
    /\ served /\ ~HeldByPin(p)
    /\ chan[p] # 0 => p \in lostState /\ standing[p] # "blocked"
    /\ standing' = [standing EXCEPT ![p] = IF @ = Unset /\ chan[p] = 0 THEN "approved" ELSE @]
    /\ Attach(p, c)
    /\ missed' = missed \ {<<p, "key">>}
    /\ UNCHANGED <<served, rules, pins, ownName, real, list, toldOf, named, post, heard>>

\* The state of a group is not there (an older copy of the database).
LoseState(p) ==
    /\ chan[p] # 0 /\ lostState' = lostState \union {p}
    /\ UNCHANGED <<served, owner, real, books, chan, post, heard, missed>>

\* DeleteConversation: forget_thread drops what is queued, and no book is opened.
DropChannel(p) ==
    /\ chan[p] # 0
    /\ chan' = [chan EXCEPT ![p] = 0] /\ lostState' = lostState \ {p}
    /\ post' = [post EXCEPT ![p] = [k \in Kind |-> <<>>]]
    /\ missed' = missed \union {<<p, k>> : k \in {x \in Kind : post[p][x] # <<>>}}
    /\ UNCHANGED <<served, owner, real, books, heard>>

\* The first letter of a kind is read,
Read(p, k) ==
    /\ post[p][k] # <<>>
    /\ post' = [post EXCEPT ![p][k] = Tail(@)]
    /\ heard' = [heard EXCEPT ![p][k] = Head(post[p][k]).val]
    /\ UNCHANGED <<served, owner, real, books, chan, lostState, missed>>

\* or never: it expires, or it is of a channel that the peer has no more.
NeverRead(p, k) ==
    /\ post[p][k] # <<>>
    /\ post' = [post EXCEPT ![p][k] = Tail(@)]
    /\ missed' = IF Len(post[p][k]) = 1 /\ (k = "key" => Head(post[p][k]).chan = chan[p])
                 THEN missed \union {<<p, k>>} ELSE missed
    /\ UNCHANGED <<served, owner, real, books, chan, lostState, heard>>

LetIn == served' = TRUE /\ Quiet /\ UNCHANGED owner
CutOff == served' = FALSE /\ Quiet /\ UNCHANGED owner

\* Another device of the user is enrolled or revoked.
OtherDevice ==
    /\ real < MaxList /\ real' = real + 1
    /\ UNCHANGED <<served, owner, books, chan, lostState, post, heard, missed>>
-----------------------------------------------------------------------------
AnnounceInit ==
    /\ served = FALSE
    /\ standing = [p \in Friend |-> Unset]
    /\ rules \in Rules
    /\ pins \in PinStates /\ ownName = Unset /\ real = 1
    /\ list = 0 /\ toldOf = {} /\ named = [p \in Friend |-> Unset] /\ keyed = {}
    /\ chan = [p \in Friend |-> 0] /\ lostState = {}
    /\ post = [p \in Friend |-> [k \in Kind |-> <<>>]]
    /\ heard = [p \in Friend |-> Nothing] /\ missed = {}

Telling ==
    \/ \E v \in 1 .. MaxList, ps \in SUBSET Friend :
          (\E whole \in BOOLEAN : DevicesArrive(v, whole, ps)) \/ DevicesTorn(v)
    \/ \E names, forgot, keys \in SUBSET Friend, whole \in BOOLEAN :
          \/ GrantMissing(names, forgot, keys, whole)
          \/ \E r \in Rules : PrivacySet(r, names, forgot, keys, whole)
          \/ \E n \in Name : ProfileName(n, names, forgot, whole)

AnnounceNext ==
    \/ Telling \/ MaximizeRules \/ LetIn \/ CutOff \/ OtherDevice
    \/ \E p \in Friend :
          \/ \E s \in Standing \union {Unset} : SetStanding(p, s)
          \/ \E n \in PinName : PinAccept(n, p) \/ PinForget(n)
          \/ \E c \in 1 .. MaxChan : OpenChannel(p, c) \/ \E blank \in BOOLEAN : JoinChannel(p, c, blank)
          \/ LoseState(p) \/ DropChannel(p)
          \/ \E k \in Kind : Read(p, k) \/ NeverRead(p, k)

AnnounceSpec == AnnounceInit /\ [][AnnounceNext]_announceVars
-----------------------------------------------------------------------------
AnnounceTypeOK ==
    /\ served \in BOOLEAN /\ standing \in [Friend -> Standing \union {Unset}]
    /\ rules \in [name : Rule, avatar : Rule]
    /\ pins \in [PinName -> Pin \union {Unset}] /\ ownName \in Name \union {Unset}
    /\ real \in Nat /\ list \in 0 .. real
    /\ toldOf \subseteq Friend /\ named \in [Friend -> Name \union {Hidden, Unset}] /\ keyed \subseteq Friend
    /\ chan \in [Friend -> Nat] /\ lostState \subseteq Friend
    /\ \A p \in Friend : DOMAIN post[p] = Kind /\ DOMAIN heard[p] = Kind
    /\ missed \subseteq Friend \X Kind

\* What a peer will know in the end: the last letter on its way, or what he has read.
KnownTo(p, k) == IF post[p][k] = <<>> THEN heard[p][k] ELSE post[p][k][Len(post[p][k])].val

\* The books are true: whom they name has been told, or is about to be, what they say and
\* nothing later - the list of devices, the name or that there is none, and, in the very
\* channel he has now, the key of the picture - whatever stopped the telling half way,
\* unless the letter was lost after it had been written down, a pin held it, or the
\* process ended between the two saves (client.rs:1333-1575).
BooksAreTrue ==
    /\ AnnounceTypeOK
    /\ \A p \in Friend :
        /\ p \in toldOf /\ <<p, "devices">> \notin missed => KnownTo(p, "devices") = list
        /\ named[p] # Unset /\ <<p, "name">> \notin missed => KnownTo(p, "name") = named[p]
        /\ p \in keyed /\ chan[p] # 0 /\ <<p, "key">> \notin missed => KnownTo(p, "key")
=============================================================================

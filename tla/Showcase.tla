------------------------------ MODULE Showcase ------------------------------
(* What the relay shows of a user: name, picture and ornaments of his        *)
(* profile (valanium-core/src/client.rs: sync_server_privacy, NameSet,   *)
(* ProfileSet, ProfileDecor, the PROFILE frame; profile.rs;                  *)
(* valanium-server/src/ws/session.ts: onProfileSet).                         *)
(*                                                                           *)
(* The device keeps a document of rules, which exists once the user has set  *)
(* one, and the name; it publishes the name as the rules allow, and seals    *)
(* picture and ornaments unless they are for everyone. The relay keeps what  *)
(* the frames bring. Frames stay in order and are lost with the connection.  *)
(* What is published is numbered. Other devices of the user, who keep rules  *)
(* and a name of their own and write to the same profile, are left out.      *)
EXTENDS Naturals, Sequences

CONSTANTS
    Label,   \* names of the user
    NoLabel, \* the empty one
    MaxShow, \* bound of a model: pictures and ornaments published
    MaxWire, \* bound of a model: frames on their way, and answers
    NoDoc

ShowcaseAssumption ==
    MaxShow \in Nat /\ MaxWire \in Nat /\ NoLabel \notin Label /\ NoDoc \notin Label \union {NoLabel}
ASSUME ShowcaseAssumption

VARIABLES
    link,    \* connected and let in
    doc,     \* the document: is the name for all, the picture; or NoDoc
    myName,  \* own_display_name
    pub,     \* pending_avatar_publication: the picture no answer has shown yet, or 0
    shows,   \* how many pictures and ornaments were published
    going,   \* frames to the relay,
    coming,  \* and its answers: the picture of the profile as it was then
    row,     \* the profile at the relay
    noticed, \* (history) the picture contacts were told of last
    worn     \* (history) the ornaments the user put on last, and whether sealed

owned == <<doc, myName, pub, shows>>
onWire == <<going, coming>>
showcaseVars == <<link, owned, onWire, row, noticed, worn>>

Document == [name : BOOLEAN, picture : BOOLEAN]
\* Without a document the name is for all, the picture for those he approved.
RulesNow == IF doc = NoDoc THEN [name |-> TRUE, picture |-> FALSE] ELSE doc
Allowed(d, n) == IF d.name THEN n ELSE NoLabel

NameFrame(n) == [op |-> "name", name |-> n]
Picture(k) == [op |-> "picture", show |-> k]
Ornament(k, sealed) == [op |-> "ornament", show |-> k, sealed |-> sealed]
AskRow == [op |-> "ask"]

Sends(f) == Len(going) < MaxWire /\ going' = Append(going, f)
-----------------------------------------------------------------------------
(* The device.                                                               *)

\* Mutant: rules are restored only by the command that changes them.
Restore_Never(d) == UNCHANGED going

\* sync_server_privacy: with no document there is nothing to restore.
Restore(d) == IF d = NoDoc \/ myName = NoDoc THEN UNCHANGED going ELSE Sends(NameFrame(Allowed(d, myName)))

\* The end of the login.
LinkUp ==
    /\ ~link /\ link' = TRUE
    /\ Restore(doc)
    /\ UNCHANGED <<owned, coming, row, noticed, worn>>

\* USERNAME_OK, the answer to a name of an older version: the rules are restored again.
OnUsernameOk ==
    /\ link /\ Restore(doc)
    /\ UNCHANGED <<link, owned, coming, row, noticed, worn>>

Dropped == link' = FALSE /\ going' = <<>> /\ coming' = <<>>
LinkLost == Dropped /\ UNCHANGED <<owned, row, noticed, worn>>

\* RulesSet: saved; if connected, contacts are told, and then the relay, or what stops
\* that ends the session.
RulesSet(d) ==
    /\ doc' = d
    /\ \/ ~link /\ UNCHANGED <<link, onWire>>
       \/ link /\ Restore(d) /\ UNCHANGED <<link, coming>>
       \/ link /\ Dropped
    /\ UNCHANGED <<myName, pub, shows, row, noticed, worn>>

\* RulesMaximize ends the session.
RulesMaximize ==
    /\ doc' = [name |-> FALSE, picture |-> FALSE]
    /\ Dropped
    /\ UNCHANGED <<myName, pub, shows, row, noticed, worn>>

NameSet(n) ==
    /\ link
    /\ myName' = n
    /\ Sends(NameFrame(Allowed(RulesNow, n))) /\ UNCHANGED link
    /\ UNCHANGED <<doc, pub, shows, coming, row, noticed, worn>>

\* ProfileSet: a sealed picture is a new one each time, though it may be the same inside.
ProfileSet ==
    /\ link /\ shows < MaxShow
    /\ shows' = shows + 1 /\ pub' = shows'
    /\ Sends(Picture(shows'))
    /\ UNCHANGED <<link, doc, myName, coming, row, noticed, worn>>

ProfileDecor ==
    /\ link /\ shows < MaxShow
    /\ shows' = shows + 1
    /\ worn' = [show |-> shows', sealed |-> ~RulesNow.picture]
    /\ Sends(Ornament(shows', ~RulesNow.picture))
    /\ UNCHANGED <<link, doc, myName, pub, coming, row, noticed>>

\* The interface asks for its own profile.
ProfileGet ==
    /\ link /\ Sends(AskRow)
    /\ UNCHANGED <<link, owned, coming, row, noticed, worn>>

\* Mutant: any answer about the own profile counts.
OnProfile_Any ==
    /\ coming # <<>> /\ coming' = Tail(coming)
    /\ IF pub # 0 THEN noticed' = pub /\ pub' = 0 ELSE UNCHANGED <<noticed, pub>>
    /\ UNCHANGED <<link, doc, myName, shows, going, row, worn>>

\* PROFILE: contacts are told of a new picture once the relay is seen to have it. What
\* stops the telling ends the session (LinkLost), and it is told again.
OnProfile ==
    /\ coming # <<>> /\ coming' = Tail(coming)
    /\ IF pub # 0 /\ Head(coming) = pub THEN noticed' = pub /\ pub' = 0 ELSE UNCHANGED <<noticed, pub>>
    /\ UNCHANGED <<link, doc, myName, shows, going, row, worn>>
-----------------------------------------------------------------------------
(* The relay.                                                                *)

\* Mutant: the relay keeps open ornaments beside sealed ones.
Worn_Beside(r, f) == IF f.sealed THEN [r EXCEPT !.blob = f.show] ELSE [r EXCEPT !.plain = f.show]

\* updateDecoration: sealed ornaments come with the order to take off the open ones; open
\* ones leave the sealed blob where it is.
Worn(r, f) == IF f.sealed THEN [r EXCEPT !.blob = f.show, !.plain = 0] ELSE [r EXCEPT !.plain = f.show]

\* onProfileSet, onProfileGet.
RowAfter(f) ==
    CASE f.op = "name" -> [row EXCEPT !.name = f.name]
      [] f.op = "picture" -> [row EXCEPT !.picture = f.show]
      [] f.op = "ornament" -> Worn(row, f)
      [] f.op = "ask" -> row
OnFrame ==
    /\ going # <<>> /\ going' = Tail(going)
    /\ row' = RowAfter(Head(going))
    /\ Len(coming) < MaxWire /\ coming' = Append(coming, row'.picture)
    /\ UNCHANGED <<link, owned, noticed, worn>>
-----------------------------------------------------------------------------
ShowcaseInit ==
    /\ link = FALSE /\ doc = NoDoc /\ myName = NoDoc /\ pub = 0 /\ shows = 0
    /\ going = <<>> /\ coming = <<>>
    /\ row = [name |-> NoLabel, picture |-> 0, plain |-> 0, blob |-> 0]
    /\ noticed = 0 /\ worn = [show |-> 0, sealed |-> FALSE]

ShowcaseNext ==
    \/ LinkUp \/ OnUsernameOk \/ LinkLost \/ RulesMaximize
    \/ \E d \in Document : RulesSet(d)
    \/ \E n \in Label : NameSet(n)
    \/ ProfileSet \/ ProfileDecor \/ ProfileGet \/ OnProfile \/ OnFrame

ShowcaseSpec == ShowcaseInit /\ [][ShowcaseNext]_showcaseVars
-----------------------------------------------------------------------------
Frame == [op : {"name"}, name : Label \union {NoLabel}] \union [op : {"picture"}, show : Nat]
         \union [op : {"ornament"}, show : Nat, sealed : BOOLEAN] \union {AskRow}

ShowcaseTypeOK ==
    /\ link \in BOOLEAN /\ doc \in Document \union {NoDoc} /\ myName \in Label \union {NoDoc}
    /\ pub \in 0 .. shows /\ shows \in Nat
    /\ going \in Seq(Frame) /\ coming \in Seq(Nat)
    /\ row \in [name : Label \union {NoLabel}, picture : Nat, plain : Nat, blob : Nat]
    /\ noticed \in Nat /\ worn \in [show : Nat, sealed : BOOLEAN]

Index(op) == {i \in DOMAIN going : going[i].op = op}

\* Once the user has set rules, the name at the relay is the one they allow, as soon as the
\* relay has read what a connected device has written, also when they changed while there
\* was no connection (client.rs:2141-2153, 3205-3215).
HiddenNameStays ==
    link /\ doc # NoDoc /\ myName # NoDoc /\ Index("name") = {} => row.name = Allowed(doc, myName)

\* Contacts are told of a picture when the relay has it, and of the one it has: the last
\* one sent may be lost with the connection, and then nobody is told (client.rs:3638-3655).
NoticeIsTrue == noticed <= row.picture /\ (pub = 0 => noticed = row.picture)

\* No open ornaments stay beside those the user has sealed (proto.rs:428-437,
\* session.ts:746-778).
NoneBeside == worn.sealed /\ Index("ornament") = {} /\ row.blob = worn.show => row.plain = 0

ShownIsSet == ShowcaseTypeOK /\ HiddenNameStays /\ NoticeIsTrue /\ NoneBeside
=============================================================================

------------------------------- MODULE Groups -------------------------------
(* An MLS group at its members' devices (valanium-core/src/client.rs, mls.rs): *)
(* invitations, removals, rotation, and what is written meanwhile.            *)
(*                                                                           *)
(* A state of the group is the path of commits that led to it; two commits    *)
(* that two members make of one state lead to two paths, and nothing chooses  *)
(* between them. Commits, Welcomes and texts go through the durable queue of  *)
(* their sender, in order for each recipient (Outbox), and the relay keeps    *)
(* them in the order it took them in (Relay). What cannot be read is looked   *)
(* at again on the next connection, and then given up (Delivery).             *)
EXTENDS Naturals, Sequences, FiniteSets, SequencesExt, TLC

CONSTANTS
    Order,     \* the devices, by the order of their keys
    Owner,     \* who creates the group
    Partner,   \* the other member of a conversation of two
    Body,      \* the texts
    Kinds,     \* what the group may be: "pair", "chat", "channel"
    Retained,  \* RETAINED_EPOCHS
    Limits     \* bounds of a model for each kind: commits, texts and failures

Device == ToSet(Order)
ASSUME GroupsAssumption ==
    /\ Owner \in Device /\ Partner \in Device \ {Owner}
    /\ \A i, j \in DOMAIN Order : Order[i] = Order[j] => i = j
    /\ Kinds \subseteq {"pair", "chat", "channel"}
    /\ Retained \in Nat /\ Limits \in [Kinds -> [commits : Nat, texts : Nat, events : Nat]]

Nobody == "nobody"
None == [path |-> << >>, from |-> 0, in |-> FALSE]

VARIABLES
    kind,    \* what the group is
    state,   \* Mls, saved: the path to the current epoch, and its length when the device joined
    rows,    \* devices with a conversation that names the group
    meta,    \* devices that have the description of the group (store.group)
    way,     \* way[d][e]: the durable queue of d for e
    mail,    \* what the relay keeps for a device, with the mark of a first miss
    kept,    \* how many missed envelopes the session has passed
    written, \* texts, by whom and in which state (history)
    read,    \* texts each device was shown, and as whose (history)
    given,   \* texts given up, and the state of the reader (history)
    states,  \* all states there have been (history)
    lost,    \* devices that a failure, or two misses, deprived of a commit (history)
    events   \* failures and GroupForget so far

history == <<written, read, given, states, lost>>
groupsVars == <<kind, state, rows, meta, way, mail, kept, history, events>>

-----------------------------------------------------------------------------
(* The tree of OpenMLS: a new member takes the first empty leaf.              *)

Founded == IF kind = "pair" THEN <<Owner, Partner>> ELSE <<Owner>>
Empty(tree) == {i \in DOMAIN tree : tree[i] = Nobody}
Placed(tree, e) ==
    IF Empty(tree) = {} THEN Append(tree, e)
    ELSE [tree EXCEPT ![CHOOSE i \in Empty(tree) : \A j \in Empty(tree) : i <= j] = e]
Applied(tree, c) ==
    CASE c.op = "add" -> Placed(tree, c.of)
      [] c.op = "remove" -> [i \in DOMAIN tree |-> IF tree[i] = c.of THEN Nobody ELSE tree[i]]
      [] c.op = "rekey" -> tree
Leaves(path) == FoldLeft(Applied, Founded, path)
Members(path) == ToSet(Leaves(path)) \ {Nobody}
LeafOf(d, path) == CHOOSE i \in DOMAIN Leaves(path) : Leaves(path)[i] = d

Bound == Limits[kind]
Within(d) == state[d].in
Others(d, path) == Members(path) \ {d}
Commit(d, op, e) == Append(state[d].path, [by |-> d, op |-> op, of |-> e])
MayCommit(d) == Within(d) /\ Len(state[d].path) < Bound.commits

-----------------------------------------------------------------------------
(* The sender.                                                                *)

\* fan_out and send_envelope.
Envelope(k, d, path, b) == [kind |-> k, by |-> d, path |-> path, body |-> b]
Queued(w, d, to, env) ==
    [w EXCEPT ![d] = [e \in Device |-> IF e \in to THEN Append(w[d][e], env) ELSE w[d][e]]]

Moved(d, path) == /\ state' = [state EXCEPT ![d].path = path]
                  /\ states' = states \union {path}

\* A channel is written to by its owner; who has no description does not know.
MayPost(d) == kind = "channel" /\ d \in meta => d = Owner

\* GroupSend, and a message of a conversation of two.
Send(d, b) ==
    /\ Within(d) /\ MayPost(d)
    /\ b \notin DOMAIN written /\ Cardinality(DOMAIN written) < Bound.texts
    /\ way' = Queued(way, d, Others(d, state[d].path), Envelope("text", d, state[d].path, b))
    /\ written' = written @@ (b :> [by |-> d, path |-> state[d].path])
    /\ UNCHANGED <<kind, state, rows, meta, mail, kept, read, given, states, lost, events>>

\* finish_invite: the commit is saved before it is queued for the members, the
\* Welcome and the description follow; a full queue or a kill stops it after `n`.
FinishInvite(d, e, n) ==
    LET old == state[d].path
        new == Commit(d, "add", e)
        commit == Queued(way, d, Others(d, old), Envelope("commit", d, new, Nobody))
        welcome == Queued(commit, d, {e}, Envelope("welcome", d, new, Nobody))
        about == Queued(welcome, d, Others(d, new), Envelope("about", d, new, Nobody))
    IN /\ kind # "pair" /\ MayCommit(d) /\ e \notin Members(old)
       /\ Moved(d, new)
       /\ way' = CASE n = 0 -> way [] n = 1 -> commit [] n = 2 -> welcome
                   [] n = 3 -> IF d \in meta /\ kind = "channel" THEN about ELSE welcome
       /\ lost' = lost \union (IF n = 0 THEN Others(d, new) ELSE IF n = 1 THEN {e} ELSE {})
       /\ IF n < 3 THEN events < Bound.events /\ events' = events + 1 ELSE events' = events
       /\ UNCHANGED <<kind, rows, meta, mail, kept, written, read, given>>

\* A user invites a device that has never been invited before.
Invite(d, e) ==
    /\ ~Within(e) /\ \A p \in states : e \notin Members(p)
    /\ \E n \in 0 .. 3 : FinishInvite(d, e, n)

\* GroupRemove: the removed device is not told.
GroupRemove(d, e, queued) ==
    LET new == Commit(d, "remove", e) IN
    /\ kind # "pair" /\ MayCommit(d) /\ e \in Others(d, state[d].path)
    /\ Moved(d, new)
    /\ IF queued
       THEN /\ way' = Queued(way, d, Others(d, new), Envelope("commit", d, new, Nobody))
            /\ UNCHANGED <<lost, events>>
       ELSE /\ events < Bound.events /\ events' = events + 1
            /\ lost' = lost \union Others(d, new)
            /\ UNCHANGED way
    /\ UNCHANGED <<kind, rows, meta, mail, kept, written, read, given>>

Least(S) == Order[CHOOSE i \in DOMAIN Order : Order[i] \in S /\ \A j \in 1 .. i - 1 : Order[j] \notin S]
Pending(d) == \E e \in Device : way[d][e] # << >>

\* QUEUE_DONE follows what was stored when the session began: what was missed in an
\* earlier session comes before it, what is new may come after.
Drained(d) == \A i \in kept[d] + 1 .. Len(mail[d]) : ~mail[d][i].missed

\* Mutant: whoever has the conversation rotates.
Rotate_Both(d) ==
    LET new == Commit(d, "rekey", d) IN
    /\ d \in rows /\ MayCommit(d) /\ Drained(d)
    /\ ~Pending(d)
    /\ Moved(d, new)
    /\ way' = Queued(way, d, Others(d, new), Envelope("commit", d, new, Nobody))
    /\ UNCHANGED <<kind, rows, meta, mail, kept, written, read, given, lost, events>>

\* rekey_stale; a full queue takes the commit back.
Rotate(d) ==
    LET new == Commit(d, "rekey", d) IN
    /\ d \in rows /\ MayCommit(d) /\ Drained(d)
    /\ d = Least(Members(state[d].path))
    /\ ~Pending(d)
    /\ Moved(d, new)
    /\ way' = Queued(way, d, Others(d, new), Envelope("commit", d, new, Nobody))
    /\ UNCHANGED <<kind, rows, meta, mail, kept, written, read, given, lost, events>>

\* GroupForget: what is queued is dropped; the keys stay.
Forget(d) ==
    /\ kind # "pair" /\ Within(d) /\ events < Bound.events /\ events' = events + 1
    /\ lost' = lost \union {e \in Device : way[d][e] # << >>}
    /\ way' = [way EXCEPT ![d] = [e \in Device |-> << >>]]
    /\ meta' = meta \ {d}
    /\ UNCHANGED <<kind, state, rows, mail, kept, written, read, given, states>>

-----------------------------------------------------------------------------
(* The relay and the reader.                                                  *)

\* The next envelope of d for e is accepted.
Accept(d, e) ==
    /\ way[d][e] # << >>
    /\ mail' = [mail EXCEPT ![e] = Append(@, [env |-> Head(way[d][e]), missed |-> FALSE])]
    /\ way' = [way EXCEPT ![d][e] = Tail(@)]
    /\ UNCHANGED <<kind, state, rows, meta, kept, history, events>>

\* The session of e is lost and comes back.
Reconnect(e) == /\ kept' = [kept EXCEPT ![e] = 0]
                /\ kept[e] > 0
                /\ UNCHANGED <<kind, state, rows, meta, way, mail, history, events>>

HasNext(e) == kept[e] < Len(mail[e])
Next1(e) == mail[e][kept[e] + 1]
Acked(e) == mail' = [mail EXCEPT ![e] = RemoveAt(@, kept[e] + 1)]

\* Mutant: no past epoch is retained.
Known_Current(e, path) == Within(e) /\ path = state[e].path

\* process_message: the current epoch, or one of those before that is retained.
Known(e, path) ==
    /\ Within(e) /\ IsPrefix(path, state[e].path)
    /\ Len(path) >= state[e].from
    /\ Len(state[e].path) - Len(path) <= Retained

\* apply: the sender is whoever has its leaf now.
Sender(e, env) ==
    LET leaf == LeafOf(env.by, env.path)
        tree == Leaves(state[e].path)
    IN tree[leaf]

Readable(e, env) ==
    CASE env.kind = "welcome" -> TRUE
      [] env.kind = "commit" -> Within(e) /\ state[e].path = Front(env.path)
      [] env.kind \in {"text", "about"} -> Known(e, env.path) /\ Sender(e, env) # Nobody

\* Joined: the conversation with the inviter names the group from now on.
Join(e) ==
    LET env == Next1(e).env IN
    /\ HasNext(e) /\ env.kind = "welcome"
    /\ state' = [state EXCEPT ![e] = [path |-> env.path, from |-> Len(env.path), in |-> TRUE]]
    /\ rows' = rows \union {e}
    /\ Acked(e)
    /\ UNCHANGED <<kind, meta, way, kept, history, events>>

Apply(e) ==
    LET env == Next1(e).env IN
    /\ HasNext(e) /\ env.kind = "commit" /\ Readable(e, env)
    /\ state' = [state EXCEPT ![e].path = env.path]
    /\ Acked(e)
    /\ UNCHANGED <<kind, rows, meta, way, kept, history, events>>

\* Control::Group describes the group; a text is shown, in a channel the owner's only.
Show(e) ==
    LET env == Next1(e).env
        by == Sender(e, env)
        refused == kind = "channel" /\ e \in meta /\ by # Owner
    IN /\ HasNext(e) /\ env.kind \in {"text", "about"} /\ Readable(e, env)
       /\ meta' = IF env.kind = "about" THEN meta \union {e} ELSE meta
       /\ read' = IF env.kind = "about" \/ refused THEN read
                  ELSE [read EXCEPT ![e] = @ \union {[body |-> env.body, by |-> by]}]
       /\ Acked(e)
       /\ UNCHANGED <<kind, state, rows, way, kept, written, given, states, lost, events>>

\* The first miss.
Forgive(e) ==
    /\ HasNext(e) /\ ~Readable(e, Next1(e).env) /\ ~Next1(e).missed
    /\ mail' = [mail EXCEPT ![e][kept[e] + 1].missed = TRUE]
    /\ kept' = [kept EXCEPT ![e] = @ + 1]
    /\ UNCHANGED <<kind, state, rows, meta, way, history, events>>

\* How far a reader is; one that has not joined stands before its invitation.
Reached(e, path) ==
    IF Within(e) THEN state[e].path
    ELSE SubSeq(path, 1, (CHOOSE i \in DOMAIN path : path[i].op = "add" /\ path[i].of = e) - 1)

\* The second miss.
GiveUp(e) ==
    LET env == Next1(e).env IN
    /\ HasNext(e) /\ ~Readable(e, env) /\ Next1(e).missed
    /\ Acked(e)
    /\ given' = IF env.kind # "text" THEN given
                ELSE given \union {[to |-> e, body |-> env.body, at |-> Reached(e, env.path)]}
    /\ lost' = IF env.kind = "commit" THEN lost \union {e} ELSE lost
    /\ UNCHANGED <<kind, state, rows, meta, way, kept, written, read, states, events>>
-----------------------------------------------------------------------------
GroupsInit ==
    /\ kind \in Kinds
    /\ state = [d \in Device |-> IF d \in ToSet(Founded) THEN [None EXCEPT !.in = TRUE] ELSE None]
    /\ rows = IF kind = "pair" THEN {Owner, Partner} ELSE {}
    /\ meta = IF kind = "pair" THEN {} ELSE {Owner}
    /\ way = [d \in Device |-> [e \in Device |-> << >>]]
    /\ mail = [d \in Device |-> << >>] /\ kept = [d \in Device |-> 0]
    /\ written = << >> /\ read = [d \in Device |-> {}] /\ given = {}
    /\ states = {<< >>} /\ lost = {} /\ events = 0

GroupsNext ==
    \E d \in Device :
        \/ \E b \in Body : Send(d, b)
        \/ \E e \in Device : Invite(d, e) \/ Accept(d, e) \/ \E q \in BOOLEAN : GroupRemove(d, e, q)
        \/ Rotate(d) \/ Forget(d)
        \/ Reconnect(d) \/ Join(d) \/ Apply(d) \/ Show(d) \/ Forgive(d) \/ GiveUp(d)

GroupsSpec == GroupsInit /\ [][GroupsNext]_groupsVars
-----------------------------------------------------------------------------
\* Types; every device has a leaf in the state it is in, and one only.
GroupsTypeOK ==
    /\ kind \in Kinds /\ rows \union meta \subseteq Device
    /\ \A d \in Device : LET s == state[d] IN
        /\ s.in => s.path \in states /\ s.from <= Len(s.path)
                   /\ Cardinality({i \in DOMAIN Leaves(s.path) : Leaves(s.path)[i] = d}) = 1
        /\ kept[d] <= Len(mail[d])
        /\ \A i \in 1 .. kept[d] : mail[d][i].missed
    /\ events <= Bound.events

\* Two commits were made of one state.
Forked == \E p, q \in states : Len(p) = Len(q) /\ p # q

Coming(e) == {mail[e][i].env : i \in DOMAIN mail[e]}
                 \union UNION {ToSet(way[d][e]) : d \in Device}

\* What is on its way takes e to the state p, or it has gone past it.
Reaches(e, p) ==
    LET from == IF Within(e) THEN {state[e].path}
                ELSE {m.path : m \in {x \in Coming(e) : x.kind = "welcome"}}
    IN \E s \in from :
        \/ IsPrefix(p, s)
        \/ /\ IsPrefix(s, p)
           /\ \A k \in Len(s) + 1 .. Len(p) :
                 \E m \in Coming(e) : m.kind = "commit" /\ m.path = SubSeq(p, 1, k)

\* Whoever is a member in the state of another comes to that state: its invitation
\* and every commit it lacks are on their way. Exceptions are two members who commit
\* at once (never in a conversation of two: one of them rotates), a failure between
\* saving a commit and queueing it, GroupForget, and a commit that overtook the one
\* before it twice.
NobodyLeftBehind ==
    /\ GroupsTypeOK
    /\ \A d \in Device : Within(d) =>
        \A e \in Others(d, state[d].path) :
            Reaches(e, state[d].path) \/ e \in lost \/ (Forked /\ kind # "pair")

Later(p, q) == Len(p) + 1 .. Len(q)
Removed(d, path) == \E i \in DOMAIN path : path[i].op = "remove" /\ path[i].of = d
\* What makes a text unreadable for good: more epochs than are retained, by others
\* than its writer, whose own commits come behind it; a commit of somebody else that
\* it overtook twice; the removal of its writer.
Hopeless(w, at) ==
    \/ /\ IsPrefix(w.path, at) /\ Len(at) - Len(w.path) > Retained
       /\ \A k \in Later(w.path, at) : at[k].by # w.by
    \/ IsPrefix(at, w.path) /\ \E k \in Later(at, w.path) : w.path[k].by # w.by
    \/ Removed(w.by, at)

\* A text comes to all who were members when it was written: it is on its way, or
\* was shown, or it was given up because it could not be read any more. And it is
\* shown as its writer's, unless he was removed since and another has his leaf.
ReadInTurn ==
    \A b \in DOMAIN written : LET w == written[b] IN
        /\ \A e \in Others(w.by, w.path) :
            \/ \E m \in Coming(e) : m.kind = "text" /\ m.body = b
            \/ \E r \in read[e] : r.body = b
            \/ \E g \in given : g.to = e /\ g.body = b /\ (Hopeless(w, g.at) \/ Forked)
            \/ e \in lost \/ (kind = "channel" /\ (w.by # Owner \/ Removed(Owner, state[e].path)))
        /\ \A e \in Device : \A r \in read[e] :
            r.body = b => r.by = w.by \/ Removed(w.by, state[e].path)

\* Both: who is a member comes to the state of the others, and reads what they wrote there
\* (mls.rs, on_envelope).
GroupsRead == NobodyLeftBehind /\ ReadInTurn
=============================================================================

------------------------------- MODULE Engine -------------------------------
(* The engine of valanium-core (Engine, run, session, connect_once,          *)
(* handshake and wait_before_retry of client.rs, engine_lock.rs): one thread *)
(* per open database, which takes the commands of the user in every phase.   *)
(*                                                                          *)
(* Two things must survive its phases. The sending ratchet is on disk and in *)
(* the memory of a session, and a message written without a connection is    *)
(* encrypted with the one on disk. And the invite of a registration is sent  *)
(* until the server has confirmed it. What is sent over the connection is    *)
(* Outbox, what the server does with AUTH in full is Gate.                  *)
EXTENDS Naturals

CONSTANTS
    Core,     \* processes that may open the database
    Nobody,
    MaxGen,   \* bounds of a model: messages encrypted, processes ended
    MaxEnds

ASSUME EngineAssumption == Nobody \notin Core \union Nat /\ {MaxGen, MaxEnds} \subseteq Nat

VARIABLES
    \* on disk
    owner,    \* whose transaction holds the engine-lock file
    mine,     \* the credentials are stored
    gen,      \* the generation the stored ratchet has reached
    archive,  \* the generation in an exported account, or Nobody
    \* in memory of each process
    core,
    \* the server, for this device
    known,    \* it has the user and the device
    spent,    \* the invite has been used
    late,     \* an AUTH on a connection the client gave up: is the invite in it?
    \* history
    used,     \* generations a message was encrypted with
    twice,    \* one was used again
    older,    \* an archive was imported over a newer ratchet
    refused,  \* the entries the sessions refused for want of one had begun with
    ends

diskVars == <<owner, mine, gen, archive>>
server == <<known, spent, late>>
record == <<used, twice, older, refused, ends>>
engineVars == <<diskVars, core, server, record>>

Off == [phase |-> "off", entry |-> "none", began |-> "none", mem |-> 0, line |-> "none"]
AtRest == [Off EXCEPT !.phase = "idle"]
Phase(e, S) == core[e].phase \in S
Apart == {"idle", "opening", "shaking", "waiting"}

Becomes(e, c) == core' = [core EXCEPT ![e] = c]

\* Whoever gives a connection up does not know whether its AUTH was handled.
GivenUp(e) == late' = IF core[e].line = "asked" THEN late \union {core[e].entry} ELSE late

-----------------------------------------------------------------------------
(* The database is opened by one engine; it may be killed at any time.        *)

Acquire(e) == owner = Nobody /\ owner' = e

OpenEngine(e) ==
    /\ Phase(e, {"off"}) /\ Acquire(e)
    /\ Becomes(e, AtRest)
    /\ UNCHANGED <<mine, gen, archive, server, record>>

\* The last sender of commands is dropped, which every phase notices, or the
\* process ends: the thread gives the lock back, in both cases.
EndEngine(e) ==
    /\ ~Phase(e, {"off"}) /\ ends < MaxEnds /\ ends' = ends + 1
    /\ owner' = Nobody /\ Becomes(e, Off) /\ GivenUp(e)
    /\ UNCHANGED <<mine, gen, archive, known, spent, used, twice, older, refused>>

-----------------------------------------------------------------------------
(* session: Register with an invite, or Connect.                             *)

\* New credentials are stored before anybody hears of them.
LoadOrCreate(entry) == (mine \/ entry = "invite") /\ mine' = TRUE

Begin(e, entry) ==
    /\ Phase(e, {"idle"}) /\ LoadOrCreate(entry)
    /\ Becomes(e, [phase |-> "opening", entry |-> entry, began |-> entry, mem |-> gen, line |-> "none"])
    /\ UNCHANGED <<owner, gen, archive, server, record>>

\* A HELLO from one of the entrances; AUTH goes out.
Hello(e) ==
    /\ Phase(e, {"opening"})
    /\ Becomes(e, [core[e] EXCEPT !.phase = "shaking", !.line = "asked"])
    /\ UNCHANGED <<diskVars, server, record>>

\* onAuth and admit: the entry is looked at for a user that is not known.
Admits(entry) == known \/ (entry = "invite" /\ ~spent)
Registers(entry) ==
    /\ known' = Admits(entry)
    /\ spent' = (spent \/ (~known /\ entry = "invite"))

OnAuthOf(e) ==
    /\ core[e].line = "asked"
    /\ Registers(core[e].entry)
    /\ Becomes(e, [core[e] EXCEPT !.line = IF Admits(core[e].entry) THEN "ok" ELSE "no"])
    /\ UNCHANGED <<diskVars, late, record>>

OnLateAuth(entry) ==
    /\ entry \in late /\ late' = late \ {entry}
    /\ Registers(entry)
    /\ UNCHANGED <<diskVars, core, record>>

\* Mutant: the session goes on with the ratchet it had when it began to connect.
Established_Stale(e) == Becomes(e, [core[e] EXCEPT !.phase = "up", !.line = "none"])

\* AUTH_OK: messages may have been written while it connected.
Established(e) == Becomes(e, [core[e] EXCEPT !.phase = "up", !.line = "none", !.mem = gen])

AuthOk(e) ==
    /\ core[e].line = "ok"
    /\ Established(e)
    /\ UNCHANGED <<diskVars, server, record>>

\* A refusal ends the session: for want of an entry, or for another reason
\* (limits, an old nonce, a blocked account).
AuthErr(e) ==
    /\ Becomes(e, AtRest)
    /\ \/ core[e].line = "no" /\ refused' = refused \union {core[e].began} /\ UNCHANGED late
       \/ core[e].line = "asked" /\ UNCHANGED <<late, refused>>
    /\ UNCHANGED <<diskVars, known, spent, used, twice, older, ends>>

\* Mutant: an attempt that failed takes the invite with it.
Waiting_Alone(e) == [core[e] EXCEPT !.phase = "waiting", !.line = "none", !.entry = "existing"]

\* Only a completed handshake makes the invite superfluous.
Waiting(e) == [core[e] EXCEPT !.phase = "waiting", !.line = "none",
                              !.entry = IF core[e].phase = "up" THEN "existing" ELSE @]

TriesAgain(e) ==
    /\ Becomes(e, Waiting(e)) /\ GivenUp(e)
    /\ UNCHANGED <<diskVars, known, spent, record>>

\* The attempt fails or is too slow, or the network changes meanwhile.
AttemptFails(e) == Phase(e, {"opening", "shaking"}) /\ TriesAgain(e)

\* The server closes, goes silent, or leaves a claim, a send or a probe
\* unanswered; the network changes.
ConnectionBreaks(e) == Phase(e, {"up"}) /\ TriesAgain(e)

\* wait_before_retry is over, and the saved ratchet is loaded again.
Retry(e) ==
    /\ Phase(e, {"waiting"})
    /\ Becomes(e, [core[e] EXCEPT !.phase = "opening", !.mem = gen])
    /\ UNCHANGED <<diskVars, server, record>>

\* Disconnect, or PrivacyMaximize, after which the app connects again by onion.
Closed(e) ==
    /\ Becomes(e, AtRest) /\ GivenUp(e)
    /\ UNCHANGED <<diskVars, known, spent, record>>

CloseAttempt(e) == Phase(e, {"opening", "shaking"}) /\ Closed(e)
CloseConnection(e) == Phase(e, {"up"}) /\ Closed(e)
ClosePause(e) == Phase(e, {"waiting"}) /\ Closed(e)

-----------------------------------------------------------------------------
(* A message is encrypted, and stored with the new ratchet in one transaction. *)

Encrypts(g) ==
    /\ g <= MaxGen
    /\ gen' = g /\ used' = used \union {g} /\ twice' = (twice \/ g \in used)
    /\ UNCHANGED <<owner, mine, archive, server, older, refused, ends>>

\* queue_offline, with a ratchet of its own. Without the Onion policy, or
\* without a conversation, the message is refused and nothing changes.
QueueOffline(e) ==
    /\ Phase(e, Apart) /\ mine
    /\ Encrypts(gen + 1)
    /\ UNCHANGED core

\* queue_private_message; a transaction that fails puts the ratchet in memory back.
QueueOnline(e) ==
    /\ Phase(e, {"up"})
    /\ Encrypts(core[e].mem + 1)
    /\ Becomes(e, [core[e] EXCEPT !.mem = @ + 1])

\* AccountExport and AccountImport need no network, so that every phase takes
\* them; here the archive is one of this account.
Export(e) ==
    /\ ~Phase(e, {"off"}) /\ mine
    /\ archive' = gen
    /\ UNCHANGED <<owner, mine, gen, core, server, record>>

Import(e) ==
    /\ ~Phase(e, {"off"}) /\ archive # Nobody
    /\ gen' = archive /\ older' = (older \/ archive < gen)
    /\ UNCHANGED <<owner, mine, archive, core, server, used, twice, refused, ends>>

-----------------------------------------------------------------------------
EngineInit ==
    /\ owner = Nobody /\ mine = FALSE /\ gen = 0 /\ archive = Nobody
    /\ core = [e \in Core |-> Off]
    /\ known = FALSE /\ spent = FALSE /\ late = {}
    /\ used = {} /\ twice = FALSE /\ older = FALSE /\ refused = {} /\ ends = 0

EngineNext ==
    \/ \E e \in Core :
        \/ OpenEngine(e) \/ EndEngine(e) \/ \E entry \in {"invite", "existing"} : Begin(e, entry)
        \/ Hello(e) \/ OnAuthOf(e) \/ AuthOk(e) \/ AuthErr(e)
        \/ AttemptFails(e) \/ ConnectionBreaks(e) \/ Retry(e)
        \/ CloseAttempt(e) \/ CloseConnection(e) \/ ClosePause(e)
        \/ QueueOffline(e) \/ QueueOnline(e) \/ Export(e) \/ Import(e)
    \/ \E entry \in late : OnLateAuth(entry)

EngineSpec == EngineInit /\ [][EngineNext]_engineVars
-----------------------------------------------------------------------------
\* No two messages are encrypted with one key of the sending ratchet, written
\* with or without a connection, while it opens, breaks or waits, and wherever
\* the process is killed. The import of an archive over the newer state of its
\* own account is the exception: nothing in the code forbids it.
RatchetOnce == twice => older

\* A session that was begun with a good invite is never refused for want of an
\* entry: not if its AUTH was handled and the answer lost, nor if the process
\* was killed before it.
NeverTurnedAway == "invite" \notin refused
=============================================================================

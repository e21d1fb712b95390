----------------------------- MODULE VpnClient -----------------------------
(* The VPN client (vpn_client/src-tauri): the commands of its window and of  *)
(* the tray, the tunnel, and what the tunnel changes on the machine.         *)
(*                                                                          *)
(* Commands are tasks of one process: each piece of state has a mutex of its *)
(* own that is never held across an await, so that commands interleave       *)
(* between their requests and between two locks. Bringing a tunnel up holds   *)
(* the mutex of the tunnel through a series of system calls, each of which   *)
(* may fail. Firewall rules, the IPv6 binding and the route to the node      *)
(* outlive the process; the adapter does not.                               *)
EXTENDS Naturals, Sequences, FiniteSets, Functions, Tables

CONSTANTS
    Place,       \* nodes of the catalogue
    Nowhere,
    Task,        \* commands in progress at once
    Offered,     \* the commands that are given
    Mishap,      \* what may go wrong
    \* bounds of a model
    MaxTasks, MaxKeys, MaxRelays

TunnelOps == {"connect", "toggle", "disconnect", "sign_out"}
ClientOps == TunnelOps \union {"enroll", "sign_in", "account", "list", "revoke", "settings", "quit"}
Mishaps == {"request", "answer", "token", "adapter", "call", "probe", "delete"}

ASSUME VpnClientAssumption ==
    /\ Nowhere \notin Place
    /\ Offered \subseteq ClientOps /\ Mishap \subseteq Mishaps
    /\ {MaxTasks, MaxKeys, MaxRelays} \subseteq Nat

VARIABLES
    settings,   \* kill switch, masking
    key,        \* device.key: the number of the key in the file and in use
    pairs,      \* wg_keys.json: under which device key the pair of a node was made (0: none)
    token,      \* ApiClient.token: the device key it was issued to (0: none)
    session,    \* session_active
    catalogue,  \* whether remote_servers_cache is filled
    status,     \* VpnManager.state: the node it calls connected
    shown,      \* what tray and window show
    wg,         \* WgConnection: node, relay and effects of the adapter; the flags
    relay,      \* mask_relay: the relay whose handle is kept (0: none)
    relays,     \* relays that run
    os,         \* rules, binding and routes on the machine
    tasks,      \* commands in progress
    given,      \* how many there were
    enrolled,   \* device keys the control plane accepts
    stranded,   \* effects left by a failed deletion or by the end of the process (history)
    half,       \* effects left by a group that failed in the middle (history)
    events      \* commands that mixed, a pair used by two devices, a lost tunnel (history)

machine == <<os, stranded, half>>
login == <<key, pairs, token, session, enrolled>>
masking == <<relay, relays>>
view == <<status, shown>>
clientVars == <<settings, key, pairs, token, session, catalogue, status, shown, wg, relay,
                relays, os, tasks, given, enrolled, stranded, half, events>>

-----------------------------------------------------------------------------
(* What a tunnel changes outside its adapter, in the order of                *)
(* configure_networking, and the flag that remembers each group.             *)

Effect(kind, p) == [kind |-> kind, place |-> p]
GroupOf == [udp |-> "dns", tcp |-> "dns", allow |-> "kill", block |-> "kill",
            ipv6 |-> "ipv6", route |-> "route"]

\* `known`: the groups for which the address of the physical adapter was found.
Plan(p, kill, via, known) ==
       (IF "dns" \in known THEN <<Effect("udp", Nowhere), Effect("tcp", Nowhere)>> ELSE << >>)
    \o (IF kill /\ "kill" \in known THEN <<Effect("allow", p), Effect("block", Nowhere)>> ELSE << >>)
    \o <<Effect("ipv6", Nowhere)>>
    \o (IF via = 0 THEN <<Effect("route", p)>> ELSE << >>)

\* A flag is set when the last effect of its group is in place.
Closes == {"tcp", "block", "ipv6", "route"}
Flagged(flags, e) == \/ e.kind # "route" /\ GroupOf[e.kind] \in {f.group : f \in flags}
                     \/ \E f \in flags : f.group = "route" /\ e = Effect("route", f.place)
Flag(e) == [group |-> GroupOf[e.kind], place |-> e.place]

Down == [up |-> Nowhere, via |-> 0, asked |-> {}, flags |-> {}]

\* cleanup_networking: rules are deleted by name, and nobody looks at the outcome.
Cleaned(flags, left) == os \ ({e \in os : Flagged(flags, e)} \ left)
Stuck(flags) == {{}} \union (IF "delete" \in Mishap
                             THEN {{e} : e \in {x \in os : Flagged(flags, x)}} ELSE {})

\* A lost tunnel that the status still shows.
Lost == IF status # Nowhere THEN events \union {"lost"} ELSE events

-----------------------------------------------------------------------------
(* Commands. *)

Go(c, at) == [tasks EXCEPT ![c].at = at]
Over(c) == Restrict(tasks, DOMAIN tasks \ {c})
New(op, p) == [op |-> op, at |-> "start", place |-> p, dev |-> key, pair |-> 0,
               again |-> FALSE, kill |-> FALSE, via |-> 0]

\* Two commands that change the tunnel, or one that signs out beside any other.
Mixes(op) == \E c \in DOMAIN tasks :
                \/ {op, tasks[c].op} \subseteq TunnelOps
                \/ "sign_out" \in {op, tasks[c].op}

Give(c, op, p, at) ==
    /\ op \in Offered /\ c \notin DOMAIN tasks /\ given < MaxTasks
    /\ given' = given + 1
    /\ tasks' = Put(tasks, c, [New(op, p) EXCEPT !.at = at])
    /\ events' = events \union (IF Mixes(op) THEN {"mixed"} ELSE {})
    /\ UNCHANGED <<settings, login, catalogue, view, wg, masking, machine>>

\* with_session: a request with the token there is, or after signing in.
Request == IF token = 0 THEN "auth" ELSE "call"

EnrollCode(c) == Give(c, "enroll", Nowhere, "code")
SignIn(c) == Give(c, "sign_in", Nowhere, "auth")
Ask(c, op) == op \in {"account", "list", "revoke", "sign_out"} /\ Give(c, op, Nowhere, Request)
Disconnect(c) == Give(c, "disconnect", Nowhere, "lower")

Connect(c, p) ==
    /\ session
    /\ Give(c, "connect", p, IF catalogue THEN "keys" ELSE Request)

\* The tray: the first node of the catalogue, or the end of the connection.
TrayToggle(c, p) ==
    /\ session
    /\ \/ status = Nowhere /\ catalogue /\ Give(c, "toggle", p, "keys")
       \/ status # Nowhere /\ Give(c, "toggle", Nowhere, "lower")

SetSettings(kill, mask) ==
    /\ "settings" \in Offered /\ given < MaxTasks
    /\ given' = given + 1
    /\ settings' = [kill |-> kill, mask |-> mask]
    /\ UNCHANGED <<login, catalogue, view, wg, masking, machine, tasks, events>>

-----------------------------------------------------------------------------
(* Requests. A failure ends a command, except that signing out goes on.      *)

Failed(c) == IF tasks[c].op = "sign_out" THEN Go(c, "lower") ELSE Over(c)
SignedIn(c) == CASE tasks[c].op \in {"enroll", "sign_in"} -> Go(c, "welcome")
                 [] OTHER -> Go(c, "call")
Quietly == UNCHANGED <<settings, pairs, key, view, wg, masking, machine, given, events>>

\* The code is spent at the control plane, which then issues a token.
Code(c) ==
    /\ tasks[c].at = "code"
    /\ \/ /\ enrolled' = enrolled \union {tasks[c].dev}
          /\ \/ token' = tasks[c].dev /\ tasks' = SignedIn(c)
             \/ "answer" \in Mishap /\ tasks' = Failed(c) /\ UNCHANGED token
       \/ "request" \in Mishap /\ tasks' = Failed(c) /\ UNCHANGED <<token, enrolled>>
    /\ UNCHANGED <<session, catalogue>> /\ Quietly

\* sign_in: a signature with the key the command began with.
Auth(c) ==
    /\ tasks[c].at = "auth"
    /\ \/ tasks[c].dev \in enrolled /\ token' = tasks[c].dev /\ tasks' = SignedIn(c)
       \/ /\ tasks[c].dev \notin enrolled \/ "request" \in Mishap
          /\ tasks' = Failed(c) /\ UNCHANGED token
    /\ UNCHANGED <<session, catalogue, enrolled>> /\ Quietly

\* The session begins, and the window is told.
Welcome(c) ==
    /\ tasks[c].at = "welcome"
    /\ session' = TRUE
    /\ shown' = [place |-> status, session |-> TRUE]
    /\ tasks' = Over(c)
    /\ UNCHANGED <<settings, key, pairs, token, enrolled, catalogue, status, wg, masking,
                   machine, given, events>>

Own(c) == tasks[c].op \in {"sign_out", "revoke"}

\* What a request does at the control plane: `revoke` is for this device; a key
\* pair is registered for the device of the token.
Served(c) ==
    /\ token \in enrolled
    /\ enrolled' = IF Own(c) THEN enrolled \ {tasks[c].dev} ELSE enrolled
    /\ events' = events \union (IF tasks[c].pair \notin {0, token} THEN {"linked"} ELSE {})

\* What its answer does to the catalogue and to the command.
Answered(c) ==
    /\ catalogue' = (catalogue \/ tasks[c].op = "list")
    /\ tasks' = CASE tasks[c].op = "sign_out" -> Go(c, "lower")
                  [] tasks[c].op \in {"connect", "toggle"} ->
                       [Go(c, IF tasks[c].pair = 0 THEN "keys" ELSE "relay") EXCEPT ![c].again = FALSE]
                  [] OTHER -> Over(c)

\* A revocation is signed with the key of the command, so that the token must
\* be its own. An old or a revoked token is answered by 401: one signature, one
\* more try.
Call(c) ==
    /\ tasks[c].at = "call"
    /\ \/ /\ Own(c) => token = tasks[c].dev
          /\ Served(c)
          /\ \/ Answered(c)
             \/ "answer" \in Mishap /\ tasks' = Failed(c) /\ UNCHANGED catalogue
       \/ /\ token # 0 /\ (token \notin enrolled \/ "token" \in Mishap)
          /\ tasks' = IF tasks[c].again THEN Failed(c) ELSE [Go(c, "auth") EXCEPT ![c].again = TRUE]
          /\ UNCHANGED <<enrolled, catalogue, events>>
       \/ /\ token = 0 \/ (Own(c) /\ token # tasks[c].dev) \/ "request" \in Mishap
          /\ tasks' = Failed(c)
          /\ UNCHANGED <<enrolled, catalogue, events>>
    /\ UNCHANGED <<settings, key, pairs, token, session, view, wg, masking, machine, given>>

-----------------------------------------------------------------------------
(* Up. *)

\* keypair_for_server, then the device key; POST /v1/peer comes next.
KeyPair(c) ==
    /\ tasks[c].at = "keys"
    /\ LET p == tasks[c].place IN
       /\ pairs' = [pairs EXCEPT ![p] = IF @ = 0 THEN key ELSE @]
       /\ tasks' = [Go(c, Request) EXCEPT ![c].pair = pairs'[p], ![c].dev = key]
    /\ UNCHANGED <<settings, key, token, session, enrolled, catalogue, view, wg, masking,
                   machine, given, events>>

\* start_mask_relay_if_enabled: the relay before is aborted, if another one
\* starts; if it cannot start, the tunnel goes unmasked.
StartRelay(c) ==
    /\ tasks[c].at = "relay"
    /\ \/ /\ ~settings.mask \/ "call" \in Mishap
          /\ tasks' = [Go(c, "raise") EXCEPT ![c].kill = settings.kill]
          /\ UNCHANGED masking
       \/ /\ settings.mask
          /\ \E r \in 1 .. MaxRelays :
               /\ r \notin relays \union {wg.via} \union {tasks[d].via : d \in DOMAIN tasks}
               /\ relay' = r /\ relays' = (relays \ {relay}) \union {r}
               /\ tasks' = [Go(c, "raise") EXCEPT ![c].kill = settings.kill, ![c].via = r]
    /\ UNCHANGED <<settings, login, catalogue, view, wg, machine, given, events>>

\* configure_networking up to its n-th call; IPv6 is best effort.
Made(plan, n, ipv6) == {plan[i] : i \in {j \in 1 .. n : plan[j].kind = "ipv6" => ipv6}}
Flags(made) == {Flag(e) : e \in {x \in made : x.kind \in Closes}}
\* The first effect of a group whose second one failed has no flag yet.
Orphan(plan, n) == IF n < Len(plan) /\ plan[n + 1].kind \in {"tcp", "block"} THEN {plan[n]} ELSE {}

Planned(c) == LET Known == IF "probe" \in Mishap THEN SUBSET {"dns", "kill"} ELSE {{"dns", "kill"}} IN
              {Plan(tasks[c].place, tasks[c].kill, tasks[c].via, known) : known \in Known}
BestEffort == IF "call" \in Mishap THEN BOOLEAN ELSE {TRUE}

\* Mutant: a failure goes without cleanup_networking.
Undone_Kept(kept, made, left) == kept \union made

\* What is left when configure_networking failed and was undone.
Undone(kept, made, left) == kept \union (made \ ({e \in made : Flagged(Flags(made), e)} \ left))

\* Mutant: the old tunnel is taken down after the new one is up.
Brought_Late(left, all) == (os \union all) \ ({e \in os \union all : Flagged(wg.flags, e)} \ left)

\* What there is when the new tunnel is up.
Brought(left, all) == Cleaned(wg.flags, left) \union all

\* WgConnection::connect, all of it under the mutex of the tunnel: the tunnel
\* before is taken down first, whatever comes of the new one.
Raise(c) ==
    /\ tasks[c].at = "raise"
    /\ \E left \in Stuck(wg.flags), plan \in Planned(c), ipv6 \in BestEffort :
         LET kept == Cleaned(wg.flags, left)  all == Made(plan, Len(plan), ipv6) IN
         \/ /\ os' = Brought(left, all)
            /\ wg' = [up |-> tasks[c].place, via |-> tasks[c].via,
                      asked |-> Range(plan), flags |-> Flags(all)]
            /\ stranded' = (stranded \union left) \intersect os'
            /\ tasks' = Go(c, "on")
            /\ UNCHANGED <<half, events>>
         \/ /\ "adapter" \in Mishap
            /\ os' = kept /\ wg' = Down /\ stranded' = (stranded \union left) \intersect os'
            /\ tasks' = Over(c) /\ events' = Lost
            /\ UNCHANGED half
         \/ \E n \in 0 .. Len(plan) :
            LET made == Made(plan, n, ipv6) IN
            /\ "call" \in Mishap
            /\ n < Len(plan) => plan[n + 1].kind # "ipv6"
            /\ os' = Undone(kept, made, {}) /\ wg' = Down
            /\ stranded' = (stranded \union left) \intersect os'
            /\ half' = (half \union Orphan(plan, n)) \intersect os'
            /\ tasks' = Over(c) /\ events' = Lost
    /\ UNCHANGED <<settings, login, catalogue, view, masking, given>>

SetOn(c) ==
    /\ tasks[c].at = "on"
    /\ status' = tasks[c].place
    /\ events' = events \ {"lost"}
    /\ tasks' = Go(c, "show")
    /\ UNCHANGED <<settings, login, catalogue, shown, wg, masking, machine, given>>

-----------------------------------------------------------------------------
(* Down: the tunnel, the relay, the status; each under its own mutex.        *)

Lower(c) ==
    /\ tasks[c].at = "lower"
    /\ \E left \in Stuck(wg.flags) :
         /\ os' = Cleaned(wg.flags, left) /\ stranded' = (stranded \union left) \intersect os'
    /\ wg' = Down
    /\ tasks' = Go(c, "abort")
    /\ UNCHANGED <<settings, login, catalogue, view, masking, given, half, events>>

Abort(c) ==
    /\ tasks[c].at = "abort"
    /\ relay' = 0 /\ relays' = relays \ {relay}
    /\ tasks' = Go(c, "off")
    /\ UNCHANGED <<settings, login, catalogue, view, wg, machine, given, events>>

SetOff(c) ==
    /\ tasks[c].at = "off"
    /\ status' = Nowhere
    /\ events' = events \ {"lost"}
    /\ tasks' = [Go(c, IF tasks[c].op = "sign_out" THEN "forget" ELSE "show") EXCEPT ![c].place = Nowhere]
    /\ UNCHANGED <<settings, login, catalogue, shown, wg, masking, machine, given>>

\* Mutant: the pairs of the nodes survive.
Forget_Pairs(c) ==
    /\ tasks[c].at = "forget" /\ key < MaxKeys
    /\ token' = 0 /\ key' = key + 1 /\ session' = FALSE
    /\ tasks' = Go(c, "show")
    /\ UNCHANGED <<settings, pairs, enrolled, catalogue, view, wg, masking, machine, given, events>>

\* The session, the device key and the pairs go; a new device key is made.
Forget(c) ==
    /\ tasks[c].at = "forget" /\ key < MaxKeys
    /\ token' = 0 /\ pairs' = [p \in Place |-> 0] /\ key' = key + 1 /\ session' = FALSE
    /\ tasks' = Go(c, "show")
    /\ UNCHANGED <<settings, enrolled, catalogue, view, wg, masking, machine, given, events>>

\* broadcast_state, with the state the command saw.
Show(c) ==
    /\ tasks[c].at = "show"
    /\ shown' = [place |-> tasks[c].place, session |-> session]
    /\ tasks' = Over(c)
    /\ UNCHANGED <<settings, login, catalogue, status, wg, masking, machine, given, events>>

\* Quit, or the end of the process in any other way, also while a tunnel is
\* brought up; and its next start.
Quit ==
    /\ "quit" \in Offered /\ given < MaxTasks
    /\ given' = given + 1
    /\ \/ UNCHANGED os
       \/ \E c \in DOMAIN tasks : \E plan \in Planned(c) : \E n \in 1 .. Len(plan) :
            tasks[c].at = "raise" /\ os' = Cleaned(wg.flags, {}) \union Made(plan, n, TRUE)
    /\ stranded' = stranded \union os'
    /\ tasks' = << >> /\ wg' = Down /\ relay' = 0 /\ relays' = {}
    /\ token' = 0 /\ session' = FALSE /\ catalogue' = FALSE
    /\ status' = Nowhere /\ shown' = [place |-> Nowhere, session |-> FALSE]
    /\ events' = events \ {"lost"}
    /\ UNCHANGED <<settings, key, pairs, enrolled, half>>

\* Another device of the account revokes this one.
RevokedElsewhere ==
    /\ "revoke" \in Offered
    /\ key \in enrolled
    /\ enrolled' = enrolled \ {key}
    /\ UNCHANGED <<settings, key, pairs, token, session, catalogue, view, wg, masking, machine,
                   tasks, given, events>>

-----------------------------------------------------------------------------
ClientInit ==
    /\ settings = [kill |-> TRUE, mask |-> FALSE]   \* no settings files yet
    /\ key = 1 /\ pairs = [p \in Place |-> 0] /\ token = 0 /\ session = FALSE /\ catalogue = FALSE
    /\ status = Nowhere /\ shown = [place |-> Nowhere, session |-> FALSE]
    /\ wg = Down /\ relay = 0 /\ relays = {}
    /\ os = {} /\ tasks = << >> /\ given = 0 /\ enrolled = {}
    /\ stranded = {} /\ half = {} /\ events = {}

ClientStep(c) ==
    \/ Code(c) \/ Auth(c) \/ Welcome(c) \/ Call(c)
    \/ KeyPair(c) \/ StartRelay(c) \/ Raise(c) \/ SetOn(c)
    \/ Lower(c) \/ Abort(c) \/ SetOff(c) \/ Forget(c) \/ Show(c)

ClientNext ==
    \/ \E c \in Task : \/ EnrollCode(c) \/ SignIn(c) \/ Disconnect(c)
                       \/ \E op \in Offered : Ask(c, op)
                       \/ \E p \in Place : Connect(c, p) \/ TrayToggle(c, p)
    \/ \E kill, mask \in BOOLEAN : SetSettings(kill, mask)
    \/ \E c \in DOMAIN tasks : ClientStep(c)
    \/ Quit \/ RevokedElsewhere

ClientSpec == ClientInit /\ [][ClientNext]_clientVars
-----------------------------------------------------------------------------
\* Every rule, binding or route on the machine is remembered by the flag that
\* will remove it, except what a failed deletion, the end of the process or a
\* group that failed in the middle left behind: no other path, of a command or
\* of an error, forgets one. At most one masking relay runs, the one that the
\* next command can stop.
NothingForgotten ==
    /\ \A e \in os \ (stranded \union half) : Flagged(wg.flags, e)
    /\ relays \subseteq {relay}

\* A tunnel that is up has all it was brought up with, however other commands
\* mix with its own: the leaks it should close stay closed while it is up.
UpIsProtected ==
    wg.up # Nowhere => {e \in wg.asked : e.kind # "ipv6"} \subseteq os

\* As long as no two commands changed the tunnel at once, and none ran beside
\* a sign-out: between commands the status is the tunnel's, also in the tray,
\* nobody is connected who is signed out, the token and the pairs belong to
\* the device key in use, and no pair was registered for two device keys (which
\* would let nodes link the two). A reconnection that failed is the exception:
\* the status keeps the tunnel it took down.
PartsAgree ==
    "mixed" \notin events =>
        /\ "linked" \notin events
        /\ tasks = << >> =>
            /\ "lost" \notin events => status = wg.up
            /\ shown = [place |-> status, session |-> session]
            /\ ~session => status = Nowhere /\ wg = Down
            /\ token \in {0, key}
            /\ \A p \in Place : pairs[p] \in {0, key}

\* Both: what was changed on the machine will be undone, and stays whole while a tunnel is up.
MachineKept == NothingForgotten /\ UpIsProtected
=============================================================================

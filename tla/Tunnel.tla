------------------------------- MODULE Tunnel -------------------------------
(* The VPN control plane and one WireGuard node: an account's devices, their *)
(* subscription rows, and the peers of the node (main_server/app, vpn_node). *)
(*                                                                          *)
(* Each handler is a coroutine over its own database session. A call here   *)
(* is such a handler between two awaits: `seen` holds the rows as its       *)
(* session loaded them, `mine` the objects it changed since; a commit       *)
(* writes the columns in which the two differ. Other calls run in between.  *)
(* A session that has flushed before it commits holds SQLite's write lock.  *)
EXTENDS Naturals, FiniteSets, Functions, Tables

CONSTANTS
    Device,       \* device keys, all enrolled with the code of one account
    Key,          \* WireGuard public keys
    KeyOwner,     \* the device that made the key
    Slot,         \* concurrent handlers and scheduler jobs
    None,
    Ops,          \* which handlers and jobs run
    MaxDevices,   \* plan.max_devices
    TrafficLimit, \* plan.traffic_limit_gb (0: unlimited)
    Faults,       \* what may happen to a call of the node
    \* bounds of a model
    MaxCalls, MaxPeer, MaxTraffic, MaxBonus

Operations == {"enroll", "register", "drop", "revoke", "toggle",
               "expired", "traffic", "page", "bonus", "sync", "deactivate"}
NodeFaults == {"unreachable", "answer", "sync", "restart"}

ASSUME TunnelAssumption ==
    /\ IsFiniteSet(Device) /\ KeyOwner \in [Key -> Device]
    /\ None \notin Slot
    /\ Ops \subseteq Operations /\ Faults \subseteq NodeFaults
    /\ {MaxDevices, TrafficLimit, MaxCalls, MaxPeer, MaxTraffic, MaxBonus} \subseteq Nat

VARIABLES
    account,  \* Account.is_active, and whether expires_at has passed
    device,   \* Device.revoked_at: none, active or revoked
    rows,     \* the subscriptions of the account on this node, by id
    lock,     \* the call whose session holds the write lock
    store,    \* peers.json: the key of each peer id
    live,     \* the keys of the interface
    raw,      \* the transfer counter of each key of the interface
    nextPeer, \* uuid4
    calls,    \* handlers and jobs in progress
    begun,    \* how many calls there were
    carried,  \* traffic that each device really caused (history)
    excused,  \* peers lost for a reason the code does not handle (history)
    clash     \* the kinds of trouble there have been (history)

database == <<account, device, rows, lock>>
node == <<store, live, raw, nextPeer>>
history == <<carried, excused, clash>>
vars == <<account, device, rows, lock, store, live, raw, nextPeer, calls, begun,
          carried, excused, clash>>

Columns == {"dev", "key", "peer", "active", "used", "last", "bonus"}
Peer == 1 .. MaxPeer
NewRow(d, k) == [dev |-> d, key |-> k, peer |-> 0, active |-> TRUE,
                 used |-> 0, last |-> 0, bonus |-> 0]

RowsOf(d) == {i \in DOMAIN rows : rows[i].dev = d}
Enrolled == {d \in Device : device[d] = "active"}
Granted(d) == device[d] = "active" /\ account.active /\ ~account.expired
Limited(row) == TrafficLimit > 0 /\ row.used > TrafficLimit + row.bonus
Carried(p) == \E c \in DOMAIN calls : calls[c].got = p
Named(p) == \E i \in DOMAIN rows : rows[i].peer = p

-----------------------------------------------------------------------------
(* Calls and their sessions. *)

Busy(ops) == \E c \in DOMAIN calls : calls[c].op \in ops
\* Two handlers at once, or the admin page beside the scheduler's poll.
Overlap(op) == (IF calls # << >> THEN {"overlap"} ELSE {})
               \union (IF op \in {"traffic", "page"} /\ Busy({"traffic", "page"}) THEN {"poll"} ELSE {})

\* A call starts with the rows it loaded, at its next await.
Begin(c, op, d, at, loaded, rest) ==
    /\ op \in Ops
    /\ c \notin DOMAIN calls
    /\ begun < MaxCalls
    /\ begun' = begun + 1
    /\ calls' = Put(calls, c, [op |-> op, dev |-> d, at |-> at, key |-> rest.key,
                               todo |-> rest.todo, row |-> rest.row, got |-> 0,
                               seen |-> loaded, mine |-> loaded])
    /\ clash' = clash \union Overlap(op)
    /\ UNCHANGED <<database, node, carried, excused>>

Plain(i) == [key |-> None, todo |-> {}, row |-> i]
Loaded(ids) == Restrict(rows, ids)
Only(i, row) == [j \in {i} |-> row]
Ended(c) == Restrict(calls, DOMAIN calls \ {c})
To(c, at) == [calls EXCEPT ![c].at = at]
Change(c, i, row, at) == [calls EXCEPT ![c].mine[i] = row, ![c].at = at]

\* Session.commit: only the columns that the session changed are written.
Merged(c, i) == [col \in Columns |-> IF calls[c].mine[i][col] # calls[c].seen[i][col]
                                     THEN calls[c].mine[i][col] ELSE rows[i][col]]
Written(c) == [i \in DOMAIN rows |-> IF i \in DOMAIN calls[c].mine THEN Merged(c, i) ELSE rows[i]]
MayWrite(c) == lock \in {None, c}
Committed(c, at) == [calls EXCEPT ![c].seen = calls[c].mine, ![c].at = at]
\* A peer that somebody else stored meanwhile and this commit overwrites.
Overwritten(c) == {rows[i].peer : i \in {j \in DOMAIN calls[c].mine :
                      /\ calls[c].mine[j].peer # calls[c].seen[j].peer
                      /\ rows[j].peer # calls[c].seen[j].peer}} \ {0}

Commit(c, at) ==
    /\ MayWrite(c)
    /\ rows' = Written(c)
    /\ excused' = excused \union Overwritten(c)
    /\ calls' = IF at = "end" THEN Ended(c) ELSE Committed(c, at)

Fail(c) == calls' = Ended(c) /\ UNCHANGED <<database, node, begun, history>>
Unchanged == UNCHANGED <<node, begun, carried, clash>>

\* "database is locked": the commit waits for another session's lock in vain.
Locked(c) ==
    /\ calls[c].at \in {"save", "store", "flush", "off", "gone", "count", "finish", "insert", "bind", "rebind"}
    /\ ~MayWrite(c)
    /\ calls' = Ended(c)
    /\ excused' = excused \union ({calls[c].got} \ {0})
    /\ UNCHANGED <<database, node, begun, carried, clash>>

-----------------------------------------------------------------------------
(* The node's agent: one mutation at a time (asyncio.Lock), answers that may *)
(* be lost. `peers.json` is written before the interface is synchronised.   *)

Keys(s) == {s[p] : p \in DOMAIN s}
\* wg syncconf keeps the counters of keys that stay.
Sync(s) == /\ live' = Keys(s)
           /\ raw' = [k \in Key |-> IF k \in live /\ k \in Keys(s) THEN raw[k] ELSE 0]
Trouble(p) == excused' = excused \union {p}

AddPeer(c, k, then, else) ==
    LET s == Put(store, nextPeer, k)
        Given(at, got) == calls' = IF at = "end" THEN Ended(c)
                                   ELSE [calls EXCEPT ![c].at = at, ![c].got = got] IN
    \/ /\ k \in Keys(store)              \* 409: already registered
       /\ Given(else, 0)
       /\ UNCHANGED <<node, excused, clash>>
    \/ /\ "unreachable" \in Faults
       /\ Given(else, 0)
       /\ clash' = clash \union {"node"}
       /\ UNCHANGED <<node, excused>>
    \/ /\ k \notin Keys(store) /\ nextPeer <= MaxPeer
       /\ store' = s
       /\ nextPeer' = nextPeer + 1
       /\ \/ /\ Sync(s) /\ Given(then, nextPeer)
             /\ UNCHANGED <<excused, clash>>
          \/ /\ "answer" \in Faults /\ Sync(s) /\ Given(else, 0)
             /\ Trouble(nextPeer) /\ clash' = clash \union {"node"}
          \/ /\ "sync" \in Faults /\ Given(else, 0)
             /\ Trouble(nextPeer) /\ clash' = clash \union {"node", "sync"}
             /\ UNCHANGED <<live, raw>>

\* No caller looks at the answer of remove_peer.
RemovePeer(p) ==
    LET s == Restrict(store, DOMAIN store \ {p}) IN
    \/ /\ p \notin DOMAIN store          \* 404: unknown peer id
       /\ UNCHANGED <<node, excused, clash>>
    \/ /\ p \in DOMAIN store /\ store' = s /\ Sync(s)
       /\ UNCHANGED <<nextPeer, excused, clash>>
    \/ /\ p \in DOMAIN store /\ "sync" \in Faults /\ store' = s
       /\ clash' = clash \union {"node", "sync"}
       /\ UNCHANGED <<live, raw, nextPeer, excused>>
    \/ /\ p \in DOMAIN store /\ "unreachable" \in Faults
       /\ Trouble(p) /\ clash' = clash \union {"node"}
       /\ UNCHANGED node

\* A reboot of the node, or of its agent: ensure_base_config.
NodeRestart ==
    /\ "restart" \in Faults
    /\ live' = Keys(store)
    /\ \/ raw' = [k \in Key |-> 0]
       \/ raw' = [k \in Key |-> IF k \in live /\ k \in Keys(store) THEN raw[k] ELSE 0]
    /\ UNCHANGED <<database, store, nextPeer, calls, begun, history>>

Traffic(k) ==
    /\ k \in live
    /\ carried[KeyOwner[k]] < MaxTraffic
    /\ raw' = [raw EXCEPT ![k] = @ + 1]
    /\ carried' = [carried EXCEPT ![KeyOwner[k]] = @ + 1]
    /\ UNCHANGED <<database, store, live, nextPeer, calls, begun, excused, clash>>

-----------------------------------------------------------------------------
(* POST /v1/devices. *)

Enroll(c, d) ==
    /\ account.active /\ ~account.expired
    /\ \/ /\ device[d] = "none" /\ Cardinality(Enrolled) < MaxDevices
          /\ Begin(c, "enroll", d, "bind", << >>, Plain(0))
       \/ /\ device[d] = "revoked"    \* enrolled again without being counted
          /\ Begin(c, "enroll", d, "rebind", << >>, Plain(0))

EnrollSave(c) ==
    /\ calls[c].at \in {"bind", "rebind"} /\ MayWrite(c)
    /\ LET d == calls[c].dev IN
       IF calls[c].at = "bind" /\ device[d] # "none"
       THEN UNCHANGED <<device, clash>>   \* inserted meanwhile: the key is unique
       ELSE /\ device' = [device EXCEPT ![d] = "active"]
            /\ clash' = clash \union (IF device[d] = "revoked" THEN {"again"} ELSE {})
    /\ calls' = Ended(c)
    /\ UNCHANGED <<account, rows, lock, node, begun, carried, excused>>

-----------------------------------------------------------------------------
(* POST and DELETE /v1/peer. *)

Register(c, d, k) ==
    /\ KeyOwner[k] = d /\ Granted(d)
    /\ Begin(c, "register", d, "load", << >>, [Plain(0) EXCEPT !.key = k])

Drop(c, d) ==
    /\ Granted(d)
    /\ Begin(c, "drop", d, "load", << >>, Plain(0))

\* The device's row on this node. A second row makes every further call fail
\* (MultipleResultsFound).
LoadRow(c) ==
    /\ calls[c].at = "load"
    /\ LET d == calls[c].dev  k == calls[c].key  own == RowsOf(d) IN
       \/ /\ \/ Cardinality(own) > 1
             \/ calls[c].op = "register" /\ \E i \in DOMAIN rows \ own : rows[i].key = k
             \/ calls[c].op = "drop" /\ own = {}
          /\ Fail(c)
       \/ /\ own = {} /\ calls[c].op = "register"
          /\ calls' = To(c, "insert")
          /\ UNCHANGED <<database, node, begun, history>>
       \/ \E i \in own :
            /\ own = {i}
            /\ ~\E j \in DOMAIN rows \ own : rows[j].key = k
            /\ LET at == IF calls[c].op = "drop"
                         THEN IF rows[i].peer # 0 THEN "remove" ELSE "gone"
                         ELSE IF rows[i].peer # 0 /\ rows[i].key # k THEN "replace" ELSE "set" IN
               calls' = [calls EXCEPT
                   ![c].seen = Loaded(own), ![c].row = i, ![c].at = at,
                   ![c].mine = IF at \in {"gone", "remove"}
                               THEN Only(i, [rows[i] EXCEPT !.active = FALSE]) ELSE Loaded(own)]
            /\ UNCHANGED <<database, node, begun, history>>

\* The first registration on the node; the key is unique in the table.
Insert(c) ==
    /\ calls[c].at = "insert" /\ MayWrite(c)
    /\ LET k == calls[c].key  i == Cardinality(DOMAIN rows) + 1  new == NewRow(calls[c].dev, k) IN
       IF \E j \in DOMAIN rows : rows[j].key = k THEN Fail(c)
       ELSE /\ rows' = Put(rows, i, new)
            /\ calls' = [calls EXCEPT ![c].row = i, ![c].at = "add",
                                      ![c].seen = Only(i, new), ![c].mine = Only(i, new)]
            /\ UNCHANGED <<account, device, lock, node, begun, history>>

\* Mutant: the replaced peer is forgotten and stays at the node.
Replace_Kept(c) ==
    /\ calls[c].at = "replace"
    /\ calls' = Change(c, calls[c].row, [calls[c].mine[calls[c].row] EXCEPT !.peer = 0], "set")
    /\ UNCHANGED <<database, node, begun, history>>

\* The peer of the key that is being replaced.
Replace(c) ==
    /\ calls[c].at = "replace"
    /\ LET i == calls[c].row IN
       /\ RemovePeer(calls[c].mine[i].peer)
       /\ calls' = Change(c, i, [calls[c].mine[i] EXCEPT !.peer = 0], "set")
    /\ UNCHANGED <<database, begun, carried>>

\* A subscription over its limit is refused before anything is committed: the
\* row still names the peer that was just replaced.
Set(c) ==
    /\ calls[c].at = "set"
    /\ LET i == calls[c].row  row == calls[c].mine[i] IN
       \/ /\ Limited(row)
          /\ calls' = Ended(c)
          /\ clash' = clash \union (IF row.peer # calls[c].seen[i].peer THEN {"refused"} ELSE {})
       \/ /\ ~Limited(row)
          /\ calls' = Change(c, i, [row EXCEPT !.key = calls[c].key, !.active = TRUE], "save")
          /\ UNCHANGED clash
    /\ UNCHANGED <<database, node, begun, carried, excused>>

\* db.commit, then db.refresh; the key is unique in the table.
Save(c) ==
    /\ calls[c].at = "save" /\ MayWrite(c)
    /\ LET i == calls[c].row  row == Merged(c, i) IN
       IF \E j \in DOMAIN rows \ {i} : rows[j].key = row.key THEN Fail(c)
       ELSE /\ rows' = [rows EXCEPT ![i] = row]
            /\ excused' = excused \union Overwritten(c)
                          \union (IF row.key # rows[i].key /\ row.peer # calls[c].seen[i].peer
                                  THEN {row.peer} \ {0} ELSE {})
            /\ calls' = IF calls[c].op = "bonus" /\ ~(row.active /\ ~calls[c].seen[i].active)
                        THEN Ended(c)
                        ELSE [calls EXCEPT ![c].seen[i] = row, ![c].mine[i] = row, ![c].at = "add"]
            /\ UNCHANGED <<account, device, lock>> /\ Unchanged

\* The first attempt; if it is refused and a peer is known, that one is
\* removed and the key is added again.
Add(c) ==
    /\ calls[c].at = "add"
    /\ LET row == calls[c].mine[calls[c].row] IN
       AddPeer(c, row.key, "store", IF calls[c].op = "register" /\ row.peer # 0
                                    THEN "retry" ELSE "end")
    /\ UNCHANGED <<database, begun, carried>>

Retry(c) ==
    /\ calls[c].at = "retry"
    /\ RemovePeer(calls[c].mine[calls[c].row].peer)
    /\ calls' = To(c, "again")
    /\ UNCHANGED <<database, begun, carried>>

AddAgain(c) ==
    /\ calls[c].at = "again"
    /\ AddPeer(c, calls[c].mine[calls[c].row].key, "store", "end")
    /\ UNCHANGED <<database, begun, carried>>

\* The peer is named in the row.
Store(c) ==
    /\ calls[c].at = "store"
    /\ LET i == calls[c].row IN
       /\ MayWrite(c)
       /\ rows' = [rows EXCEPT ![i].peer = calls[c].got]
       /\ excused' = excused
            \union (IF rows[i].peer # calls[c].seen[i].peer THEN {rows[i].peer} \ {0} ELSE {})
            \union (IF rows[i].key # calls[c].seen[i].key THEN {calls[c].got} ELSE {})
       /\ calls' = Ended(c)
    /\ UNCHANGED <<account, device, lock>> /\ Unchanged

-----------------------------------------------------------------------------
(* POST /v1/devices/revoke and PUT /api/accounts/{id}/toggle: the change is  *)
(* flushed by the next query, and the lock is held until the commit, with   *)
(* the calls of the node in between.                                        *)

Revoke(c, d, victim) ==
    /\ Granted(d) /\ device[victim] = "active"
    /\ Begin(c, "revoke", victim, "flush", << >>, Plain(0))

Toggle(c, d) ==
    /\ Begin(c, "toggle", d, IF account.active THEN "flush" ELSE "finish", << >>, Plain(0))

\* Mutant: the rows are deactivated, the peers left to the scheduler.
Flush_Later(c) ==
    /\ calls[c].at = "flush" /\ MayWrite(c)
    /\ lock' = c
    /\ LET ids == IF calls[c].op = "revoke" THEN RowsOf(calls[c].dev) ELSE DOMAIN rows IN
       calls' = [calls EXCEPT
           ![c].seen = Loaded(ids),
           ![c].mine = [i \in ids |-> [rows[i] EXCEPT !.active = FALSE]],
           ![c].at = "each"]
    /\ UNCHANGED <<account, device, rows, node, begun, history>>

Flush(c) ==
    /\ calls[c].at = "flush" /\ MayWrite(c)
    /\ lock' = c
    /\ LET ids == IF calls[c].op = "revoke" THEN RowsOf(calls[c].dev) ELSE DOMAIN rows IN
       calls' = [calls EXCEPT
           ![c].seen = Loaded(ids),
           ![c].mine = [i \in ids |-> [rows[i] EXCEPT !.active = FALSE]],
           ![c].todo = {i \in ids : rows[i].peer # 0},
           ![c].at = "each"]
    /\ UNCHANGED <<account, device, rows, node, begun, history>>

Each(c) ==
    /\ calls[c].at = "each"
    /\ \E i \in calls[c].todo :
         /\ RemovePeer(calls[c].mine[i].peer)
         /\ calls' = [calls EXCEPT ![c].mine[i].peer = 0, ![c].todo = @ \ {i}]
    /\ UNCHANGED <<database, begun, carried>>

Finish(c) ==
    /\ \/ calls[c].at = "each" /\ calls[c].todo = {}
       \/ calls[c].at = "finish"
    /\ Commit(c, "end")
    /\ lock' = None
    /\ CASE calls[c].op = "revoke" ->
              device' = [device EXCEPT ![calls[c].dev] = "revoked"] /\ UNCHANGED account
         [] calls[c].op = "toggle" ->
              account' = [account EXCEPT !.active = calls[c].at = "finish"] /\ UNCHANGED device
         [] calls[c].op = "page" -> UNCHANGED <<account, device>>
    /\ Unchanged

-----------------------------------------------------------------------------
(* The scheduler, and what the administrator does to a subscription.        *)

\* check_expired_subscriptions, check_traffic_limits, /admin/subscriptions.
Job(c, op) ==
    LET ids == {i \in DOMAIN rows : rows[i].active /\ (op = "expired" => account.expired)} IN
    /\ op \in {"expired", "traffic", "page"}
    /\ op = "page" \/ ~Busy({op})        \* one instance of a job at a time
    /\ ids # {}
    /\ Begin(c, op, None, "next", Loaded(ids),
             [Plain(0) EXCEPT !.todo = {i \in ids : op = "expired" \/ rows[i].peer # 0}])

Deactivate(c, i) ==
    /\ i \in DOMAIN rows
    /\ Begin(c, "deactivate", None, "next", Loaded({i}), [Plain(0) EXCEPT !.todo = {i}])

Next1(c) ==
    /\ calls[c].at = "next"
    /\ \/ /\ calls[c].todo = {} /\ calls' = IF calls[c].op = "page" THEN To(c, "finish") ELSE Ended(c)
       \/ \E i \in calls[c].todo :
            calls' = [calls EXCEPT ![c].row = i, ![c].todo = @ \ {i},
                                   ![c].at = IF calls[c].op \in {"traffic", "page"} THEN "poll" ELSE "mark"]
    /\ UNCHANGED <<database, node, begun, history>>

\* Mutant: the counter is added at every poll.
Delta_Total(now, last) == now

\* accumulate_traffic: what the counter grew by, or all of it after a reset.
Delta(now, last) == IF now >= last THEN now - last ELSE now
Poll(c) ==
    /\ calls[c].at = "poll"
    /\ LET i == calls[c].row  row == calls[c].mine[i]
           then == IF calls[c].op = "page" THEN "next" ELSE "count" IN
       \/ /\ row.peer \in DOMAIN store
          /\ LET now == raw[store[row.peer]] IN
             calls' = Change(c, i, [row EXCEPT !.used = @ + Delta(now, row.last), !.last = now], then)
       \/ /\ row.peer \notin DOMAIN store \/ "unreachable" \in Faults
          /\ calls' = To(c, "next")
    /\ UNCHANGED <<database, node, begun, history>>

Count(c) ==
    /\ calls[c].at = "count"
    /\ Commit(c, IF Limited(calls[c].mine[calls[c].row]) THEN "mark" ELSE "next")
    /\ UNCHANGED <<account, device, lock>> /\ Unchanged

\* deactivate_subscription.
Mark(c) ==
    /\ calls[c].at = "mark"
    /\ calls' = Change(c, calls[c].row, [calls[c].mine[calls[c].row] EXCEPT !.active = FALSE], "off")
    /\ UNCHANGED <<database, node, begun, history>>

Off(c) ==
    /\ calls[c].at = "off"
    /\ Commit(c, IF calls[c].mine[calls[c].row].peer # 0 THEN "remove" ELSE "next")
    /\ UNCHANGED <<account, device, lock>> /\ Unchanged

Remove(c) ==
    /\ calls[c].at = "remove"
    /\ LET i == calls[c].row IN
       /\ RemovePeer(calls[c].mine[i].peer)
       /\ calls' = Change(c, i, [calls[c].mine[i] EXCEPT !.peer = 0], "gone")
    /\ UNCHANGED <<database, begun, carried>>

\* The end of a deactivation and of DELETE /v1/peer.
Gone(c) ==
    /\ calls[c].at = "gone"
    /\ Commit(c, IF calls[c].op = "drop" THEN "end" ELSE "next")
    /\ UNCHANGED <<account, device, lock>> /\ Unchanged

\* grant_bonus_traffic: more gigabytes reactivate any inactive subscription
\* that has not expired, whatever it was deactivated for.
Bonus(c, i, less) ==
    /\ i \in DOMAIN rows
    /\ LET bonus == IF less THEN 0 ELSE rows[i].bonus + 1
           row == [rows[i] EXCEPT !.bonus = bonus]
           revive == ~row.active /\ ~account.expired
                     /\ (TrafficLimit = 0 \/ row.used < TrafficLimit + bonus) IN
       /\ bonus <= MaxBonus
       /\ "bonus" \in Ops /\ c \notin DOMAIN calls /\ begun < MaxCalls
       /\ begun' = begun + 1
       /\ calls' = Put(calls, c, [op |-> "bonus", dev |-> None, at |-> "save", key |-> None,
                                  todo |-> {}, row |-> i, got |-> 0, seen |-> Only(i, rows[i]),
                                  mine |-> Only(i, [row EXCEPT !.active = @ \/ revive])])
       /\ clash' = clash \union Overlap("bonus")
                   \union (IF revive /\ ~Granted(row.dev) THEN {"revived"} ELSE {})
    /\ UNCHANGED <<database, node, carried, excused>>

\* sync_subscription_to_node.
SyncSubscription(c, i) ==
    /\ i \in DOMAIN rows /\ rows[i].active
    /\ Begin(c, "sync", None, "add", Loaded({i}), Plain(i))

Expire == /\ ~account.expired /\ account' = [account EXCEPT !.expired = TRUE]
          /\ UNCHANGED <<device, rows, lock, node, calls, begun, history>>

\* The control plane is restarted: its calls are gone.
Restart ==
    /\ calls # << >>
    /\ excused' = excused \union ({calls[c].got : c \in DOMAIN calls} \ {0})
    /\ calls' = << >>
    /\ lock' = None
    /\ clash' = clash \union {"overlap"}
    /\ UNCHANGED <<account, device, rows, node, begun, carried>>

-----------------------------------------------------------------------------
Init ==
    /\ account = [active |-> TRUE, expired |-> FALSE]
    /\ device = [d \in Device |-> "none"]
    /\ rows = << >> /\ lock = None
    /\ store = << >> /\ live = {} /\ raw = [k \in Key |-> 0] /\ nextPeer = 1
    /\ calls = << >> /\ begun = 0
    /\ carried = [d \in Device |-> 0] /\ excused = {} /\ clash = {}

Step(c) ==
    \/ EnrollSave(c) \/ LoadRow(c) \/ Insert(c) \/ Replace(c) \/ Set(c) \/ Save(c)
    \/ Add(c) \/ Retry(c) \/ AddAgain(c) \/ Store(c) \/ Flush(c) \/ Each(c) \/ Finish(c)
    \/ Next1(c) \/ Poll(c) \/ Count(c) \/ Mark(c) \/ Off(c) \/ Remove(c) \/ Gone(c)
    \/ Locked(c)

Start(c) ==
    \/ \E d \in Device : Enroll(c, d) \/ Drop(c, d) \/ \E k \in Key : Register(c, d, k)
    \/ \E d, victim \in Device : Revoke(c, d, victim)
    \/ \E d \in {None} : Toggle(c, d)
    \/ \E op \in Ops : Job(c, op)
    \/ \E i \in DOMAIN rows : Deactivate(c, i) \/ SyncSubscription(c, i)
                              \/ \E less \in BOOLEAN : Bonus(c, i, less)

Next ==
    \/ \E c \in Slot : Start(c)
    \/ \E c \in DOMAIN calls : Step(c)
    \/ \E k \in Key : Traffic(k)
    \/ NodeRestart \/ Expire \/ Restart

Spec == Init /\ [][Next]_vars
-----------------------------------------------------------------------------
Row == [dev : Device, key : Key, peer : {0} \union Peer, active : BOOLEAN,
        used : Nat, last : Nat, bonus : 0 .. MaxBonus]

\* Types; a key is in one row at most, and at the node under one id at most.
TypeOK ==
    /\ account \in [active : BOOLEAN, expired : BOOLEAN]
    /\ device \in [Device -> {"none", "active", "revoked"}]
    /\ \A i \in DOMAIN rows : rows[i] \in Row
    /\ \A i, j \in DOMAIN rows : rows[i].key = rows[j].key => i = j
    /\ lock \in {None} \union DOMAIN calls
    /\ \A p \in DOMAIN store : p \in Peer /\ p < nextPeer /\ store[p] \in Key
    /\ \A p, q \in DOMAIN store : store[p] = store[q] => p = q
    /\ live \subseteq Key /\ raw \in [Key -> Nat] /\ nextPeer \in Nat
    /\ excused \subseteq Peer

\* A peer is left at the node with nobody who knows of it only if an answer
\* or a removal was lost, a commit met a lock, or two handlers wrote one row:
\* every path of every handler accounts for the peers it touches. And no key is at
\* the node twice (TypeOK).
NoUnexplainedOrphan ==
    /\ TypeOK
    /\ \A p \in DOMAIN store : Named(p) \/ Carried(p) \/ p \in excused

\* The plan's device limit, apart from a device that is enrolled again after
\* its revocation and from two enrolments that count at the same time.
LimitKept == clash \intersect {"again", "overlap"} = {} => Cardinality(Enrolled) <= MaxDevices

\* ARCHITECTURE.md 6: when nothing went wrong and no two handlers overlapped,
\* whoever has a peer has an enrolled device, an active subscription and an
\* active account, and whoever is told of a peer has it; and the devices are no
\* more than the plan allows.
AccessIsGranted ==
    /\ LimitKept
    /\ clash = {} /\ calls = << >> =>
        /\ live = Keys(store)
        /\ \A p \in DOMAIN store : \E i \in DOMAIN rows :
              /\ rows[i].peer = p /\ rows[i].key = store[p] /\ rows[i].active
              /\ device[rows[i].dev] = "active" /\ account.active
        /\ \A i \in DOMAIN rows : rows[i].active /\ rows[i].peer # 0 => rows[i].peer \in DOMAIN store

\* The doc of accumulate_traffic: resets of the counter, new keys and new
\* peers never make a subscription pay for traffic twice (unless the admin
\* page polled beside the scheduler, or the interface was out of step).
Charged(d) == UNION {{i} \X (1 .. rows[i].used) : i \in RowsOf(d)}
NeverOvercharged ==
    clash \intersect {"poll", "sync"} = {} =>
        \A d \in Device : Cardinality(Charged(d)) <= carried[d]
=============================================================================

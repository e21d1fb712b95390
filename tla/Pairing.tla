------------------------------- MODULE Pairing -------------------------------
(* Linking a new device to an account over the local network                  *)
(* (valanium-core/src/pairing.rs, store/link_history.rs, and the commands of  *)
(* client.rs). On each device three actors take turns: the user's thread,     *)
(* which submits commands and may abort a task at once; the core, which       *)
(* handles the commands one by one and alone writes to the store; and the     *)
(* task of the session, which talks to the other device.                      *)
(*                                                                            *)
(* The handshake, the frames and their encryption are taken as given: frames  *)
(* arrive in order, or not at all. Whatever a task waits for may fail to come *)
(* in time, so a task may fail wherever it is.                                *)
EXTENDS Naturals, Sequences, FiniteSets, Tables

CONSTANTS
    Device,
    Holder,      \* the devices that have an account from the start
    MaxSession, MaxCancel, MaxLog  \* bounds of a model: sessions, cancellations, messages

ASSUME PairingAssumption ==
    /\ Holder \subseteq Device /\ "none" \notin Holder
    /\ {MaxSession, MaxCancel, MaxLog} \subseteq Nat /\ MaxLog # 0

Sessions == 1 .. MaxSession
None == [id |-> 0]

VARIABLES
    account,  \* the store of each device: whose identity it holds (a Holder), if any
    log,      \* its messages (only their number)
    stage,    \* its link_stage: the records received in each session
    active,   \* Manager.active
    epoch,    \* Cancellation.epoch
    queue,    \* the commands that the core has not handled
    task,     \* the task of Active; None when it has finished
    inbox,    \* frames on the way to the task
    shown,    \* the QR codes: who shows it, and whether it is an offer
    via,      \* the session that installed an account (history)
    agreed,   \* who confirmed which session (history)
    snaps,    \* how many messages the source of a session said there are (history)
    revoked,  \* the sessions that the user cancelled and did not begin again (history)
    reported  \* the sessions that a source reported as complete (history)

stores == <<account, log, stage>>
memory == <<active, epoch, queue, task, inbox>>
history == <<via, agreed, snaps, revoked, reported>>
vars == <<stores, memory, shown, history>>

TaskPhase == {"listen", "connect", "verify", "wait", "send", "ack",
          "receive", "staging", "installing", "installed", "aborted"}

On(d, id) == task[d].id = id
Live(d) == task[d] # None /\ task[d].phase # "aborted"
At(d, phase) == task[d] # None /\ task[d].phase = phase
Peers(d) == {p \in Device \ {d} : Live(p) /\ On(p, task[d].id) /\ task[p].phase \notin {"listen", "connect"}}
\* A frame reaches whoever is still at the other end.
Told(d, frames) == [p \in Device |-> IF p \in Peers(d) THEN inbox[p] \o frames ELSE inbox[p]]
InPhase(d, phase) == [task EXCEPT ![d].phase = phase]
Has(d) == account[d] # "none"

-----------------------------------------------------------------------------
(* A task that ends, in whatever way, leaves a PairingCleanup behind.        *)

Cleanup(d) ==
    IF task[d] # None /\ ~task[d].sending THEN <<[op |-> "cleanup", id |-> task[d].id]>> ELSE << >>
Ends(d) == /\ task' = [task EXCEPT ![d] = None]
           /\ queue' = [queue EXCEPT ![d] = @ \o Cleanup(d)]
           /\ inbox' = [inbox EXCEPT ![d] = << >>]

Fail(d) ==
    /\ Live(d) /\ Ends(d)
    /\ UNCHANGED <<stores, active, epoch, shown, history>>

\* The runtime drops a task that was aborted.
Dropped(d) ==
    /\ At(d, "aborted") /\ Ends(d)
    /\ UNCHANGED <<stores, active, epoch, shown, history>>

-----------------------------------------------------------------------------
(* Commands of the user. They wait behind what the core has to do; only      *)
(* PairingCancel acts before it is handled.                                  *)

Begins(d, id, phase) ==
    /\ active' = [active EXCEPT ![d] = [id |-> id, epoch |-> epoch[d], sending |-> Has(d), control |-> TRUE]]
    /\ task' = [task EXCEPT ![d] = [id |-> id, phase |-> phase, sending |-> Has(d), ok |-> FALSE, n |-> 0,
                                   records |-> 0, identity |-> "none"]]
    /\ queue' = [queue EXCEPT ![d] = Cleanup(d)]
    /\ inbox' = [inbox EXCEPT ![d] = << >>]
    /\ stage' = IF Has(d) THEN stage ELSE [stage EXCEPT ![d] = [s \in Sessions |-> << >>]]
    /\ revoked' = revoked \ {<<d, id>>}
    /\ UNCHANGED <<account, log, epoch, via, agreed, snaps, reported>>

\* PairingListen without an account, PairingOffer with one.
Show(d) ==
    /\ queue[d] = << >>
    /\ \E id \in Sessions \ DOMAIN shown :
          /\ DOMAIN shown = 1 .. id - 1
          /\ shown' = Put(shown, id, [by |-> d, offer |-> Has(d)])
          /\ Begins(d, id, "listen")

\* PairingConnect: an account is offered to who has none.
Scan(d, id) ==
    /\ queue[d] = << >> /\ id \in DOMAIN shown /\ shown[id].by # d
    /\ shown[id].offer = ~Has(d)
    /\ Begins(d, id, "connect") /\ UNCHANGED shown

\* PairingConnect with another QR is refused, but has cleared the stage before.
Refused(d) ==
    /\ queue[d] = << >> /\ ~Has(d)
    /\ stage' = [stage EXCEPT ![d] = [s \in Sessions |-> << >>]]
    /\ UNCHANGED <<account, log, memory, shown, history>>

Confirm(d) ==
    /\ queue[d] = << >>
    /\ active[d] # None /\ active[d].control /\ task[d] # None /\ On(d, active[d].id)
    /\ active' = [active EXCEPT ![d].control = FALSE]
    /\ task' = [task EXCEPT ![d].ok = TRUE]
    /\ agreed' = agreed \union {<<d, active[d].id>>}
    /\ UNCHANGED <<stores, epoch, queue, inbox, shown, via, snaps, revoked, reported>>

\* Engine::submit: the epoch and the abort first, then the command.
Cancel(d) ==
    /\ epoch[d] < MaxCancel
    /\ epoch' = [epoch EXCEPT ![d] = @ + 1]
    /\ task' = IF Live(d) THEN InPhase(d, "aborted") ELSE task
    /\ queue' = [queue EXCEPT ![d] = Append(@, [op |-> "cancel"])]
    /\ revoked' = revoked \union (IF active[d] = None THEN {} ELSE {<<d, active[d].id>>})
    /\ UNCHANGED <<stores, active, inbox, shown, via, agreed, snaps, reported>>

-----------------------------------------------------------------------------
(* The core.                                                                 *)

\* Mutant: whether the session was cancelled is not asked.
ValidReceiver_Cancelled(d, id) ==
    /\ active[d] # None /\ active[d].id = id /\ ~active[d].sending /\ ~active[d].control
    /\ task[d] # None /\ On(d, id)

ValidReceiver(d, id) ==
    /\ active[d] # None /\ active[d].id = id /\ ~active[d].sending /\ ~active[d].control
    /\ task[d] # None /\ On(d, id)
    /\ active[d].epoch = epoch[d]

\* Mutant: what was received is taken for the whole.
WholeHistory_Prefix(recs) == recs # << >>

\* install_link_history: the first record says how many follow.
WholeHistory(recs) == recs # << >> /\ Len(recs) = 1 + Head(recs).messages

Answer(d, id, phase, ok) ==
    IF ok THEN /\ task' = [task EXCEPT ![d].phase = phase, ![d].n = @ + 1]
               /\ queue' = [queue EXCEPT ![d] = Tail(@)] /\ UNCHANGED inbox
    ELSE IF Live(d) /\ On(d, id)
         THEN /\ task' = [task EXCEPT ![d] = None]
              /\ queue' = [queue EXCEPT ![d] = Tail(@) \o Cleanup(d)]
              /\ inbox' = [inbox EXCEPT ![d] = << >>]
         ELSE queue' = [queue EXCEPT ![d] = Tail(@)] /\ UNCHANGED <<task, inbox>>

\* PairingStage: the records must come in order.
StageRecord(d) ==
    /\ queue[d] # << >> /\ Head(queue[d]).op = "stage"
    /\ LET c == Head(queue[d])
           ok == ValidReceiver(d, c.id) /\ Len(stage[d][c.id]) = c.seq
       IN /\ stage' = IF ok THEN [stage EXCEPT ![d][c.id] = Append(@, c.record)] ELSE stage
          /\ Answer(d, c.id, "receive", ok)
    /\ UNCHANGED <<account, log, active, epoch, shown, history>>

\* PairingInstall: one transaction, whose last check is for a cancellation.
Install(d) ==
    /\ queue[d] # << >> /\ Head(queue[d]).op = "install"
    /\ LET c == Head(queue[d])
           ok == ValidReceiver(d, c.id) /\ ~Has(d) /\ WholeHistory(stage[d][c.id])
       IN /\ IF ok THEN /\ account' = [account EXCEPT ![d] = c.identity]
                        /\ log' = [log EXCEPT ![d] = Len(stage[d][c.id]) - 1]
                        /\ stage' = [stage EXCEPT ![d][c.id] = << >>]
                        /\ via' = [via EXCEPT ![d] = c.id]
             ELSE UNCHANGED <<stores, via>>
          /\ Answer(d, c.id, "installed", ok)
    /\ UNCHANGED <<active, epoch, shown, agreed, snaps, revoked, reported>>

\* PairingCleanup.
CleanStage(d) ==
    /\ queue[d] # << >> /\ Head(queue[d]).op = "cleanup"
    /\ stage' = [stage EXCEPT ![d][Head(queue[d]).id] = << >>]
    /\ queue' = [queue EXCEPT ![d] = Tail(@)]
    /\ UNCHANGED <<account, log, active, epoch, task, inbox, shown, history>>

\* PairingCancel, handled.
Cancelled(d) ==
    /\ queue[d] # << >> /\ Head(queue[d]).op = "cancel"
    /\ stage' = IF active[d] = None THEN stage ELSE [stage EXCEPT ![d][active[d].id] = << >>]
    /\ active' = [active EXCEPT ![d] = None]
    /\ task' = IF Live(d) THEN InPhase(d, "aborted") ELSE task
    /\ queue' = [queue EXCEPT ![d] = Tail(@)]
    /\ UNCHANGED <<account, log, epoch, inbox, shown, history>>

-----------------------------------------------------------------------------
(* The tasks.                                                                *)

\* accept_peer and connect_peer; the listener is closed once it met a peer, and
\* may be left alone by one that failed.
Meet(d, p) ==
    /\ At(d, "listen") /\ At(p, "connect") /\ On(p, task[d].id)
    /\ \/ task' = [task EXCEPT ![d].phase = "verify", ![p].phase = "verify"] /\ UNCHANGED <<queue, inbox>>
       \/ /\ task' = [task EXCEPT ![d].phase = "verify", ![p] = None]
          /\ queue' = [queue EXCEPT ![p] = @ \o Cleanup(p)]
          /\ inbox' = [inbox EXCEPT ![p] = << >>]
    /\ UNCHANGED <<stores, active, epoch, shown, history>>

Confirmed(d) ==
    /\ At(d, "verify") /\ task[d].ok
    /\ inbox' = Told(d, <<[op |-> "confirmed"]>>)
    /\ task' = InPhase(d, "wait")
    /\ UNCHANGED <<stores, active, epoch, queue, shown, history>>

\* receive_confirmation, and the first payload of who sends.
BothConfirmed(d) ==
    /\ At(d, "wait") /\ inbox[d] # << >> /\ Head(inbox[d]).op = "confirmed"
    /\ inbox' = [Told(d, IF task[d].sending THEN <<[op |-> "link", identity |-> account[d]]>> ELSE << >>)
                   EXCEPT ![d] = Tail(@)]
    /\ task' = InPhase(d, IF task[d].sending THEN "send" ELSE "receive")
    /\ UNCHANGED <<stores, active, epoch, queue, shown, history>>

\* stream_link_snapshot reads in one transaction, in a thread of its own, once
\* its user has confirmed: a header and the messages.
Snapshot(d) ==
    /\ Live(d) /\ task[d].sending /\ task[d].ok /\ task[d].records = 0
    /\ task' = [task EXCEPT ![d].records = 1 + log[d]]
    /\ UNCHANGED <<stores, active, epoch, queue, inbox, shown, history>>

\* send_account: the header says how many messages follow. The producer may stop short.
SendRecord(d) ==
    /\ At(d, "send") /\ task[d].records # 0
    /\ LET messages == IF task[d].n = 0 THEN task[d].records - 1 ELSE 0
           id == task[d].id
       IN \/ /\ task[d].n < task[d].records
             /\ inbox' = Told(d, <<[op |-> "record", messages |-> messages]>>)
             /\ task' = [task EXCEPT ![d].n = @ + 1]
             /\ snaps' = IF task[d].n = 0 THEN Put(snaps, id, messages) ELSE snaps
          \/ /\ inbox' = Told(d, <<[op |-> "end"]>>) /\ task' = InPhase(d, "ack")
             /\ UNCHANGED snaps
    /\ UNCHANGED <<stores, active, epoch, queue, shown, via, agreed, revoked, reported>>

\* receive_account: each record is staged by the core before the next is read.
Receive(d) ==
    /\ At(d, "receive") /\ inbox[d] # << >>
    /\ LET f == Head(inbox[d])
           id == task[d].id
       IN \/ /\ f.op = "link"
             /\ task' = [task EXCEPT ![d].identity = f.identity]
             /\ UNCHANGED queue
          \/ /\ f.op = "record" /\ task[d].identity # "none"
             /\ task' = InPhase(d, "staging")
             /\ queue' = [queue EXCEPT ![d] = Append(@,
                            [op |-> "stage", id |-> id, seq |-> task[d].n, record |-> [messages |-> f.messages]])]
          \/ /\ f.op = "end"
             /\ task' = InPhase(d, "installing")
             /\ queue' = [queue EXCEPT ![d] = Append(@,
                            [op |-> "install", id |-> id, identity |-> task[d].identity])]
    /\ inbox' = [inbox EXCEPT ![d] = Tail(@)]
    /\ UNCHANGED <<stores, active, epoch, shown, history>>

\* The last frame goes out, or not, and the task is done.
SendInstalled(d) ==
    /\ At(d, "installed")
    /\ inbox' \in {[Told(d, <<[op |-> "installed"]>>) EXCEPT ![d] = << >>], [inbox EXCEPT ![d] = << >>]}
    /\ task' = [task EXCEPT ![d] = None]
    /\ queue' = [queue EXCEPT ![d] = @ \o Cleanup(d)]
    /\ UNCHANGED <<stores, active, epoch, shown, history>>

\* Mutant: the end of the stream is taken for its success.
Complete_Sent(d) == At(d, "ack")
Complete(d) == At(d, "ack") /\ inbox[d] # << >> /\ Head(inbox[d]).op = "installed"

SourceDone(d) ==
    /\ Complete(d) /\ Ends(d)
    /\ reported' = reported \union {task[d].id}
    /\ UNCHANGED <<stores, active, epoch, shown, via, agreed, snaps, revoked>>

-----------------------------------------------------------------------------
LateMail(d) ==
    /\ d \in Holder /\ log[d] < MaxLog
    /\ log' = [log EXCEPT ![d] = @ + 1]
    /\ UNCHANGED <<account, stage, memory, shown, history>>

\* Engine::start clears the stage.
Restart(d) ==
    /\ active' = [active EXCEPT ![d] = None] /\ task' = [task EXCEPT ![d] = None]
    /\ queue' = [queue EXCEPT ![d] = << >>] /\ inbox' = [inbox EXCEPT ![d] = << >>]
    /\ stage' = [stage EXCEPT ![d] = [id \in Sessions |-> << >>]]
    /\ UNCHANGED <<account, log, epoch, shown, history>>

Init ==
    /\ account = [d \in Device |-> IF d \in Holder THEN d ELSE "none"]
    /\ log = [d \in Device |-> IF d \in Holder THEN 1 ELSE 0]
    /\ stage = [d \in Device |-> [id \in Sessions |-> << >>]]
    /\ active = [d \in Device |-> None] /\ epoch = [d \in Device |-> 0]
    /\ queue = [d \in Device |-> << >>] /\ task = [d \in Device |-> None]
    /\ inbox = [d \in Device |-> << >>]
    /\ shown = << >> /\ snaps = << >>
    /\ via = [d \in Device |-> 0] /\ agreed = {} /\ revoked = {} /\ reported = {}

Next ==
    \E d \in Device :
      \/ Show(d) \/ Refused(d) \/ Confirm(d) \/ Cancel(d) \/ LateMail(d) \/ Restart(d)
      \/ \E id \in Sessions : Scan(d, id)
      \/ StageRecord(d) \/ Install(d) \/ CleanStage(d) \/ Cancelled(d)
      \/ \E p \in Device : Meet(d, p)
      \/ Confirmed(d) \/ BothConfirmed(d) \/ Snapshot(d) \/ SendRecord(d) \/ Receive(d)
      \/ SendInstalled(d) \/ SourceDone(d) \/ Fail(d) \/ Dropped(d)

Spec == Init /\ [][Next]_vars
-----------------------------------------------------------------------------
\* Types, and what belongs together: a task to the session that is active, unless
\* that was cancelled.
TypeOK ==
    /\ account \in [Device -> Holder \union {"none"}] /\ log \in [Device -> 0 .. MaxLog]
    /\ via \in [Device -> 0 .. MaxSession] /\ epoch \in [Device -> 0 .. MaxCancel]
    /\ DOMAIN shown \subseteq Sessions /\ DOMAIN snaps \subseteq DOMAIN shown
    /\ \A d \in Device :
          /\ task[d] # None => task[d].phase \in TaskPhase
          /\ Live(d) => active[d] # None /\ On(d, active[d].id) /\ active[d].epoch = epoch[d]
          /\ \A id \in Sessions : Len(stage[d][id]) <= 1 + MaxLog

\* An account is installed whole or not at all: both users agreed to the session
\* it came by, it is the other one's, every message of his snapshot is there, and
\* one session makes one new device. A source that reports success is right.
InstalledIsWhole ==
    /\ \A d \in Device : via[d] # 0 =>
          /\ <<d, via[d]>> \in agreed
          /\ \E s \in Device \ {d} : account[s] = account[d] /\ <<s, via[d]>> \in agreed
          /\ via[d] \in DOMAIN snaps /\ log[d] = snaps[via[d]]
          /\ \A e \in Device \ {d} : via[e] # via[d]
    /\ reported \subseteq {via[d] : d \in Device}

\* What the user cancelled is not installed afterwards, even if all of it had been
\* received and the core comes to it only now.
CancelHolds == [][\A d \in Device : via'[d] # via[d] => <<d, via'[d]>> \notin revoked]_vars

\* Records that were staged belong to a task that runs, or their removal is on its
\* way: a pairing that ends leaves nothing in the store.
NothingLeftStaged ==
    \A d \in Device, id \in Sessions : stage[d][id] # << >> =>
        \/ task[d] # None /\ On(d, id)
        \/ \E i \in DOMAIN queue[d] : queue[d][i] = [op |-> "cleanup", id |-> id]

\* However a pairing ends, all of the account is there, or nothing of it.
WholeOrNothing == TypeOK /\ InstalledIsWhole /\ NothingLeftStaged
=============================================================================

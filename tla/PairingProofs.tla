---------------------------- MODULE PairingProofs ----------------------------
(***************************************************************************)
(* Theorems about Pairing, for any number of devices, sessions, messages   *)
(* and cancellations: an account is installed whole or not at all, a        *)
(* pairing that ends leaves nothing behind, and what was cancelled stays    *)
(* cancelled.                                                              *)
(***************************************************************************)
EXTENDS Pairing, SequenceTheorems, TLAPS

-----------------------------------------------------------------------------
(* Types                                                                   *)

Identity == Holder \union {"none"}
Record == [messages : Nat]
Frame ==
  [op : {"confirmed", "end", "installed"}]
    \union [op : {"link"}, identity : Identity] \union [op : {"record"}, messages : Nat]
Order ==
  [op : {"cancel"}] \union [op : {"cleanup"}, id : Sessions]
    \union [op : {"stage"}, id : Sessions, seq : Nat, record : Record]
    \union [op : {"install"}, id : Sessions, identity : Identity]
ActiveRecord == [id : Sessions, epoch : Nat, sending : BOOLEAN, control : BOOLEAN]
TaskRecord ==
  [id : Sessions, phase : TaskPhase, sending : BOOLEAN, ok : BOOLEAN, n : Nat,
   records : Nat, identity : Identity]

Types ==
  /\ account \in [Device -> Identity] /\ log \in [Device -> 0 .. MaxLog]
  /\ stage \in [Device -> [Sessions -> Seq(Record)]]
  /\ active \in [Device -> ActiveRecord \union {None}]
  /\ epoch \in [Device -> 0 .. MaxCancel]
  /\ queue \in [Device -> Seq(Order)]
  /\ task \in [Device -> TaskRecord \union {None}]
  /\ inbox \in [Device -> Seq(Frame)]
  /\ \A id \in DOMAIN shown : id \in Sessions /\ shown[id] \in [by : Device, offer : BOOLEAN]
  /\ \A id \in DOMAIN snaps : id \in DOMAIN shown /\ snaps[id] \in 0 .. MaxLog
  /\ via \in [Device -> 0 .. MaxSession] /\ agreed \subseteq Device \X Sessions
  /\ reported \subseteq Sessions

LEMMA FrameIs ==
  /\ \A f \in Frame : /\ f.op \in {"confirmed", "end", "installed", "link", "record"}
                      /\ f.op = "link" => f.identity \in Identity
                      /\ f.op = "record" => f.messages \in Nat
  /\ \A x \in {"confirmed", "end", "installed"} : [op |-> x] \in Frame
  /\ \A x \in Identity : [op |-> "link", identity |-> x] \in Frame
  /\ \A n \in Nat : [op |-> "record", messages |-> n] \in Frame
BY DEF Frame

LEMMA OrderIs ==
  /\ \A c \in Order :
       /\ c.op \in {"cancel", "cleanup", "stage", "install"}
       /\ c.op # "cancel" => c.id \in Sessions
       /\ c.op = "stage" => c.seq \in Nat /\ c.record \in Record
       /\ c.op = "install" => c.identity \in Identity
  /\ [op |-> "cancel"] \in Order
  /\ \A id \in Sessions :
       /\ [op |-> "cleanup", id |-> id] \in Order
       /\ \A n \in Nat, r \in Record : [op |-> "stage", id |-> id, seq |-> n, record |-> r] \in Order
       /\ \A x \in Identity : [op |-> "install", id |-> id, identity |-> x] \in Order
BY DEF Order

LEMMA NoneIs ==
  /\ \A a \in ActiveRecord : a # None
  /\ \A t \in TaskRecord : t # None
  /\ \A id \in Sessions : id \in Nat /\ id # 0
<1>1. \A id \in Sessions : id \in Nat /\ id # 0
  BY PairingAssumption DEF Sessions
<1> QED BY <1>1 DEF None, ActiveRecord, TaskRecord

LEMMA CleanupIs ==
  ASSUME Types, NEW d \in Device
  PROVE  /\ Cleanup(d) \in Seq(Order)
         /\ \A i \in DOMAIN Cleanup(d) : Cleanup(d)[i].op = "cleanup"
         /\ task[d] # None /\ ~task[d].sending =>
              /\ Len(Cleanup(d)) = 1
              /\ Cleanup(d)[1].op = "cleanup" /\ Cleanup(d)[1].id = task[d].id
<1>1. CASE task[d] # None /\ ~task[d].sending
  <2>1. task[d].id \in Sessions
    BY <1>1 DEF Types, TaskRecord
  <2>2. Cleanup(d) = <<[op |-> "cleanup", id |-> task[d].id]>>
    BY <1>1 DEF Cleanup
  <2> QED BY <2>1, <2>2, OrderIs
<1>2. CASE ~(task[d] # None /\ ~task[d].sending)
  <2>1. Cleanup(d) = << >>
    BY <1>2 DEF Cleanup
  <2> QED BY <1>2, <2>1
<1> QED BY <1>1, <1>2

\* Frames reach inboxes as frames.
LEMMA ToldIs ==
  ASSUME Types, NEW d \in Device, NEW frames \in Seq(Frame)
  PROVE  /\ Told(d, frames) \in [Device -> Seq(Frame)]
         /\ Told(d, frames)[d] = inbox[d]
BY DEF Types, Told, Peers

\* A task in another phase, and a task that is over.
LEMMA PhaseType ==
  ASSUME Types, NEW d \in Device, task[d] # None, NEW phase \in TaskPhase
  PROVE  /\ InPhase(d, phase) \in [Device -> TaskRecord \union {None}]
         /\ InPhase(d, phase)[d] = [task[d] EXCEPT !.phase = phase]
         /\ \A e \in Device \ {d} : InPhase(d, phase)[e] = task[e]
<1>1. task[d] \in TaskRecord
  BY DEF Types
<1>2. [task[d] EXCEPT !.phase = phase] \in TaskRecord
  BY <1>1 DEF TaskRecord
<1> QED BY <1>2 DEF Types, InPhase

LEMMA EndType ==
  ASSUME Types, NEW d \in Device, Ends(d)
  PROVE  /\ task' \in [Device -> TaskRecord \union {None}]
         /\ queue' \in [Device -> Seq(Order)]
         /\ inbox' \in [Device -> Seq(Frame)]
<1>1. queue[d] \o Cleanup(d) \in Seq(Order)
  BY CleanupIs, SMTT(30) DEF Types
<1>2. << >> \in Seq(Frame)
  OBVIOUS
<1> QED BY <1>1, <1>2 DEF Types, Ends

LEMMA BeginType ==
  ASSUME Types, NEW d \in Device, NEW id \in Sessions, NEW phase \in TaskPhase, Begins(d, id, phase),
         \A s \in DOMAIN shown' : s \in Sessions /\ shown'[s] \in [by : Device, offer : BOOLEAN],
         \A s \in DOMAIN shown : s \in DOMAIN shown'
  PROVE  Types'
<1> DEFINE t == [id |-> id, phase |-> phase, sending |-> Has(d), ok |-> FALSE, n |-> 0,
                 records |-> 0, identity |-> "none"]
           a == [id |-> id, epoch |-> epoch[d], sending |-> Has(d), control |-> TRUE]
<1>1. t \in TaskRecord
  <2>1. Has(d) \in BOOLEAN
    BY DEF Has
  <2> QED BY <2>1 DEF TaskRecord, Identity
<1>2. a \in ActiveRecord
  <2>1. Has(d) \in BOOLEAN /\ epoch[d] \in Nat
    BY PairingAssumption DEF Has, Types
  <2> QED BY <2>1 DEF ActiveRecord
<1>3. task' = [task EXCEPT ![d] = t] /\ active' = [active EXCEPT ![d] = a]
  BY DEF Begins
<1> HIDE DEF t, a
<1>4. task' \in [Device -> TaskRecord \union {None}] /\ active' \in [Device -> ActiveRecord \union {None}]
  BY <1>1, <1>2, <1>3 DEF Types
<1>5. queue' \in [Device -> Seq(Order)]
  BY CleanupIs DEF Begins, Types
<1>6. inbox' \in [Device -> Seq(Frame)]
  <2>1. << >> \in Seq(Frame)
    OBVIOUS
  <2> QED BY <2>1 DEF Begins, Types
<1>7. stage' \in [Device -> [Sessions -> Seq(Record)]]
  <2>1. [s \in Sessions |-> << >>] \in [Sessions -> Seq(Record)]
    OBVIOUS
  <2> QED BY <2>1 DEF Begins, Types
<1>8. UNCHANGED <<account, log, epoch, snaps, via, agreed, reported>>
  BY DEF Begins
<1> QED BY <1>4, <1>5, <1>6, <1>7, <1>8 DEF Types

\* What the core answers to a request.
LEMMA AnswerType ==
  ASSUME Types, NEW d \in Device, NEW id, NEW phase \in TaskPhase, NEW ok \in BOOLEAN,
         queue[d] # << >>, ok => task[d] # None, Answer(d, id, phase, ok)
  PROVE  /\ task' \in [Device -> TaskRecord \union {None}]
         /\ queue' \in [Device -> Seq(Order)]
         /\ inbox' \in [Device -> Seq(Frame)]
<1>0. queue[d] \in Seq(Order) /\ Tail(queue[d]) \in Seq(Order)
  BY DEF Types
<1>1. CASE ok
  <2>1. task[d] \in TaskRecord
    BY <1>1 DEF Types
  <2>2. [task[d] EXCEPT !.phase = phase, !.n = @ + 1] \in TaskRecord
    <3>1. PICK t \in TaskRecord : t = task[d]
      BY <2>1
    <3>2. t.n + 1 \in Nat
      BY DEF TaskRecord
    <3>3. [t EXCEPT !.phase = phase, !.n = t.n + 1] \in TaskRecord
      BY <3>2 DEF TaskRecord
    <3> QED BY <3>1, <3>3
  <2>3. task' = [task EXCEPT ![d] = [task[d] EXCEPT !.phase = phase, !.n = @ + 1]]
    BY <1>1, <2>1 DEF Answer, Types
  <2> QED BY <1>0, <1>1, <2>2, <2>3, ZenonT(60) DEF Answer, Types
<1>2. CASE ~ok /\ Live(d) /\ On(d, id)
  <2>1. Tail(queue[d]) \o Cleanup(d) \in Seq(Order)
    BY <1>0, CleanupIs
  <2>2. << >> \in Seq(Frame)
    OBVIOUS
  <2> QED BY <1>2, <2>1, <2>2 DEF Answer, Types
<1>3. CASE ~ok /\ ~(Live(d) /\ On(d, id))
  BY <1>0, <1>3 DEF Answer, Types
<1> QED BY <1>1, <1>2, <1>3

LEMMA RestartType ==
  ASSUME Types, NEW d \in Device, Restart(d)
  PROVE  Types'
<1>1. << >> \in Seq(Order) /\ << >> \in Seq(Frame) /\ [id \in Sessions |-> << >>] \in [Sessions -> Seq(Record)]
  OBVIOUS
<1>2. stage' \in [Device -> [Sessions -> Seq(Record)]]
  BY <1>1 DEF Restart, Types
<1>3. queue' \in [Device -> Seq(Order)] /\ inbox' \in [Device -> Seq(Frame)]
  BY <1>1 DEF Restart, Types
<1>4. task' \in [Device -> TaskRecord \union {None}] /\ active' \in [Device -> ActiveRecord \union {None}]
  BY DEF Restart, Types
<1> QED BY <1>2, <1>3, <1>4 DEF Restart, Types, history

LEMMA TypesOfStaged ==
  ASSUME Types, NEW d \in Device, StageRecord(d)
  PROVE  Types'
<1> DEFINE c == Head(queue[d])
           ok == ValidReceiver(d, c.id) /\ Len(stage[d][c.id]) = c.seq
<1>1. queue[d] \in Seq(Order) /\ queue[d] # << >> /\ c \in Order /\ c.op = "stage"
  BY DEF StageRecord, Types
<1>2. c.id \in Sessions /\ c.record \in Record
  BY <1>1, OrderIs
<1>3. ok \in BOOLEAN /\ (ok => task[d] # None)
  BY DEF ValidReceiver
<1>4. /\ stage' = IF ok THEN [stage EXCEPT ![d][c.id] = Append(@, c.record)] ELSE stage
      /\ Answer(d, c.id, "receive", ok)
      /\ UNCHANGED <<account, log, active, epoch, shown, history>>
  BY DEF StageRecord
<1> HIDE DEF c, ok
<1>5. /\ task' \in [Device -> TaskRecord \union {None}]
      /\ queue' \in [Device -> Seq(Order)]
      /\ inbox' \in [Device -> Seq(Frame)]
  BY <1>1, <1>3, <1>4, AnswerType DEF TaskPhase
<1>6. stage' \in [Device -> [Sessions -> Seq(Record)]]
  <2>1. stage[d] \in [Sessions -> Seq(Record)] /\ Append(stage[d][c.id], c.record) \in Seq(Record)
    BY <1>2 DEF Types
  <2> QED BY <1>2, <1>4, <2>1 DEF Types
<1> QED BY <1>4, <1>5, <1>6 DEF Types, history

LEMMA TypesOfInstall ==
  ASSUME Types, NEW d \in Device, Install(d),
         \A id \in Sessions : stage[d][id] # << >> =>
             Len(stage[d][id]) <= 1 + MaxLog
  PROVE  Types'
<1> DEFINE c == Head(queue[d])
           ok == ValidReceiver(d, c.id) /\ ~Has(d) /\ WholeHistory(stage[d][c.id])
<1>1. queue[d] \in Seq(Order) /\ queue[d] # << >> /\ c \in Order /\ c.op = "install"
  BY DEF Install, Types
<1>2. c.id \in Sessions /\ c.identity \in Identity
  BY <1>1, OrderIs
<1>3. ok \in BOOLEAN /\ (ok => task[d] # None)
  BY DEF ValidReceiver
<1>4. /\ IF ok THEN /\ account' = [account EXCEPT ![d] = c.identity]
                    /\ log' = [log EXCEPT ![d] = Len(stage[d][c.id]) - 1]
                    /\ stage' = [stage EXCEPT ![d][c.id] = << >>]
                    /\ via' = [via EXCEPT ![d] = c.id]
         ELSE UNCHANGED <<stores, via>>
      /\ Answer(d, c.id, "installed", ok)
      /\ UNCHANGED <<active, epoch, shown, agreed, snaps, revoked, reported>>
  BY DEF Install
<1>7. ok => stage[d][c.id] # << >>
  BY DEF WholeHistory
<1> HIDE DEF c, ok
<1>5. /\ task' \in [Device -> TaskRecord \union {None}]
      /\ queue' \in [Device -> Seq(Order)]
      /\ inbox' \in [Device -> Seq(Frame)]
  BY <1>1, <1>3, <1>4, AnswerType DEF TaskPhase
<1>6. stage[d] \in [Sessions -> Seq(Record)] /\ stage[d][c.id] \in Seq(Record)
  BY <1>2 DEF Types
<1>8. CASE ok
  <2>1. stage' \in [Device -> [Sessions -> Seq(Record)]]
    <3>1. << >> \in Seq(Record)
      OBVIOUS
    <3>2. [stage[d] EXCEPT ![c.id] = << >>] \in [Sessions -> Seq(Record)]
      BY <1>2, <1>6, <3>1
    <3>3. stage' = [stage EXCEPT ![d] = [stage[d] EXCEPT ![c.id] = << >>]]
      BY <1>4, <1>8
    <3> QED BY <3>2, <3>3 DEF Types
  <2>2. Len(stage[d][c.id]) \in Nat /\ Len(stage[d][c.id]) # 0 /\ Len(stage[d][c.id]) <= 1 + MaxLog
    BY <1>2, <1>6, <1>7, <1>8
  <2>3. Len(stage[d][c.id]) - 1 \in 0 .. MaxLog
    BY <2>2, PairingAssumption
  <2>4. log' \in [Device -> 0 .. MaxLog]
    BY <1>4, <1>8, <2>3 DEF Types
  <2>5. account' \in [Device -> Identity]
    BY <1>2, <1>4, <1>8 DEF Types
  <2>6. via' \in [Device -> 0 .. MaxSession]
    <3>1. c.id \in 0 .. MaxSession
      BY <1>2, PairingAssumption DEF Sessions
    <3> QED BY <1>4, <1>8, <3>1 DEF Types
  <2> QED BY <1>4, <1>5, <1>8, <2>1, <2>4, <2>5, <2>6 DEF Types
<1>9. CASE ~ok
  BY <1>4, <1>5, <1>9 DEF Types, stores
<1> QED BY <1>8, <1>9

LEMMA TypesOfRecord ==
  ASSUME Types, NEW d \in Device, SendRecord(d), task[d].records <= 1 + MaxLog,
         task[d].id \in DOMAIN shown
  PROVE  Types'
<1> DEFINE messages == IF task[d].n = 0 THEN task[d].records - 1 ELSE 0
<1>1. task[d] \in TaskRecord
  BY DEF SendRecord, At, Types
<1>2. messages \in 0 .. MaxLog
  BY <1>1, PairingAssumption DEF TaskRecord, SendRecord
<1>3. \/ /\ inbox' = Told(d, <<[op |-> "record", messages |-> messages]>>)
         /\ task' = [task EXCEPT ![d].n = @ + 1]
         /\ snaps' = IF task[d].n = 0 THEN Put(snaps, task[d].id, messages) ELSE snaps
      \/ /\ inbox' = Told(d, <<[op |-> "end"]>>) /\ task' = InPhase(d, "ack")
         /\ UNCHANGED snaps
  BY DEF SendRecord
<1>4. UNCHANGED <<stores, active, epoch, queue, shown, via, agreed, revoked, reported>>
  BY DEF SendRecord
<1> HIDE DEF messages
<1>5. CASE /\ inbox' = Told(d, <<[op |-> "record", messages |-> messages]>>)
           /\ task' = [task EXCEPT ![d].n = @ + 1]
           /\ snaps' = IF task[d].n = 0 THEN Put(snaps, task[d].id, messages) ELSE snaps
  <2>1. <<[op |-> "record", messages |-> messages]>> \in Seq(Frame)
    BY <1>2, FrameIs, PairingAssumption
  <2>2. inbox' \in [Device -> Seq(Frame)]
    BY <1>5, <2>1, ToldIs
  <2>3. task' \in [Device -> TaskRecord \union {None}]
    <3>1. PICK t \in TaskRecord : t = task[d]
      BY <1>1
    <3>2. [t EXCEPT !.n = t.n + 1] \in TaskRecord
      BY DEF TaskRecord
    <3>3. task' = [task EXCEPT ![d] = [t EXCEPT !.n = t.n + 1]]
      BY <1>5, <3>1
    <3> QED BY <3>2, <3>3 DEF Types
  <2>4. \A id \in DOMAIN snaps' : id \in DOMAIN shown /\ snaps'[id] \in 0 .. MaxLog
    BY <1>2, <1>5 DEF Put, Types
  <2> QED BY <1>4, <2>2, <2>3, <2>4 DEF Types, stores
<1>6. CASE inbox' = Told(d, <<[op |-> "end"]>>) /\ task' = InPhase(d, "ack") /\ UNCHANGED snaps
  <2>1. <<[op |-> "end"]>> \in Seq(Frame)
    BY FrameIs
  <2>2. inbox' \in [Device -> Seq(Frame)]
    BY <1>6, <2>1, ToldIs
  <2>3. task' \in [Device -> TaskRecord \union {None}]
    BY <1>1, <1>6, NoneIs, PhaseType DEF TaskPhase
  <2> QED BY <1>4, <1>6, <2>2, <2>3 DEF Types, stores
<1> QED BY <1>3, <1>5, <1>6

LEMMA TypesOfReceived ==
  ASSUME Types, NEW d \in Device, Receive(d)
  PROVE  Types'
<1> DEFINE f == Head(inbox[d])
<1>1. inbox[d] \in Seq(Frame) /\ f \in Frame /\ task[d] \in TaskRecord /\ task[d] # None
  BY DEF Receive, At, Types
<1>2. PICK t \in TaskRecord : t = task[d]
  BY <1>1
<1>3. t.id \in Sessions /\ t.n \in Nat /\ t.identity \in Identity
  BY DEF TaskRecord
<1>4. \/ f.op = "link" /\ task' = [task EXCEPT ![d].identity = f.identity] /\ UNCHANGED queue
      \/ /\ f.op = "record" /\ task' = InPhase(d, "staging")
         /\ queue' = [queue EXCEPT ![d] = Append(@,
                [op |-> "stage", id |-> t.id, seq |-> t.n, record |-> [messages |-> f.messages]])]
      \/ /\ task' = InPhase(d, "installing")
         /\ queue' = [queue EXCEPT ![d] = Append(@,
                [op |-> "install", id |-> t.id, identity |-> t.identity])]
  BY <1>2 DEF Receive
<1>5. inbox' \in [Device -> Seq(Frame)] /\ UNCHANGED <<stores, active, epoch, shown, history>>
  BY DEF Receive, Types
<1> HIDE DEF f
<1>7. task \in [Device -> TaskRecord \union {None}] /\ queue \in [Device -> Seq(Order)]
  BY DEF Types
<1>6. task' \in [Device -> TaskRecord \union {None}] /\ queue' \in [Device -> Seq(Order)]
  <2>1. CASE f.op = "link" /\ task' = [task EXCEPT ![d].identity = f.identity] /\ UNCHANGED queue
    <3>1. f.identity \in Identity
      BY <1>1, <2>1, FrameIs
    <3>2. [t EXCEPT !.identity = f.identity] \in TaskRecord
      BY <3>1 DEF TaskRecord
    <3>3. task' = [task EXCEPT ![d] = [t EXCEPT !.identity = f.identity]]
      BY <1>2, <2>1
    <3> QED BY <1>7, <2>1, <3>2, <3>3
  <2>2. CASE /\ f.op = "record" /\ task' = InPhase(d, "staging")
             /\ queue' = [queue EXCEPT ![d] = Append(@,
                  [op |-> "stage", id |-> t.id, seq |-> t.n, record |-> [messages |-> f.messages]])]
    <3>1. [messages |-> f.messages] \in Record
      BY <1>1, <2>2, FrameIs DEF Record
    <3>2. [op |-> "stage", id |-> t.id, seq |-> t.n, record |-> [messages |-> f.messages]] \in Order
      BY <1>3, <3>1, OrderIs
    <3>3. InPhase(d, "staging") \in [Device -> TaskRecord \union {None}]
      BY <1>1, PhaseType DEF TaskPhase
    <3>4. queue[d] \in Seq(Order)
      BY <1>7
    <3> QED BY <1>7, <2>2, <3>2, <3>3, <3>4
  <2>3. CASE /\ task' = InPhase(d, "installing")
             /\ queue' = [queue EXCEPT ![d] = Append(@,
                  [op |-> "install", id |-> t.id, identity |-> t.identity])]
    <3>1. [op |-> "install", id |-> t.id, identity |-> t.identity] \in Order
      BY <1>3, OrderIs
    <3>3. InPhase(d, "installing") \in [Device -> TaskRecord \union {None}]
      BY <1>1, PhaseType DEF TaskPhase
    <3>4. queue[d] \in Seq(Order)
      BY <1>7
    <3> QED BY <1>7, <2>3, <3>1, <3>3, <3>4
  <2> QED BY <1>4, <2>1, <2>2, <2>3
<1> QED BY <1>5, <1>6 DEF Types, stores, history

-----------------------------------------------------------------------------
(* The invariant                                                           *)

\* Account x is that of another device, whose user agreed to session id.
Vouched(d, id, x) ==
  x # "none" /\ \E s \in Device \ {d} : account[s] = x /\ <<s, id>> \in agreed

\* The task of d has met its peer.
Beyond(d) == Live(d) /\ task[d].phase \notin {"listen", "connect"}

\* Who shows an offer gives, and who scans it takes.
Gives(d, id) == id \in DOMAIN shown /\ ((shown[id].by = d) <=> shown[id].offer)
Takes(d, id) == id \in DOMAIN shown /\ ((shown[id].by = d) <=> ~shown[id].offer)

\* A task belongs to the active session, until that is cancelled, and what a task
\* does says what happened before.
TaskTrue(d) ==
  task[d] # None =>
    /\ active[d] # None => task[d].id = active[d].id /\ task[d].sending = active[d].sending
    /\ task[d].phase # "aborted" => active[d] # None /\ active[d].epoch = epoch[d]
    /\ task[d].phase = "aborted" /\ active[d] # None => active[d].epoch < epoch[d]
    /\ task[d].ok => <<d, task[d].id>> \in agreed
    /\ task[d].phase \notin {"listen", "connect", "verify", "aborted"} => task[d].ok
    /\ task[d].sending => Has(d) /\ Gives(d, task[d].id)
    /\ ~task[d].sending => Takes(d, task[d].id)
    /\ task[d].phase = "listen" => shown[task[d].id].by = d
    /\ task[d].phase = "connect" => shown[task[d].id].by # d
    /\ task[d].phase \in {"listen", "connect", "verify", "wait"} => task[d].n = 0 /\ task[d].identity = "none"
    /\ task[d].phase \in {"send", "ack"} => task[d].sending
    /\ task[d].phase \in {"receive", "staging", "installing", "installed"} => ~task[d].sending
    /\ task[d].phase \in {"staging", "installing"} => task[d].identity # "none"
    /\ task[d].phase = "receive" /\ task[d].identity = "none" => task[d].n = 0
    /\ task[d].identity # "none" => Vouched(d, task[d].id, task[d].identity)
    /\ task[d].records <= 1 + MaxLog
    /\ task[d].sending /\ task[d].n # 0 =>
         task[d].id \in DOMAIN snaps /\ task[d].records = 1 + snaps[task[d].id]
    /\ task[d].phase = "installed" => via[d] = task[d].id

ActiveTrue(d) ==
  active[d] # None =>
    /\ active[d].epoch <= epoch[d]
    /\ ~active[d].control => <<d, active[d].id>> \in agreed

Asks(c) == c.op \in {"stage", "install"}

\* One request of a task at most waits for the core, and it is of what the source
\* sent: the first record is the header.
Requests(d) ==
  \A i \in DOMAIN queue[d] : Asks(queue[d][i]) =>
    /\ \A j \in DOMAIN queue[d] : Asks(queue[d][j]) => i = j
    /\ task[d] # None =>
         /\ queue[d][i].id = task[d].id
         /\ queue[d][i].op = "stage" =>
              task[d].phase \in {"aborted", "staging"} /\ task[d].n = queue[d][i].seq
         /\ queue[d][i].op = "install" => task[d].phase \in {"aborted", "installing"}
    /\ queue[d][i].op = "stage" =>
         /\ queue[d][i].seq <= MaxLog
         /\ queue[d][i].seq = 0 =>
              queue[d][i].id \in DOMAIN snaps /\ queue[d][i].record.messages = snaps[queue[d][i].id]
    /\ queue[d][i].op = "install" => Vouched(d, queue[d][i].id, queue[d][i].identity)

CleansUp(q, id) == \E i \in DOMAIN q : q[i].op = "cleanup" /\ q[i].id = id

Staged(d) ==
  \A id \in Sessions : stage[d][id] # << >> =>
    /\ (task[d] # None /\ On(d, id) /\ ~task[d].sending) \/ CleansUp(queue[d], id)
    /\ id \in DOMAIN snaps /\ Head(stage[d][id]).messages = snaps[id]
    /\ Len(stage[d][id]) <= 1 + MaxLog

Installed(d) ==
  /\ d \in Holder => account[d] = d /\ via[d] = 0
  /\ via[d] # 0 =>
       /\ Has(d) /\ Takes(d, via[d]) /\ <<d, via[d]>> \in agreed /\ Vouched(d, via[d], account[d])
       /\ via[d] \in DOMAIN snaps /\ log[d] = snaps[via[d]]

Local(d) == TaskTrue(d) /\ ActiveTrue(d) /\ Requests(d) /\ Staged(d) /\ Installed(d)

\* Frames are for a task that met its peer; who is told of an installation is right.
Mail(d) ==
  /\ inbox[d] # << >> => task[d] # None /\ task[d].phase \notin {"listen", "connect"}
  /\ \A i \in DOMAIN inbox[d] :
       inbox[d][i].op = "installed" => \E e \in Device : via[e] = task[d].id

\* Whoever takes part in session id, or was made by it.
Joined(d, id) == via[d] = id \/ (Beyond(d) /\ On(d, id))
Listens(id) == \E b \in Device : Live(b) /\ On(b, id) /\ task[b].phase = "listen"

\* One device at most comes to who shows a code, and there is one header.
Single ==
  \A id \in DOMAIN shown :
    /\ \A d, e \in Device \ {shown[id].by} : Joined(d, id) /\ Joined(e, id) => d = e
    /\ Listens(id) => id \notin DOMAIN snaps /\ \A d \in Device : ~Joined(d, id)
    /\ id \in DOMAIN snaps =>
         \A d \in Device : Beyond(d) /\ On(d, id) /\ task[d].sending => task[d].n # 0

\* How many frames a taker has read, and a giver has written.
ReadBy(t) ==
  CASE t.phase \in {"verify", "wait"} -> 0
    [] t.phase = "receive" /\ t.identity = "none" -> 1
    [] t.phase \in {"staging", "installing"} -> 3 + t.n
    [] OTHER -> 2 + t.n
WrittenBy(t) ==
  CASE t.phase = "verify" -> 0
    [] t.phase = "wait" -> 1
    [] t.phase = "send" -> 2 + t.n
    [] OTHER -> 3 + t.n

\* The k-th frame to r in session id: the confirmation, the account, the header
\* of the history, its messages, and the end.
FrameIn(r, id, k, f) ==
  /\ k = 1 => f.op = "confirmed"
  /\ k = 2 => f.op = "link" /\ Vouched(r, id, f.identity)
  /\ k >= 3 => f.op \in {"record", "end"}
  /\ k >= 3 /\ f.op = "record" =>
       id \in DOMAIN snaps /\ k - 3 <= snaps[id] /\ (k = 3 => f.messages = snaps[id])

StreamOf(r) ==
  /\ \A i \in DOMAIN inbox[r] : FrameIn(r, task[r].id, ReadBy(task[r]) + i, inbox[r][i])
  /\ \A s \in Device : Beyond(s) /\ task[s].sending /\ On(s, task[r].id) =>
       WrittenBy(task[s]) = ReadBy(task[r]) + Len(inbox[r])

Stream == \A r \in Device : Beyond(r) /\ ~task[r].sending => StreamOf(r)

Reported == \A id \in reported : \E d \in Device : via[d] = id

\* An epoch that lasts has not been cancelled.
NothingRevoked ==
  \A d \in Device : active[d] # None /\ active[d].epoch = epoch[d] => <<d, active[d].id>> \notin revoked

PairingInv ==
  /\ Types /\ Single /\ Stream /\ Reported /\ NothingRevoked
  /\ \A d \in Device : Local(d) /\ Mail(d)

-----------------------------------------------------------------------------
(* Types are kept                                                          *)

LEMMA LiveIs ==
  ASSUME Types, NEW d \in Device, Live(d)
  PROVE  task[d] \in TaskRecord /\ task[d] # None
BY DEF Live, Types

LEMMA TypesStep == PairingInv /\ Next => Types'
<1> SUFFICES ASSUME PairingInv, Next PROVE Types'
  OBVIOUS
<1> USE DEF stores, memory, history
<1>0. Types /\ \A d \in Device : TaskTrue(d) /\ Staged(d)
  BY DEF PairingInv, Local
<1>1. ASSUME NEW d \in Device, Show(d) PROVE Types'
  <2>1. PICK id \in Sessions \ DOMAIN shown :
          shown' = Put(shown, id, [by |-> d, offer |-> Has(d)]) /\ Begins(d, id, "listen")
    BY <1>1 DEF Show
  <2>2. Has(d) \in BOOLEAN
    BY DEF Has
  <2>3. /\ \A s \in DOMAIN shown' : s \in Sessions /\ shown'[s] \in [by : Device, offer : BOOLEAN]
        /\ \A s \in DOMAIN shown : s \in DOMAIN shown'
    BY <1>0, <2>1, <2>2 DEF Put, Types
  <2> QED BY <1>0, <2>1, <2>3, BeginType DEF TaskPhase
<1>2. ASSUME NEW d \in Device, NEW id \in Sessions, Scan(d, id) PROVE Types'
  BY <1>0, <1>2, BeginType DEF Scan, TaskPhase, Types
<1>3. ASSUME NEW d \in Device, Refused(d) PROVE Types'
  <2>1. [s \in Sessions |-> << >>] \in [Sessions -> Seq(Record)]
    OBVIOUS
  <2>2. stage' \in [Device -> [Sessions -> Seq(Record)]]
    BY <1>0, <1>3, <2>1 DEF Refused, Types
  <2> QED BY <1>0, <1>3, <2>2 DEF Refused, Types
<1>4. ASSUME NEW d \in Device, Confirm(d) PROVE Types'
  <2>1. PICK a \in ActiveRecord : a = active[d]
    BY <1>0, <1>4 DEF Confirm, Types
  <2>2. PICK t \in TaskRecord : t = task[d]
    BY <1>0, <1>4 DEF Confirm, Types
  <2>3. [a EXCEPT !.control = FALSE] \in ActiveRecord /\ [t EXCEPT !.ok = TRUE] \in TaskRecord /\ a.id \in Sessions
    BY DEF ActiveRecord, TaskRecord
  <2>4. /\ active' = [active EXCEPT ![d] = [a EXCEPT !.control = FALSE]]
        /\ task' = [task EXCEPT ![d] = [t EXCEPT !.ok = TRUE]]
        /\ agreed' = agreed \union {<<d, a.id>>}
    BY <1>4, <2>1, <2>2 DEF Confirm
  <2>5. active' \in [Device -> ActiveRecord \union {None}] /\ task' \in [Device -> TaskRecord \union {None}]
    BY <1>0, <2>3, <2>4 DEF Types
  <2>6. agreed' \subseteq Device \X Sessions
    BY <1>0, <2>3, <2>4 DEF Types
  <2> QED BY <1>0, <1>4, <2>5, <2>6 DEF Confirm, Types
<1>5. ASSUME NEW d \in Device, Cancel(d) PROVE Types'
  <2>1. task' \in [Device -> TaskRecord \union {None}]
    BY <1>0, <1>5, PhaseType, LiveIs DEF Cancel, Types, TaskPhase
  <2>2. queue' \in [Device -> Seq(Order)]
    <3>1. Append(queue[d], [op |-> "cancel"]) \in Seq(Order)
      BY <1>0, OrderIs DEF Types
    <3> QED BY <1>0, <1>5, <3>1 DEF Cancel, Types
  <2>3. epoch' \in [Device -> 0 .. MaxCancel]
    <3>1. epoch[d] + 1 \in 0 .. MaxCancel
      BY <1>0, <1>5, PairingAssumption DEF Cancel, Types
    <3> QED BY <1>0, <1>5, <3>1 DEF Cancel, Types
  <2> QED BY <1>0, <1>5, <2>1, <2>2, <2>3 DEF Cancel, Types
<1>6. ASSUME NEW d \in Device, LateMail(d) PROVE Types'
  <2>1. log[d] + 1 \in 0 .. MaxLog
    BY <1>0, <1>6, PairingAssumption DEF LateMail, Types
  <2>2. log' \in [Device -> 0 .. MaxLog]
    BY <1>0, <1>6, <2>1 DEF LateMail, Types
  <2> QED BY <1>0, <1>6, <2>2 DEF LateMail, Types
<1>7. ASSUME NEW d \in Device, Restart(d) PROVE Types'
  BY <1>0, <1>7, RestartType
<1>8. ASSUME NEW d \in Device, StageRecord(d) PROVE Types'
  BY <1>0, <1>8, TypesOfStaged
<1>9. ASSUME NEW d \in Device, Install(d) PROVE Types'
  BY <1>0, <1>9, TypesOfInstall DEF Staged
<1>10. ASSUME NEW d \in Device, CleanStage(d) PROVE Types'
  <2>1. queue[d] \in Seq(Order) /\ Head(queue[d]) \in Order /\ Tail(queue[d]) \in Seq(Order)
    BY <1>0, <1>10 DEF CleanStage, Types
  <2>2. PICK id \in Sessions : id = Head(queue[d]).id
    BY <1>10, <2>1, OrderIs DEF CleanStage
  <2>3. << >> \in Seq(Record) /\ stage[d] \in [Sessions -> Seq(Record)]
    BY <1>0 DEF Types
  <2>4. stage' = [stage EXCEPT ![d] = [stage[d] EXCEPT ![id] = << >>]]
    BY <1>10, <2>2 DEF CleanStage
  <2>5. stage' \in [Device -> [Sessions -> Seq(Record)]]
    BY <1>0, <2>3, <2>4 DEF Types
  <2>6. queue' \in [Device -> Seq(Order)]
    BY <1>0, <1>10, <2>1 DEF CleanStage, Types
  <2> QED BY <1>0, <1>10, <2>5, <2>6 DEF CleanStage, Types
<1>11. ASSUME NEW d \in Device, Cancelled(d) PROVE Types'
  <2>1. queue[d] \in Seq(Order) /\ Tail(queue[d]) \in Seq(Order)
    BY <1>0, <1>11 DEF Cancelled, Types
  <2>2. << >> \in Seq(Record) /\ stage[d] \in [Sessions -> Seq(Record)]
    BY <1>0 DEF Types
  <2>3. stage' \in [Device -> [Sessions -> Seq(Record)]]
    <3>1. CASE active[d] = None
      BY <1>0, <1>11, <3>1 DEF Cancelled, Types
    <3>2. CASE active[d] # None
      <4>1. PICK id \in Sessions : id = active[d].id
        BY <1>0, <3>2 DEF Types, ActiveRecord
      <4>2. stage' = [stage EXCEPT ![d] = [stage[d] EXCEPT ![id] = << >>]]
        BY <1>11, <3>2, <4>1 DEF Cancelled
      <4> QED BY <1>0, <2>2, <4>2 DEF Types
    <3> QED BY <3>1, <3>2
  <2>4. queue' \in [Device -> Seq(Order)] /\ active' \in [Device -> ActiveRecord \union {None}]
    BY <1>0, <1>11, <2>1 DEF Cancelled, Types
  <2>5. task' \in [Device -> TaskRecord \union {None}]
    BY <1>0, <1>11, PhaseType, LiveIs DEF Cancelled, Types, TaskPhase
  <2> QED BY <1>0, <1>11, <2>3, <2>4, <2>5 DEF Cancelled, Types
<1>12. ASSUME NEW d \in Device, NEW p \in Device, Meet(d, p) PROVE Types'
  <2>1. PICK t \in TaskRecord, u \in TaskRecord : t = task[d] /\ u = task[p]
    BY <1>0, <1>12 DEF Meet, At, Types
  <2>2. [t EXCEPT !.phase = "verify"] \in TaskRecord /\ [u EXCEPT !.phase = "verify"] \in TaskRecord
    BY DEF TaskRecord, TaskPhase
  <2>3. d # p
    BY <1>12 DEF Meet, At
  <2>4. CASE task' = [task EXCEPT ![d].phase = "verify", ![p].phase = "verify"] /\ UNCHANGED <<queue, inbox>>
    <3>1. task' = [task EXCEPT ![d] = [t EXCEPT !.phase = "verify"], ![p] = [u EXCEPT !.phase = "verify"]]
      BY <2>1, <2>3, <2>4
    <3>2. task' \in [Device -> TaskRecord \union {None}]
      BY <1>0, <2>2, <3>1 DEF Types
    <3> QED BY <1>0, <1>12, <2>4, <3>2 DEF Meet, Types
  <2>5. CASE /\ task' = [task EXCEPT ![d].phase = "verify", ![p] = None]
             /\ queue' = [queue EXCEPT ![p] = @ \o Cleanup(p)]
             /\ inbox' = [inbox EXCEPT ![p] = << >>]
    <3>1. task' = [task EXCEPT ![d] = [t EXCEPT !.phase = "verify"], ![p] = None]
      BY <2>1, <2>5
    <3>2. task' \in [Device -> TaskRecord \union {None}]
      BY <1>0, <2>2, <3>1 DEF Types
    <3>3. queue[p] \o Cleanup(p) \in Seq(Order) /\ << >> \in Seq(Frame)
      <4>1. queue[p] \in Seq(Order) /\ << >> \in Seq(Frame)
        BY <1>0 DEF Types
      <4>2. Cleanup(p) \in Seq(Order)
        BY <1>0, CleanupIs
      <4> QED BY <4>1, <4>2
    <3>4. queue' \in [Device -> Seq(Order)] /\ inbox' \in [Device -> Seq(Frame)]
      BY <1>0, <2>5, <3>3 DEF Types
    <3> QED BY <1>0, <1>12, <3>2, <3>4 DEF Meet, Types
  <2> QED BY <1>12, <2>4, <2>5 DEF Meet
<1>13. ASSUME NEW d \in Device, Confirmed(d) PROVE Types'
  <2>1. <<[op |-> "confirmed"]>> \in Seq(Frame)
    BY FrameIs
  <2>2. inbox' \in [Device -> Seq(Frame)]
    BY <1>0, <1>13, <2>1, ToldIs DEF Confirmed
  <2>3. task' \in [Device -> TaskRecord \union {None}]
    BY <1>0, <1>13, PhaseType DEF Confirmed, At, TaskPhase
  <2> QED BY <1>0, <1>13, <2>2, <2>3 DEF Confirmed, Types
<1>14. ASSUME NEW d \in Device, BothConfirmed(d) PROVE Types'
  <2> DEFINE frames == IF task[d].sending THEN <<[op |-> "link", identity |-> account[d]]>> ELSE << >>
  <2>1. frames \in Seq(Frame)
    BY <1>0, FrameIs DEF Types
  <2>2. inbox' = [Told(d, frames) EXCEPT ![d] = Tail(@)]
    BY <1>14 DEF BothConfirmed
  <2> HIDE DEF frames
  <2>3. Told(d, frames) \in [Device -> Seq(Frame)] /\ Tail(Told(d, frames)[d]) \in Seq(Frame)
    <3>1. inbox[d] \in Seq(Frame) /\ inbox[d] # << >>
      BY <1>0, <1>14 DEF BothConfirmed, Types
    <3> QED BY <1>0, <2>1, <3>1, ToldIs
  <2>4. inbox' \in [Device -> Seq(Frame)]
    BY <2>2, <2>3
  <2>5. task' \in [Device -> TaskRecord \union {None}]
    BY <1>0, <1>14, PhaseType DEF BothConfirmed, At, TaskPhase
  <2> QED BY <1>0, <1>14, <2>4, <2>5 DEF BothConfirmed, Types
<1>15. ASSUME NEW d \in Device, Snapshot(d) PROVE Types'
  <2>1. PICK t \in TaskRecord : t = task[d]
    BY <1>0, <1>15, LiveIs DEF Snapshot
  <2>2. 1 + log[d] \in Nat
    BY <1>0, PairingAssumption DEF Types
  <2>3. [t EXCEPT !.records = 1 + log[d]] \in TaskRecord
    BY <2>2 DEF TaskRecord
  <2>4. task' = [task EXCEPT ![d] = [t EXCEPT !.records = 1 + log[d]]]
    BY <1>15, <2>1 DEF Snapshot
  <2>5. task' \in [Device -> TaskRecord \union {None}]
    BY <1>0, <2>3, <2>4 DEF Types
  <2> QED BY <1>0, <1>15, <2>5 DEF Snapshot, Types
<1>16. ASSUME NEW d \in Device, SendRecord(d) PROVE Types'
  BY <1>0, <1>16, TypesOfRecord DEF TaskTrue, SendRecord, At, Gives, Takes
<1>17. ASSUME NEW d \in Device, Receive(d) PROVE Types'
  BY <1>0, <1>17, TypesOfReceived
<1>18. ASSUME NEW d \in Device, SendInstalled(d) PROVE Types'
  <2>1. <<[op |-> "installed"]>> \in Seq(Frame) /\ << >> \in Seq(Frame)
    BY FrameIs
  <2>2. Told(d, <<[op |-> "installed"]>>) \in [Device -> Seq(Frame)]
    BY <1>0, <2>1, ToldIs
  <2>3. inbox' \in [Device -> Seq(Frame)]
    BY <1>0, <1>18, <2>1, <2>2 DEF SendInstalled, Types
  <2>4. queue[d] \o Cleanup(d) \in Seq(Order)
    <3>1. queue[d] \in Seq(Order)
      BY <1>0 DEF Types
    <3>2. Cleanup(d) \in Seq(Order)
      BY <1>0, CleanupIs
    <3> QED BY <3>1, <3>2
  <2>5. queue' \in [Device -> Seq(Order)] /\ task' \in [Device -> TaskRecord \union {None}]
    BY <1>0, <1>18, <2>4 DEF SendInstalled, Types
  <2> QED BY <1>0, <1>18, <2>3, <2>5 DEF SendInstalled, Types
<1>19. ASSUME NEW d \in Device, SourceDone(d) PROVE Types'
  <2>1. task[d].id \in Sessions
    BY <1>0, <1>19, NoneIs DEF SourceDone, Complete, At, Types, TaskRecord
  <2>2. reported' \subseteq Sessions
    BY <1>0, <1>19, <2>1 DEF SourceDone, Types
  <2> QED BY <1>0, <1>19, <2>2, EndType DEF SourceDone, Types
<1>20. ASSUME NEW d \in Device, Fail(d) \/ Dropped(d) PROVE Types'
  BY <1>0, <1>20, EndType DEF Fail, Dropped, Types
<1> QED
  BY <1>1, <1>2, <1>3, <1>4, <1>5, <1>6, <1>7, <1>8, <1>9, <1>10, <1>11, <1>12, <1>13, <1>14,
     <1>15, <1>16, <1>17, <1>18, <1>19, <1>20 DEF Next

-----------------------------------------------------------------------------
(* What a step may not take back                                           *)

Grows ==
  /\ \A e \in Device : Has(e) => account'[e] = account[e]
  /\ agreed \subseteq agreed'
  /\ \A id \in DOMAIN shown : id \in DOMAIN shown' /\ shown'[id] = shown[id]
  /\ \A id \in DOMAIN snaps : id \in DOMAIN snaps' /\ snaps'[id] = snaps[id]
  /\ \A e \in Device : via[e] # 0 => via'[e] = via[e]

LEMMA NextGrows == PairingInv /\ Next => Grows
<1> SUFFICES ASSUME PairingInv, Next PROVE Grows
  OBVIOUS
<1> USE DEF stores, memory, history
<1>0. Types /\ Single /\ \A d \in Device : TaskTrue(d) /\ Installed(d)
  BY DEF PairingInv, Local
<1>1. ASSUME NEW d \in Device, Show(d) PROVE Grows
  <2>1. PICK id \in Sessions \ DOMAIN shown :
          shown' = Put(shown, id, [by |-> d, offer |-> Has(d)]) /\ Begins(d, id, "listen")
    BY <1>1 DEF Show
  <2> QED BY <2>1 DEF Begins, Put, Grows
<1>2. ASSUME NEW d \in Device, NEW id \in Sessions, Scan(d, id) PROVE Grows
  BY <1>2 DEF Scan, Begins, Grows
<1>3. ASSUME NEW d \in Device,
             Refused(d) \/ Confirm(d) \/ Cancel(d) \/ LateMail(d) \/ Restart(d)
      PROVE  Grows
  BY <1>3 DEF Refused, Confirm, Cancel, LateMail, Restart, Grows
<1>4. ASSUME NEW d \in Device, StageRecord(d) \/ CleanStage(d) \/ Cancelled(d) PROVE Grows
  BY <1>4 DEF StageRecord, CleanStage, Cancelled, Grows
<1>5. ASSUME NEW d \in Device, Install(d) PROVE Grows
  <2>1. CASE UNCHANGED <<account, via>>
    BY <1>5, <2>1 DEF Install, Grows
  <2>2. CASE /\ ~Has(d) /\ account' = [account EXCEPT ![d] = Head(queue[d]).identity]
             /\ via' = [via EXCEPT ![d] = Head(queue[d]).id]
    <3>1. via[d] = 0
      BY <1>0, <2>2 DEF Installed
    <3>2. \A e \in Device : e # d => account'[e] = account[e] /\ via'[e] = via[e]
      BY <1>0, <2>2 DEF Types
    <3> QED BY <1>5, <2>2, <3>1, <3>2 DEF Install, Grows
  <2> QED BY <1>5, <2>1, <2>2 DEF Install
<1>6. ASSUME NEW d \in Device, SendRecord(d) PROVE Grows
  <2>1. task[d].n = 0 => task[d].id \notin DOMAIN snaps
    BY <1>0, <1>6, ZenonT(60) DEF SendRecord, At, TaskTrue, Gives, Single, Beyond, Live, On
  <2>2. snaps' = snaps \/ (task[d].n = 0 /\ \E m : snaps' = Put(snaps, task[d].id, m))
    BY <1>6 DEF SendRecord
  <2> QED BY <1>6, <2>1, <2>2 DEF SendRecord, Put, Grows
<1>7. ASSUME NEW d \in Device,
             \/ Confirmed(d) \/ BothConfirmed(d) \/ Snapshot(d) \/ Receive(d)
             \/ SendInstalled(d) \/ SourceDone(d) \/ Fail(d) \/ Dropped(d)
      PROVE  Grows
  BY <1>7 DEF Confirmed, BothConfirmed, Snapshot, Receive, SendInstalled, SourceDone, Fail, Dropped, Grows
<1>8. ASSUME NEW d \in Device, NEW p \in Device, Meet(d, p) PROVE Grows
  BY <1>8 DEF Meet, Grows
<1> QED BY <1>1, <1>2, <1>3, <1>4, <1>5, <1>6, <1>7, <1>8 DEF Next

LEMMA VouchedStays ==
  ASSUME Grows, NEW d \in Device, NEW id, NEW x, Vouched(d, id, x)
  PROVE  Vouched(d, id, x)'
<1>1. PICK s \in Device \ {d} : account[s] = x /\ <<s, id>> \in agreed
  BY DEF Vouched
<1>2. x # "none" /\ Has(s)
  BY <1>1 DEF Vouched, Has
<1> QED BY <1>1, <1>2 DEF Grows, Vouched

\* Of two devices that take part in a session one gives and one takes.
LEMMA Opposite ==
  ASSUME Single, NEW d \in Device, NEW e \in Device, Beyond(d), Beyond(e), TaskTrue(d), TaskTrue(e),
         task[d].id = task[e].id, task[d].sending = task[e].sending
  PROVE  d = e
<1>0. task[d] # None /\ task[e] # None
  BY DEF Beyond, Live
<1>1. PICK id : id = task[d].id
  OBVIOUS
<1>2. id \in DOMAIN shown /\ Joined(d, id) /\ Joined(e, id)
  BY <1>0, <1>1 DEF TaskTrue, Gives, Takes, Joined, On
<1>3. (shown[id].by = d) <=> (shown[id].by = e)
  BY <1>0, <1>1 DEF TaskTrue, Gives, Takes
<1>4. \A x, y \in Device \ {shown[id].by} : Joined(x, id) /\ Joined(y, id) => x = y
  BY <1>2 DEF Single
<1> QED BY <1>2, <1>3, <1>4

\* Who shows the code listens.
LEMMA NobodyYet ==
  ASSUME Single, NEW b \in Device, Live(b), task[b].phase = "listen", TaskTrue(b)
  PROVE  /\ shown[task[b].id].by = b /\ task[b].id \in DOMAIN shown
         /\ task[b].id \notin DOMAIN snaps
         /\ \A d \in Device : ~Joined(d, task[b].id)
<1>1. task[b] # None
  BY DEF Live
<1>2. task[b].id \in DOMAIN shown /\ shown[task[b].id].by = b
  BY <1>1 DEF TaskTrue, Gives, Takes
<1>3. Listens(task[b].id)
  BY DEF Listens, On
<1> QED BY <1>2, <1>3 DEF Single

-----------------------------------------------------------------------------
(* What a device knows of itself                                           *)

\* Nothing of device e changes, except the frames on their way to it.
Kept(e) ==
  /\ task'[e] = task[e] /\ active'[e] = active[e] /\ epoch'[e] = epoch[e] /\ queue'[e] = queue[e]
  /\ stage'[e] = stage[e] /\ via'[e] = via[e] /\ log'[e] = log[e] /\ account'[e] = account[e]

LEMMA TaskKeeps ==
  ASSUME Grows, Types, NEW e \in Device, TaskTrue(e), account'[e] = account[e], via'[e] = via[e],
         task'[e] = task[e], active'[e] = active[e], epoch'[e] = epoch[e]
  PROVE  TaskTrue(e)'
<1>1. SUFFICES ASSUME task[e] # None PROVE TaskTrue(e)'
  BY DEF TaskTrue
<1>2. PICK t \in TaskRecord : t = task[e]
  BY <1>1 DEF Types
<1>3. t.identity # "none" => Vouched(e, t.id, t.identity)'
  BY <1>1, <1>2, VouchedStays DEF TaskTrue
<1>4. t.id \in DOMAIN shown
  BY <1>1, <1>2 DEF TaskTrue, Gives, Takes
<1>5. (t.sending => Has(e)' /\ Gives(e, t.id)') /\ (~t.sending => Takes(e, t.id)')
  BY <1>1, <1>2, <1>4 DEF TaskTrue, Gives, Takes, Grows, Has
<1>6. shown'[t.id] = shown[t.id]
  BY <1>4 DEF Grows
<1>7. t.sending /\ t.n # 0 => t.id \in DOMAIN snaps' /\ t.records = 1 + snaps'[t.id]
  BY <1>1, <1>2 DEF TaskTrue, Grows
<1>8. t.ok => <<e, t.id>> \in agreed'
  BY <1>1, <1>2 DEF TaskTrue, Grows
<1>9. task'[e] = t /\ active'[e] = active[e] /\ epoch'[e] = epoch[e] /\ via'[e] = via[e]
  BY <1>2
<1> HIDE DEF Vouched, Gives, Takes, Has
<1> QED BY <1>1, <1>2, <1>3, <1>5, <1>6, <1>7, <1>8, <1>9 DEF TaskTrue

LEMMA RequestsKeep ==
  ASSUME Grows, NEW e \in Device, Requests(e), task'[e] = task[e], queue'[e] = queue[e]
  PROVE  Requests(e)'
<1>1. SUFFICES ASSUME NEW i \in DOMAIN queue[e], Asks(queue[e][i])
      PROVE /\ \A j \in DOMAIN queue[e] : Asks(queue[e][j]) => i = j
            /\ task[e] # None =>
                 /\ queue[e][i].id = task[e].id
                 /\ queue[e][i].op = "stage" =>
                      task[e].phase \in {"aborted", "staging"} /\ task[e].n = queue[e][i].seq
                 /\ queue[e][i].op = "install" => task[e].phase \in {"aborted", "installing"}
            /\ queue[e][i].op = "stage" =>
                 /\ queue[e][i].seq <= MaxLog
                 /\ queue[e][i].seq = 0 =>
                      queue[e][i].id \in DOMAIN snaps' /\ queue[e][i].record.messages = snaps'[queue[e][i].id]
            /\ queue[e][i].op = "install" => Vouched(e, queue[e][i].id, queue[e][i].identity)'
  BY DEF Requests, Asks
<1>2. queue[e][i].op = "install" => Vouched(e, queue[e][i].id, queue[e][i].identity)'
  BY <1>1, VouchedStays DEF Requests
<1>3. queue[e][i].op = "stage" /\ queue[e][i].seq = 0 =>
         queue[e][i].id \in DOMAIN snaps' /\ queue[e][i].record.messages = snaps'[queue[e][i].id]
  BY <1>1 DEF Requests, Grows
<1> QED BY <1>1, <1>2, <1>3 DEF Requests

LEMMA StagedKeeps ==
  ASSUME Grows, NEW e \in Device, Staged(e), task'[e] = task[e], queue'[e] = queue[e], stage'[e] = stage[e]
  PROVE  Staged(e)'
<1> SUFFICES ASSUME NEW id \in Sessions, stage[e][id] # << >>
    PROVE /\ (task[e] # None /\ task[e].id = id /\ ~task[e].sending) \/ CleansUp(queue[e], id)
          /\ id \in DOMAIN snaps' /\ Head(stage[e][id]).messages = snaps'[id]
          /\ Len(stage[e][id]) <= 1 + MaxLog
  BY DEF Staged, On
<1> QED BY DEF Staged, On, Grows

LEMMA InstalledKeeps ==
  ASSUME Grows, NEW e \in Device, Installed(e), via'[e] = via[e], account'[e] = account[e],
         log'[e] = log[e] \/ (e \in Holder /\ via[e] = 0)
  PROVE  Installed(e)'
<1>1. via[e] # 0 => Vouched(e, via[e], account[e])'
  <2> SUFFICES ASSUME via[e] # 0 PROVE Vouched(e, via[e], account[e])'
    OBVIOUS
  <2>1. PICK x : x = account[e]
    OBVIOUS
  <2>2. PICK id : id = via[e]
    OBVIOUS
  <2>3. Vouched(e, id, x)'
    BY <2>1, <2>2, VouchedStays DEF Installed
  <2> QED BY <2>1, <2>2, <2>3 DEF Vouched
<1>2. via[e] # 0 => Takes(e, via[e])' /\ <<e, via[e]>> \in agreed' /\ Has(e)'
  BY DEF Installed, Takes, Grows, Has
<1>3. via[e] # 0 => via[e] \in DOMAIN snaps' /\ log'[e] = snaps'[via[e]]
  BY DEF Installed, Grows
<1> QED BY <1>1, <1>2, <1>3 DEF Installed, Takes, Vouched

LEMMA OthersKeep ==
  ASSUME Grows, Types, NEW e \in Device, Local(e), Kept(e)
  PROVE  Local(e)'
<1>1. TaskTrue(e)'
  BY TaskKeeps DEF Local, Kept
<1>2. ActiveTrue(e)'
  BY DEF Local, Kept, ActiveTrue, Grows
<1>3. Requests(e)' /\ Staged(e)'
  BY RequestsKeep, StagedKeeps DEF Local, Kept
<1>4. Installed(e)'
  BY InstalledKeeps DEF Local, Kept
<1> QED BY <1>1, <1>2, <1>3, <1>4 DEF Local

\* Everything that device d does, but for meeting another.
Turn(d) ==
  \/ Show(d) \/ Refused(d) \/ Confirm(d) \/ Cancel(d) \/ LateMail(d) \/ Restart(d)
  \/ \E id \in Sessions : Scan(d, id)
  \/ StageRecord(d) \/ Install(d) \/ CleanStage(d) \/ Cancelled(d)
  \/ Confirmed(d) \/ BothConfirmed(d) \/ Snapshot(d) \/ SendRecord(d) \/ Receive(d)
  \/ SendInstalled(d) \/ SourceDone(d) \/ Fail(d) \/ Dropped(d)

LEMMA NextIsTurn == Next <=> \E d \in Device : Turn(d) \/ \E p \in Device : Meet(d, p)
BY DEF Next, Turn

LEMMA MineOnly ==
  ASSUME Types, NEW d \in Device, Turn(d), NEW e \in Device, e # d
  PROVE  Kept(e)
<1> USE DEF stores, memory, history, Types, Kept
<1>1. ASSUME NEW id, NEW phase, Begins(d, id, phase) PROVE Kept(e)
  BY <1>1 DEF Begins
<1>2. CASE Show(d) \/ \E id \in Sessions : Scan(d, id)
  BY <1>1, <1>2 DEF Show, Scan
<1>3. CASE Refused(d) \/ Confirm(d) \/ LateMail(d) \/ Restart(d)
  BY <1>3 DEF Refused, Confirm, LateMail, Restart
<1>4. CASE Cancel(d)
  BY <1>4 DEF Cancel, InPhase
<1>5. CASE StageRecord(d)
  <2>1. UNCHANGED <<account, log, active, epoch, via>>
    BY <1>5 DEF StageRecord
  <2>2. stage'[e] = stage[e]
    BY <1>5 DEF StageRecord
  <2>3. PICK id, ok : Answer(d, id, "receive", ok)
    BY <1>5 DEF StageRecord
  <2>4. task'[e] = task[e] /\ queue'[e] = queue[e]
    BY <2>3 DEF Answer
  <2> QED BY <2>1, <2>2, <2>4
<1>6. CASE Install(d)
  <2>1. UNCHANGED <<active, epoch>>
    BY <1>6 DEF Install
  <2>2. stage'[e] = stage[e] /\ account'[e] = account[e] /\ log'[e] = log[e] /\ via'[e] = via[e]
    BY <1>6 DEF Install
  <2>3. PICK id, ok : Answer(d, id, "installed", ok)
    BY <1>6 DEF Install
  <2>4. task'[e] = task[e] /\ queue'[e] = queue[e]
    BY <2>3 DEF Answer
  <2> QED BY <2>1, <2>2, <2>4
<1>7. CASE CleanStage(d)
  BY <1>7 DEF CleanStage
<1>8. CASE Cancelled(d)
  BY <1>8 DEF Cancelled, InPhase
<1>9. CASE Confirmed(d) \/ BothConfirmed(d) \/ Snapshot(d)
  BY <1>9 DEF Confirmed, BothConfirmed, Snapshot, InPhase
<1>10. CASE SendRecord(d)
  BY <1>10 DEF SendRecord, InPhase
<1>11. CASE Receive(d)
  BY <1>11 DEF Receive, InPhase
<1>12. CASE SendInstalled(d)
  BY <1>12 DEF SendInstalled
<1>13. CASE SourceDone(d) \/ Fail(d) \/ Dropped(d)
  BY <1>13 DEF SourceDone, Fail, Dropped, Ends
<1> QED
  BY <1>2, <1>3, <1>4, <1>5, <1>6, <1>7, <1>8, <1>9, <1>10, <1>11, <1>12, <1>13 DEF Turn

\* What is true of a task and does not depend on where it is.
LEMMA TaskGrows ==
  ASSUME Grows, Types, NEW d \in Device, TaskTrue(d), NEW t \in TaskRecord, t = task[d]
  PROVE  /\ t.identity # "none" => Vouched(d, t.id, t.identity)'
         /\ t.sending => Has(d)' /\ Gives(d, t.id)'
         /\ ~t.sending => Takes(d, t.id)'
         /\ t.id \in DOMAIN shown /\ shown'[t.id] = shown[t.id]
         /\ t.sending /\ t.n # 0 => t.id \in DOMAIN snaps' /\ t.records = 1 + snaps'[t.id]
         /\ t.ok => <<d, t.id>> \in agreed'
         /\ t.records <= 1 + MaxLog
<1>1. task[d] # None
  BY NoneIs
<1>3. t.identity # "none" => Vouched(d, t.id, t.identity)'
  BY <1>1, VouchedStays DEF TaskTrue
<1>4. t.id \in DOMAIN shown
  BY <1>1 DEF TaskTrue, Gives, Takes
<1>5. (t.sending => Has(d)' /\ Gives(d, t.id)') /\ (~t.sending => Takes(d, t.id)')
  BY <1>1, <1>4 DEF TaskTrue, Gives, Takes, Grows, Has
<1>6. shown'[t.id] = shown[t.id]
  BY <1>4 DEF Grows
<1>7. t.sending /\ t.n # 0 => t.id \in DOMAIN snaps' /\ t.records = 1 + snaps'[t.id]
  BY <1>1 DEF TaskTrue, Grows
<1>8. t.ok => <<d, t.id>> \in agreed'
  BY <1>1 DEF TaskTrue, Grows
<1> QED BY <1>1, <1>3, <1>4, <1>5, <1>6, <1>7, <1>8 DEF TaskTrue

\* The next frame of a task that receives.
LEMMA Incoming ==
  ASSUME PairingInv, NEW d \in Device, At(d, "receive"), inbox[d] # << >>,
         NEW t \in TaskRecord, t = task[d], NEW f, f = Head(inbox[d])
  PROVE  /\ t.identity = "none" => f.op = "link" /\ Vouched(d, t.id, f.identity) /\ t.n = 0
         /\ t.identity # "none" =>
              /\ f.op \in {"record", "end"}
              /\ f.op = "record" => /\ t.id \in DOMAIN snaps /\ t.n <= snaps[t.id]
                                    /\ t.n = 0 => f.messages = snaps[t.id]
<1>1. Types /\ TaskTrue(d) /\ t.phase = "receive" /\ task[d] # None /\ t.n \in Nat
  BY DEF PairingInv, Local, At, TaskRecord
<1>2. ~t.sending /\ Beyond(d)
  BY <1>1 DEF TaskTrue, Beyond, Live
<1>3. StreamOf(d)
  BY <1>2 DEF PairingInv, Stream
<1>4. 1 \in DOMAIN inbox[d] /\ inbox[d][1] = f
  BY <1>1 DEF Types
<1>5. FrameIn(d, t.id, ReadBy(t) + 1, f)
  BY <1>3, <1>4 DEF StreamOf
<1>6. CASE t.identity = "none"
  <2>1. ReadBy(t) = 1
    BY <1>1, <1>6 DEF ReadBy
  <2>2. t.n = 0
    BY <1>1, <1>6 DEF TaskTrue
  <2> QED BY <1>5, <1>6, <2>1, <2>2 DEF FrameIn
<1>7. CASE t.identity # "none"
  <2>1. ReadBy(t) = 2 + t.n
    BY <1>1, <1>7 DEF ReadBy
  <2>2. PICK k \in Nat : k = 3 + t.n
    BY <1>1
  <2>3. FrameIn(d, t.id, k, f) /\ k >= 3 /\ k - 3 = t.n
    BY <1>1, <1>5, <2>1, <2>2
  <2> QED BY <1>1, <1>7, <2>2, <2>3 DEF FrameIn
<1> QED BY <1>6, <1>7

-----------------------------------------------------------------------------
(* Tasks                                                                   *)

\* A task of the session at hand, in phase, with the records that are left.
LEMMA Fits ==
  ASSUME NEW d \in Device, NEW u, task'[d] = u,
         active'[d] # None => u.id = active'[d].id /\ u.sending = active'[d].sending,
         u.phase # "aborted" => active'[d] # None /\ active'[d].epoch = epoch'[d],
         u.phase = "aborted" /\ active'[d] # None => active'[d].epoch < epoch'[d],
         u.ok => <<d, u.id>> \in agreed',
         u.phase \notin {"listen", "connect", "verify", "aborted"} => u.ok,
         u.sending => Has(d)' /\ Gives(d, u.id)',
         ~u.sending => Takes(d, u.id)',
         u.phase = "listen" => shown'[u.id].by = d,
         u.phase = "connect" => shown'[u.id].by # d,
         u.phase \in {"listen", "connect", "verify", "wait"} => u.n = 0 /\ u.identity = "none",
         u.phase \in {"send", "ack"} => u.sending,
         u.phase \in {"receive", "staging", "installing", "installed"} => ~u.sending,
         u.phase \in {"staging", "installing"} => u.identity # "none",
         u.phase = "receive" /\ u.identity = "none" => u.n = 0,
         u.identity # "none" => Vouched(d, u.id, u.identity)',
         u.records <= 1 + MaxLog,
         u.sending /\ u.n # 0 => u.id \in DOMAIN snaps' /\ u.records = 1 + snaps'[u.id],
         u.phase = "installed" => via'[d] = u.id
  PROVE  TaskTrue(d)'
<1> HIDE DEF Vouched, Gives, Takes, Has
<1> QED BY DEF TaskTrue

LEMMA TaskBegins ==
  ASSUME Types, NEW d \in Device, NEW id \in Sessions, NEW phase \in {"listen", "connect"},
         Begins(d, id, phase), id \in DOMAIN shown', shown'[id].offer = (IF phase = "listen" THEN Has(d) ELSE ~Has(d)),
         (shown'[id].by = d) <=> phase = "listen"
  PROVE  TaskTrue(d)'
<1>1. PICK s \in BOOLEAN : s = Has(d)
  BY DEF Has
<1>2. PICK k : k = epoch[d]
  OBVIOUS
<1> DEFINE u == [id |-> id, phase |-> phase, sending |-> s, ok |-> FALSE, n |-> 0,
                 records |-> 0, identity |-> "none"]
<1>3. task'[d] = u
  BY <1>1 DEF Begins, Types
<1>4. active'[d] = [id |-> id, epoch |-> k, sending |-> s, control |-> TRUE] /\ epoch'[d] = k
  BY <1>1, <1>2 DEF Begins, Types
<1>5. s => Has(d)' /\ Gives(d, id)'
  BY <1>1, Zenon DEF Has, Gives, Begins
<1>6. ~s => Takes(d, id)'
  BY <1>1, Zenon DEF Takes
<1>7. 0 <= 1 + MaxLog
  BY PairingAssumption
<1>8. u.id = id /\ u.phase = phase /\ u.sending = s /\ u.ok = FALSE /\ u.n = 0 /\ u.records = 0 /\ u.identity = "none"
  OBVIOUS
<1> HIDE DEF u
<1>9. phase = "listen" => shown'[u.id].by = d
  BY <1>8
<1>10. phase = "connect" => shown'[u.id].by # d
  BY <1>8
<1>11. active'[d] # None /\ active'[d].id = u.id /\ active'[d].epoch = epoch'[d]
  BY <1>4, <1>8 DEF None
<1>12. u.sending = active'[d].sending
  BY <1>4, <1>8
<1> QED BY <1>3, <1>5, <1>6, <1>7, <1>8, <1>9, <1>10, <1>11, <1>12, Fits

\* A phase change.
LEMMA TaskMoves ==
  ASSUME Grows, Types, NEW d \in Device, TaskTrue(d), NEW t \in TaskRecord, t = task[d],
         active'[d] = active[d], epoch'[d] = epoch[d], NEW u \in TaskRecord, task'[d] = u, t.phase # "aborted",
         u.id = t.id, u.sending = t.sending, u.ok = t.ok, u.ok,
         u.phase \in {"wait", "send", "ack", "receive", "staging", "installing", "installed"},
         u.identity # "none" => Vouched(d, u.id, u.identity)',
         u.phase = "wait" => u.n = 0 /\ u.identity = "none",
         u.phase \in {"send", "ack"} => u.sending,
         u.phase \in {"receive", "staging", "installing", "installed"} => ~u.sending,
         u.phase \in {"staging", "installing"} => u.identity # "none",
         u.phase = "receive" /\ u.identity = "none" => u.n = 0,
         u.sending /\ u.n # 0 => u.id \in DOMAIN snaps' /\ u.records = 1 + snaps'[u.id],
         u.records = t.records,
         u.phase = "installed" => via'[d] = u.id
  PROVE  TaskTrue(d)'
<1>1. /\ t.sending => Has(d)' /\ Gives(d, t.id)'
      /\ ~t.sending => Takes(d, t.id)'
      /\ t.ok => <<d, t.id>> \in agreed'
      /\ t.records <= 1 + MaxLog
  BY TaskGrows
<1>2. task[d] # None
  BY NoneIs
<1>3. active[d] # None => t.id = active[d].id /\ t.sending = active[d].sending
  BY <1>2 DEF TaskTrue
<1>4. active[d] # None /\ active[d].epoch = epoch[d]
  BY <1>2 DEF TaskTrue
<1> QED BY <1>1, <1>3, <1>4, Fits

\* What a command to the core that is asked for was.
LEMMA Received ==
  ASSUME PairingInv, NEW d \in Device, NEW id, ValidReceiver(d, id), NEW i \in DOMAIN queue[d],
         queue[d][i].op \in {"stage", "install"}, queue[d][i].id = id
  PROVE  /\ task[d] # None /\ task[d].id = id /\ id \in Sessions /\ ~task[d].sending
         /\ task[d].phase = (IF queue[d][i].op = "stage" THEN "staging" ELSE "installing")
         /\ queue[d][i].op = "stage" => task[d].n = queue[d][i].seq
         /\ active[d] # None /\ active[d].id = id /\ active[d].epoch = epoch[d] /\ <<d, id>> \in agreed
<1>1. task[d] # None /\ task[d].id = id /\ active[d] # None /\ active[d].id = id /\ active[d].epoch = epoch[d]
  BY DEF ValidReceiver, On
<1>2. TaskTrue(d) /\ ActiveTrue(d) /\ Requests(d) /\ task[d] \in TaskRecord
  BY <1>1 DEF PairingInv, Local, Types
<1>3. epoch[d] \in Nat
  BY PairingAssumption DEF PairingInv, Types
<1>4. task[d].phase # "aborted"
  BY <1>1, <1>2, <1>3 DEF TaskTrue
<1>5. /\ queue[d][i].op = "stage" => task[d].phase \in {"aborted", "staging"} /\ task[d].n = queue[d][i].seq
      /\ queue[d][i].op = "install" => task[d].phase \in {"aborted", "installing"}
  BY <1>1, <1>2 DEF Requests, Asks
<1>6. task[d].phase = (IF queue[d][i].op = "stage" THEN "staging" ELSE "installing")
  BY <1>4, <1>5
<1>7. ~task[d].sending
  BY <1>1, <1>2, <1>6 DEF TaskTrue
<1>8. <<d, id>> \in agreed
  BY <1>1, <1>2 DEF ActiveTrue, ValidReceiver
<1>9. id \in Sessions
  BY <1>1, <1>2 DEF TaskRecord
<1> QED BY <1>1, <1>5, <1>6, <1>7, <1>8, <1>9

LEMMA HeadIs ==
  ASSUME Types, NEW d \in Device, queue[d] # << >>
  PROVE  1 \in DOMAIN queue[d] /\ Head(queue[d]) = queue[d][1] /\ Head(queue[d]) \in Order
BY DEF Types

LEMMA TaskOfStaged ==
  ASSUME PairingInv, Grows, NEW d \in Device, StageRecord(d)
  PROVE  TaskTrue(d)'
<1>1. PICK c : c = Head(queue[d])
  OBVIOUS
<1>2. PICK ok \in BOOLEAN : ok = (ValidReceiver(d, c.id) /\ Len(stage[d][c.id]) = c.seq)
  BY DEF ValidReceiver
<1>3. Answer(d, c.id, "receive", ok) /\ active' = active /\ epoch' = epoch /\ account' = account /\ via' = via
  BY <1>1, <1>2 DEF StageRecord, history
<1>4. Types /\ TaskTrue(d)
  BY DEF PairingInv, Local
<1>5. CASE ok
  <2>1. queue[d] # << >> /\ c.op = "stage"
    BY <1>1 DEF StageRecord
  <2>2. /\ task[d] # None /\ ~task[d].sending /\ task[d].phase = "staging"
    <3>1. 1 \in DOMAIN queue[d] /\ queue[d][1] = c
      BY <1>1, <1>4, <2>1, HeadIs
    <3>2. ValidReceiver(d, c.id)
      BY <1>2, <1>5
    <3>3. queue[d][1].op = c.op /\ queue[d][1].id = c.id
      BY <3>1
    <3> QED BY <2>1, <3>1, <3>2, <3>3, Received
  <2>3. PICK t \in TaskRecord : t = task[d]
    BY <1>4, <2>2 DEF Types
  <2>4. PICK u : u = [t EXCEPT !.phase = "receive", !.n = t.n + 1]
    OBVIOUS
  <2>5. task'[d] = u
    BY <1>3, <1>4, <1>5, <2>3, <2>4 DEF Answer, Types
  <2>6. u \in TaskRecord /\ u.id = t.id /\ u.sending = t.sending /\ u.ok = t.ok /\ u.phase = "receive"
        /\ u.identity = t.identity /\ u.records = t.records
    <3>1. PICK n \in Nat : n = t.n + 1
      BY DEF TaskRecord
    <3>2. PICK phase \in TaskPhase : phase = "receive"
      BY DEF TaskPhase
    <3>3. u = [t EXCEPT !.phase = phase, !.n = n]
      BY <2>4, <3>1, <3>2
    <3>4. u \in TaskRecord
      BY <3>3 DEF TaskRecord
    <3>5. u.id = t.id /\ u.phase = phase /\ u.n = n /\ u.records = t.records /\ u.identity = t.identity
      BY <3>3 DEF TaskRecord
    <3>6. u.sending = t.sending /\ u.ok = t.ok
      BY <3>3 DEF TaskRecord
    <3> QED BY <3>2, <3>4, <3>5, <3>6
  <2>7. t.ok /\ t.identity # "none"
    BY <1>4, <2>2, <2>3 DEF TaskTrue
  <2>8. Vouched(d, t.id, t.identity)'
    BY <1>4, <2>3, <2>7, TaskGrows
  <2>9. ~u.sending /\ u.ok /\ t.phase # "aborted" /\ (u.identity # "none" => Vouched(d, u.id, u.identity)')
    BY <2>2, <2>3, <2>6, <2>7, <2>8
  <2> HIDE DEF Vouched
  <2> QED BY <1>3, <1>4, <2>3, <2>5, <2>6, <2>7, <2>9, TaskMoves
<1>6. CASE ~ok
  <2>1. task'[d] = None \/ task' = task
    BY <1>3, <1>4, <1>6 DEF Answer, Types
  <2>2. CASE task'[d] = None
    BY <2>2 DEF TaskTrue
  <2>3. CASE task' = task
    BY <1>3, <1>4, <2>3, TaskKeeps
  <2> QED BY <2>1, <2>2, <2>3
<1> QED BY <1>5, <1>6

LEMMA TaskOfInstall ==
  ASSUME PairingInv, Grows, NEW d \in Device, Install(d)
  PROVE  TaskTrue(d)'
<1>1. PICK c : c = Head(queue[d])
  OBVIOUS
<1>2. PICK ok \in BOOLEAN : ok = (ValidReceiver(d, c.id) /\ ~Has(d) /\ WholeHistory(stage[d][c.id]))
  BY DEF ValidReceiver
<1>3. /\ Answer(d, c.id, "installed", ok) /\ active' = active /\ epoch' = epoch
      /\ ok => via' = [via EXCEPT ![d] = c.id]
      /\ ~ok => account' = account /\ via' = via
  BY <1>1, <1>2 DEF Install, stores
<1>4. Types /\ TaskTrue(d)
  BY DEF PairingInv, Local
<1>5. CASE ok
  <2>1. queue[d] # << >> /\ c.op = "install"
    BY <1>1 DEF Install
  <2>2. /\ task[d] # None /\ ~task[d].sending /\ task[d].phase = "installing" /\ task[d].id = c.id
    <3>1. 1 \in DOMAIN queue[d] /\ queue[d][1] = c
      BY <1>1, <1>4, <2>1, HeadIs
    <3>2. ValidReceiver(d, c.id)
      BY <1>2, <1>5
    <3>3. queue[d][1].op = c.op /\ queue[d][1].id = c.id
      BY <3>1
    <3> QED BY <2>1, <3>1, <3>2, <3>3, Received
  <2>3. PICK t \in TaskRecord : t = task[d]
    BY <1>4, <2>2 DEF Types
  <2>4. PICK u : u = [t EXCEPT !.phase = "installed", !.n = t.n + 1]
    OBVIOUS
  <2>5. task'[d] = u
    BY <1>3, <1>4, <1>5, <2>3, <2>4 DEF Answer, Types
  <2>6. u \in TaskRecord /\ u.id = t.id /\ u.sending = t.sending /\ u.ok = t.ok /\ u.phase = "installed"
        /\ u.identity = t.identity /\ u.records = t.records
    <3>1. PICK n \in Nat : n = t.n + 1
      BY DEF TaskRecord
    <3>2. PICK phase \in TaskPhase : phase = "installed"
      BY DEF TaskPhase
    <3>3. u = [t EXCEPT !.phase = phase, !.n = n]
      BY <2>4, <3>1, <3>2
    <3>4. u \in TaskRecord
      BY <3>3 DEF TaskRecord
    <3>5. u.id = t.id /\ u.phase = phase /\ u.n = n /\ u.records = t.records /\ u.identity = t.identity
      BY <3>3 DEF TaskRecord
    <3>6. u.sending = t.sending /\ u.ok = t.ok
      BY <3>3 DEF TaskRecord
    <3> QED BY <3>2, <3>4, <3>5, <3>6
  <2>7. t.ok /\ t.identity # "none"
    BY <1>4, <2>2, <2>3 DEF TaskTrue
  <2>8. Vouched(d, t.id, t.identity)'
    BY <1>4, <2>3, <2>7, TaskGrows
  <2>9. ~u.sending /\ u.ok /\ t.phase # "aborted" /\ (u.identity # "none" => Vouched(d, u.id, u.identity)')
    BY <2>2, <2>3, <2>6, <2>7, <2>8
  <2>10. via'[d] = u.id
    BY <1>3, <1>4, <1>5, <2>2, <2>3, <2>6 DEF Types
  <2> HIDE DEF Vouched
  <2> QED BY <1>3, <1>4, <2>3, <2>5, <2>6, <2>7, <2>9, <2>10, TaskMoves
<1>6. CASE ~ok
  <2>1. task'[d] = None \/ task' = task
    BY <1>3, <1>4, <1>6 DEF Answer, Types
  <2>2. CASE task'[d] = None
    BY <2>2 DEF TaskTrue
  <2>3. CASE task' = task
    BY <1>3, <1>4, <1>6, <2>3, TaskKeeps
  <2> QED BY <2>1, <2>2, <2>3
<1> QED BY <1>5, <1>6

\* A task in another phase is otherwise as it was.
Alike(u, t) == /\ u.id = t.id /\ u.sending = t.sending /\ u.ok = t.ok
               /\ u.records = t.records

LEMMA Moved ==
  ASSUME Types, NEW d \in Device, NEW t \in TaskRecord, t = task[d], NEW phase \in TaskPhase,
         task' = InPhase(d, phase)
  PROVE  \E u \in TaskRecord :
           /\ task'[d] = u /\ Alike(u, t) /\ u.phase = phase /\ u.n = t.n /\ u.identity = t.identity
<1>1. PICK u : u = [t EXCEPT !.phase = phase]
  OBVIOUS
<1>2. task'[d] = u
  BY <1>1 DEF InPhase, Types
<1>3. u \in TaskRecord
  BY <1>1 DEF TaskRecord
<1>4. u.id = t.id /\ u.records = t.records /\ u.phase = phase /\ u.n = t.n /\ u.identity = t.identity
  BY <1>1 DEF TaskRecord
<1>5. u.sending = t.sending /\ u.ok = t.ok
  BY <1>1 DEF TaskRecord
<1> QED BY <1>2, <1>3, <1>4, <1>5 DEF Alike

LEMMA TaskOfUser ==
  ASSUME PairingInv, Grows, NEW d \in Device,
         \/ Show(d) \/ Refused(d) \/ Confirm(d) \/ Cancel(d) \/ LateMail(d) \/ Restart(d)
         \/ \E id \in Sessions : Scan(d, id)
  PROVE  TaskTrue(d)'
<1> USE DEF stores, memory, history
<1>0. Types /\ TaskTrue(d) /\ ActiveTrue(d)
  BY DEF PairingInv, Local
<1>1. CASE Show(d)
  <2>1. PICK id \in Sessions \ DOMAIN shown :
          shown' = Put(shown, id, [by |-> d, offer |-> Has(d)]) /\ Begins(d, id, "listen")
    BY <1>1 DEF Show
  <2>2. id \in DOMAIN shown' /\ shown'[id] = [by |-> d, offer |-> Has(d)]
    BY <2>1 DEF Put
  <2>3. shown'[id].offer = Has(d) /\ shown'[id].by = d
    BY <2>2
  <2> QED BY <1>0, <2>1, <2>2, <2>3, TaskBegins
<1>2. ASSUME NEW id \in Sessions, Scan(d, id) PROVE TaskTrue(d)'
  <2>1. Begins(d, id, "connect") /\ shown' = shown /\ id \in DOMAIN shown
        /\ shown[id].by # d /\ shown[id].offer = ~Has(d)
    BY <1>2 DEF Scan
  <2> QED BY <1>0, <2>1, TaskBegins
<1>3. CASE Refused(d)
  BY <1>0, <1>3, TaskKeeps DEF Refused
<1>4. CASE LateMail(d)
  BY <1>0, <1>4, TaskKeeps DEF LateMail
<1>5. CASE Restart(d)
  <2>1. task'[d] = None
    BY <1>0, <1>5 DEF Restart, Types
  <2> QED BY <2>1 DEF TaskTrue
<1>6. CASE Confirm(d)
  <2>1. PICK t \in TaskRecord : t = task[d]
    BY <1>0, <1>6 DEF Confirm, Types
  <2>2. PICK a \in ActiveRecord : a = active[d]
    BY <1>0, <1>6 DEF Confirm, Types
  <2>3. PICK u, b : u = [t EXCEPT !.ok = TRUE] /\ b = [a EXCEPT !.control = FALSE]
    OBVIOUS
  <2>4. task'[d] = u /\ active'[d] = b /\ epoch' = epoch
    BY <1>0, <1>6, <2>1, <2>2, <2>3 DEF Confirm, Types
  <2>5. u.id = t.id /\ u.records = t.records /\ u.phase = t.phase /\ u.n = t.n /\ u.identity = t.identity
    BY <2>3 DEF TaskRecord
  <2>6. u.sending = t.sending /\ u.ok
    BY <2>3 DEF TaskRecord
  <2>7. b.id = a.id /\ b.epoch = a.epoch /\ b # None
    BY <2>3 DEF ActiveRecord, None
  <2>8. b.sending = a.sending
    BY <2>3 DEF ActiveRecord
  <2>9. t.id = a.id /\ <<d, a.id>> \in agreed' /\ task[d] # None /\ active[d] # None
    BY <1>6, <2>1, <2>2 DEF Confirm, On
  <2>10. via' = via /\ shown' = shown /\ snaps' = snaps
    BY <1>6 DEF Confirm
  <2>11. /\ t.identity # "none" => Vouched(d, t.id, t.identity)'
         /\ t.sending => Has(d)' /\ Gives(d, t.id)'
         /\ ~t.sending => Takes(d, t.id)'
         /\ t.records <= 1 + MaxLog
    BY <1>0, <2>1, TaskGrows
  <2>12. /\ t.id = a.id /\ t.sending = a.sending
         /\ t.phase # "aborted" => a.epoch = epoch[d]
         /\ t.phase = "aborted" => a.epoch < epoch[d]
         /\ t.phase = "listen" => shown[t.id].by = d
         /\ t.phase = "connect" => shown[t.id].by # d
         /\ t.phase \in {"listen", "connect", "verify", "wait"} => t.n = 0 /\ t.identity = "none"
         /\ t.phase \in {"send", "ack"} => t.sending
         /\ t.phase \in {"receive", "staging", "installing", "installed"} => ~t.sending
         /\ t.phase \in {"staging", "installing"} => t.identity # "none"
         /\ t.phase = "receive" /\ t.identity = "none" => t.n = 0
         /\ t.sending /\ t.n # 0 => t.id \in DOMAIN snaps /\ t.records = 1 + snaps[t.id]
         /\ t.phase = "installed" => via[d] = t.id
    BY <1>0, <2>1, <2>2, <2>9 DEF TaskTrue
  <2> HIDE DEF Vouched, Gives, Takes, Has
  <2>13. b.epoch = a.epoch /\ epoch'[d] = epoch[d] /\ u.id = b.id /\ u.sending = b.sending
    BY <2>4, <2>5, <2>6, <2>7, <2>8, <2>12
  <2> QED BY <2>4, <2>5, <2>6, <2>7, <2>9, <2>10, <2>11, <2>12, <2>13, Fits
<1>7. CASE Cancel(d)
  <2>1. active' = active /\ epoch' = [epoch EXCEPT ![d] = @ + 1] /\ via' = via /\ account' = account
    BY <1>7 DEF Cancel
  <2>2. epoch[d] \in Nat /\ epoch'[d] = epoch[d] + 1
    BY <1>0, <2>1, PairingAssumption DEF Types
  <2>3. CASE task[d] = None
    <3>1. task'[d] = None
      BY <1>0, <1>7, <2>3 DEF Cancel, Live, Types
    <3> QED BY <3>1 DEF TaskTrue
  <2>4. CASE task[d] # None
    <3>1. PICK t \in TaskRecord : t = task[d]
      BY <1>0, <2>4 DEF Types
    <3>2. PICK u \in TaskRecord : /\ task'[d] = u /\ Alike(u, t) /\ u.phase = "aborted"
                                  /\ u.n = t.n /\ u.identity = t.identity
      <4>1. CASE Live(d)
        <5>1. task' = InPhase(d, "aborted") /\ "aborted" \in TaskPhase
          BY <1>7, <4>1 DEF Cancel, TaskPhase
        <5> QED BY <1>0, <3>1, <5>1, Moved
      <4>2. CASE ~Live(d)
        <5>1. task'[d] = t /\ t.phase = "aborted"
          BY <1>7, <2>4, <3>1, <4>2 DEF Cancel, Live
        <5> QED BY <5>1 DEF Alike
      <4> QED BY <4>1, <4>2
    <3>3. active[d] # None => active[d].epoch <= epoch[d] /\ active[d].epoch \in Nat
      BY <1>0 DEF ActiveTrue, Types, ActiveRecord
    <3>4. active[d] # None => active[d].epoch < epoch'[d]
      BY <2>2, <3>3
    <3>5. active[d] # None => t.id = active[d].id /\ t.sending = active[d].sending
      BY <1>0, <2>4, <3>1 DEF TaskTrue
    <3>6. /\ t.identity # "none" => Vouched(d, t.id, t.identity)'
          /\ t.sending => Has(d)' /\ Gives(d, t.id)'
          /\ ~t.sending => Takes(d, t.id)'
          /\ t.sending /\ t.n # 0 => t.id \in DOMAIN snaps' /\ t.records = 1 + snaps'[t.id]
          /\ t.ok => <<d, t.id>> \in agreed'
          /\ t.records <= 1 + MaxLog
      BY <1>0, <3>1, TaskGrows
    <3> HIDE DEF Vouched, Gives, Takes, Has
    <3> QED BY <2>1, <3>2, <3>4, <3>5, <3>6, Fits DEF Alike
  <2> QED BY <2>3, <2>4
<1> QED BY <1>1, <1>2, <1>3, <1>4, <1>5, <1>6, <1>7

LEMMA TaskOfCore ==
  ASSUME PairingInv, Grows, NEW d \in Device, CleanStage(d) \/ Cancelled(d)
  PROVE  TaskTrue(d)'
<1> USE DEF stores, memory, history
<1>0. Types /\ TaskTrue(d)
  BY DEF PairingInv, Local
<1>1. CASE CleanStage(d)
  BY <1>0, <1>1, TaskKeeps DEF CleanStage
<1>2. CASE Cancelled(d)
  <2>1. active'[d] = None /\ via' = via
    BY <1>0, <1>2 DEF Cancelled, Types
  <2>2. CASE task[d] = None
    <3>1. task'[d] = None
      BY <1>0, <1>2, <2>2 DEF Cancelled, Live, Types
    <3> QED BY <3>1 DEF TaskTrue
  <2>3. CASE task[d] # None
    <3>1. PICK t \in TaskRecord : t = task[d]
      BY <1>0, <2>3 DEF Types
    <3>2. PICK u \in TaskRecord : /\ task'[d] = u /\ Alike(u, t) /\ u.phase = "aborted"
                                  /\ u.n = t.n /\ u.identity = t.identity
      <4>1. CASE Live(d)
        <5>1. task' = InPhase(d, "aborted") /\ "aborted" \in TaskPhase
          BY <1>2, <4>1 DEF Cancelled, TaskPhase
        <5> QED BY <1>0, <3>1, <5>1, Moved
      <4>2. CASE ~Live(d)
        <5>1. task'[d] = t /\ t.phase = "aborted"
          BY <1>2, <2>3, <3>1, <4>2 DEF Cancelled, Live
        <5> QED BY <5>1 DEF Alike
      <4> QED BY <4>1, <4>2
    <3>6. /\ t.identity # "none" => Vouched(d, t.id, t.identity)'
          /\ t.sending => Has(d)' /\ Gives(d, t.id)'
          /\ ~t.sending => Takes(d, t.id)'
          /\ t.sending /\ t.n # 0 => t.id \in DOMAIN snaps' /\ t.records = 1 + snaps'[t.id]
          /\ t.ok => <<d, t.id>> \in agreed'
          /\ t.records <= 1 + MaxLog
      BY <1>0, <3>1, TaskGrows
    <3> HIDE DEF Vouched, Gives, Takes, Has
    <3> QED BY <2>1, <3>2, <3>6, Fits DEF Alike
  <2> QED BY <2>2, <2>3
<1> QED BY <1>1, <1>2

LEMMA TaskOfTask ==
  ASSUME PairingInv, Grows, NEW d \in Device,
         \/ Confirmed(d) \/ BothConfirmed(d) \/ Snapshot(d) \/ SendRecord(d) \/ Receive(d)
         \/ SendInstalled(d) \/ SourceDone(d) \/ Fail(d) \/ Dropped(d)
  PROVE  TaskTrue(d)'
<1> USE DEF stores, memory, history
<1>0. Types /\ TaskTrue(d)
  BY DEF PairingInv, Local
<1>1. CASE SendInstalled(d) \/ SourceDone(d) \/ Fail(d) \/ Dropped(d)
  <2>1. task'[d] = None
    BY <1>0, <1>1 DEF SendInstalled, SourceDone, Fail, Dropped, Ends, Types
  <2> QED BY <2>1 DEF TaskTrue
<1>2. CASE ~(SendInstalled(d) \/ SourceDone(d) \/ Fail(d) \/ Dropped(d))
  <2>0. /\ task[d] # None /\ task[d].phase # "aborted"
        /\ active' = active /\ epoch' = epoch /\ via' = via
    BY <1>2 DEF Confirmed, BothConfirmed, Snapshot, SendRecord, Receive, At, Live
  <2>1. PICK t \in TaskRecord : t = task[d]
    BY <1>0, <2>0 DEF Types
  <2>2. /\ t.identity # "none" => Vouched(d, t.id, t.identity)'
        /\ t.sending => Has(d)' /\ Gives(d, t.id)'
        /\ ~t.sending => Takes(d, t.id)'
        /\ t.id \in DOMAIN shown /\ shown'[t.id] = shown[t.id]
        /\ t.sending /\ t.n # 0 => t.id \in DOMAIN snaps' /\ t.records = 1 + snaps'[t.id]
        /\ t.ok => <<d, t.id>> \in agreed'
        /\ t.records <= 1 + MaxLog
    BY <1>0, <2>1, TaskGrows
  <2>3. /\ active[d] # None /\ active[d].epoch = epoch[d]
        /\ t.id = active[d].id /\ t.sending = active[d].sending
        /\ t.phase \notin {"listen", "connect", "verify", "aborted"} => t.ok
        /\ t.phase = "listen" => shown[t.id].by = d
        /\ t.phase = "connect" => shown[t.id].by # d
        /\ t.phase \in {"listen", "connect", "verify", "wait"} => t.n = 0 /\ t.identity = "none"
        /\ t.phase \in {"send", "ack"} => t.sending
        /\ t.phase \in {"receive", "staging", "installing", "installed"} => ~t.sending
        /\ t.phase \in {"staging", "installing"} => t.identity # "none"
        /\ t.phase = "receive" /\ t.identity = "none" => t.n = 0
        /\ t.phase = "installed" => via[d] = t.id
    BY <1>0, <2>0, <2>1 DEF TaskTrue
  <2> HIDE DEF Vouched, Gives, Takes, Has
  <2>4. CASE Confirmed(d)
    <3>1. task' = InPhase(d, "wait") /\ "wait" \in TaskPhase /\ t.phase = "verify" /\ t.ok
      BY <2>1, <2>4 DEF Confirmed, At, TaskPhase
    <3>2. PICK u \in TaskRecord : /\ task'[d] = u /\ Alike(u, t) /\ u.phase = "wait"
                                  /\ u.n = t.n /\ u.identity = t.identity
      BY <1>0, <2>1, <3>1, Moved
    <3> QED BY <1>0, <2>0, <2>1, <2>2, <2>3, <3>1, <3>2, TaskMoves, ZenonT(60) DEF Alike
  <2>5. CASE BothConfirmed(d)
    <3>0. PICK phase \in TaskPhase : phase = IF t.sending THEN "send" ELSE "receive"
      BY DEF TaskPhase
    <3>1. task' = InPhase(d, phase) /\ t.phase = "wait"
      BY <2>1, <2>5, <3>0 DEF BothConfirmed, At
    <3>2. PICK u \in TaskRecord : /\ task'[d] = u /\ Alike(u, t) /\ u.phase = phase
                                  /\ u.n = t.n /\ u.identity = t.identity
      BY <1>0, <2>1, <3>1, Moved
    <3>3. u.phase \in {"send", "receive"} /\ (u.phase = "send" <=> u.sending)
      BY <3>0, <3>2 DEF Alike
    <3>4. u.id = t.id /\ u.sending = t.sending /\ u.ok = t.ok /\ u.records = t.records
      BY <3>2 DEF Alike
    <3> QED BY <1>0, <2>0, <2>1, <2>2, <2>3, <3>1, <3>2, <3>3, <3>4, TaskMoves
  <2>6. CASE Snapshot(d)
    <3>0. log[d] <= MaxLog /\ log[d] \in Nat
      BY <1>0, PairingAssumption DEF Types
    <3>1. t.records = 0 /\ t.sending
      BY <2>1, <2>6 DEF Snapshot
    <3>2. PICK u : u = [t EXCEPT !.records = 1 + log[d]]
      OBVIOUS
    <3>3. task'[d] = u
      BY <1>0, <2>1, <2>6, <3>2 DEF Snapshot, Types
    <3>4. u.id = t.id /\ u.records = 1 + log[d] /\ u.phase = t.phase /\ u.n = t.n /\ u.identity = t.identity
      BY <3>2 DEF TaskRecord
    <3>5. u.sending = t.sending /\ u.ok = t.ok
      BY <3>2 DEF TaskRecord
    <3>6. t.n = 0
      <4>1. t.n # 0 => t.records = 1 + snaps[t.id] /\ t.id \in DOMAIN snaps
        BY <1>0, <2>0, <2>1, <3>1 DEF TaskTrue
      <4>2. t.id \in DOMAIN snaps => snaps[t.id] \in Nat
        BY <1>0, PairingAssumption DEF Types
      <4> QED BY <3>1, <4>1, <4>2
    <3>7. u.records <= 1 + MaxLog
      BY <3>0, <3>4, PairingAssumption
    <3>8. u.identity # "none" => Vouched(d, u.id, u.identity)'
      BY <2>2, <3>4
    <3>9. /\ u.sending => Has(d)' /\ Gives(d, u.id)'
          /\ ~u.sending => Takes(d, u.id)'
      BY <2>2, <3>4, <3>5
    <3>10. /\ u.phase = "listen" => shown'[u.id].by = d
           /\ u.phase = "connect" => shown'[u.id].by # d
           /\ u.phase = "installed" => via'[d] = u.id
      BY <2>0, <2>2, <2>3, <3>4
    <3>11. /\ active'[d] # None /\ u.id = active'[d].id /\ active'[d].epoch = epoch'[d]
           /\ u.phase # "aborted" /\ u.n = 0
      BY <2>0, <2>1, <2>3, <3>4, <3>6
    <3>12. u.sending = active'[d].sending
      BY <2>0, <2>3, <3>5
    <3>13. u.ok => <<d, u.id>> \in agreed'
      BY <2>2, <3>4, <3>5
    <3>14. /\ u.phase \notin {"listen", "connect", "verify", "aborted"} => u.ok
           /\ u.phase \in {"listen", "connect", "verify", "wait"} => u.identity = "none"
           /\ u.phase \in {"send", "ack"} => u.sending
           /\ u.phase \in {"receive", "staging", "installing", "installed"} => ~u.sending
           /\ u.phase \in {"staging", "installing"} => u.identity # "none"
      BY <2>3, <3>4, <3>5
    <3> QED BY <3>3, <3>7, <3>8, <3>9, <3>10, <3>11, <3>12, <3>13, <3>14, Fits
  <2>7. CASE SendRecord(d)
    <3>1. t.phase = "send" /\ t.ok /\ t.sending /\ t.records # 0 /\ t.n \in Nat /\ t.records \in Nat
      BY <2>1, <2>3, <2>7 DEF SendRecord, At, TaskRecord
    <3>2. CASE task' = InPhase(d, "ack")
      <4>1. "ack" \in TaskPhase
        BY DEF TaskPhase
      <4>2. PICK u \in TaskRecord : /\ task'[d] = u /\ Alike(u, t) /\ u.phase = "ack"
                                    /\ u.n = t.n /\ u.identity = t.identity
        BY <1>0, <2>1, <3>2, <4>1, Moved
      <4> QED BY <1>0, <2>0, <2>1, <2>2, <2>3, <3>1, <4>2, TaskMoves, ZenonT(60) DEF Alike
    <3>3. CASE /\ task' = [task EXCEPT ![d].n = @ + 1]
               /\ snaps' = IF task[d].n = 0 THEN Put(snaps, task[d].id, task[d].records - 1) ELSE snaps
      <4>1. PICK u : u = [t EXCEPT !.n = t.n + 1]
        OBVIOUS
      <4>2. task'[d] = u
        BY <1>0, <2>1, <3>3, <4>1 DEF Types
      <4>3. u.id = t.id /\ u.records = t.records /\ u.phase = t.phase /\ u.n = t.n + 1 /\ u.identity = t.identity
        BY <4>1 DEF TaskRecord
      <4>4. u.sending = t.sending /\ u.ok = t.ok
        BY <4>1 DEF TaskRecord
      <4>5. t.id \in DOMAIN snaps' /\ t.records = 1 + snaps'[t.id]
        <5>1. CASE t.n = 0
          <6>1. t.id \in DOMAIN snaps' /\ snaps'[t.id] = t.records - 1
            BY <2>1, <3>3, <5>1 DEF Put
          <6> QED BY <3>1, <6>1
        <5>2. CASE t.n # 0
          BY <2>2, <3>1, <5>2
        <5> QED BY <5>1, <5>2
      <4>6. u \in TaskRecord
        BY <3>1, <4>1 DEF TaskRecord
      <4> QED BY <1>0, <2>0, <2>1, <2>2, <2>3, <3>1, <4>2, <4>3, <4>4, <4>5, <4>6, TaskMoves, ZenonT(60)
    <3> QED BY <2>7, <3>2, <3>3 DEF SendRecord
  <2>8. CASE Receive(d)
    <3>0. PICK f : f = Head(inbox[d])
      OBVIOUS
    <3>1. t.phase = "receive" /\ t.ok /\ ~t.sending
      BY <2>1, <2>3, <2>8 DEF Receive, At
    <3>2. /\ t.identity = "none" => f.op = "link" /\ Vouched(d, t.id, f.identity) /\ t.n = 0
          /\ t.identity # "none" => f.op \in {"record", "end"}
      BY <2>1, <2>8, <3>0, Incoming DEF Receive
    <3>3. CASE f.op = "link" /\ task' = [task EXCEPT ![d].identity = f.identity]
      <4>1. PICK u : u = [t EXCEPT !.identity = f.identity]
        OBVIOUS
      <4>2. task'[d] = u
        BY <1>0, <2>1, <3>3, <4>1 DEF Types
      <4>3. u.id = t.id /\ u.records = t.records /\ u.phase = t.phase /\ u.n = t.n /\ u.identity = f.identity
        BY <4>1 DEF TaskRecord
      <4>4. u.sending = t.sending /\ u.ok = t.ok
        BY <4>1 DEF TaskRecord
      <4>5. t.identity = "none"
        BY <3>2, <3>3
      <4>6. Vouched(d, t.id, f.identity)' /\ f.identity # "none"
        <5>1. PICK x : x = f.identity
          OBVIOUS
        <5>2. Vouched(d, t.id, x)
          BY <3>2, <4>5, <5>1
        <5>3. Vouched(d, t.id, x)' /\ x # "none"
          BY <5>2, VouchedStays DEF Vouched
        <5> QED BY <5>1, <5>3
      <4>7. u \in TaskRecord
        <5>1. f.identity \in Identity
          BY <1>0, <2>8, <3>0, <3>3, FrameIs DEF Receive, Types
        <5> QED BY <4>1, <5>1 DEF TaskRecord
      <4>8. u.identity # "none" => Vouched(d, u.id, u.identity)'
        BY <4>3, <4>6
      <4> QED BY <1>0, <2>0, <2>1, <2>2, <2>3, <3>1, <4>2, <4>3, <4>4, <4>6, <4>7, <4>8, TaskMoves
    <3>4. CASE f.op = "record" /\ t.identity # "none" /\ task' = InPhase(d, "staging")
      <4>1. "staging" \in TaskPhase
        BY DEF TaskPhase
      <4>2. PICK u \in TaskRecord : /\ task'[d] = u /\ Alike(u, t) /\ u.phase = "staging"
                                    /\ u.n = t.n /\ u.identity = t.identity
        BY <1>0, <2>1, <3>4, <4>1, Moved
      <4> QED BY <1>0, <2>0, <2>1, <2>2, <2>3, <3>1, <3>4, <4>2, TaskMoves DEF Alike
    <3>5. CASE f.op = "end" /\ task' = InPhase(d, "installing")
      <4>0. t.identity # "none"
        BY <3>2, <3>5
      <4>1. "installing" \in TaskPhase
        BY DEF TaskPhase
      <4>2. PICK u \in TaskRecord : /\ task'[d] = u /\ Alike(u, t) /\ u.phase = "installing"
                                    /\ u.n = t.n /\ u.identity = t.identity
        BY <1>0, <2>1, <3>5, <4>1, Moved
      <4> QED BY <1>0, <2>0, <2>1, <2>2, <2>3, <3>1, <4>0, <4>2, TaskMoves DEF Alike
    <3> QED BY <2>1, <2>8, <3>0, <3>3, <3>4, <3>5 DEF Receive
  <2> QED BY <1>2, <2>4, <2>5, <2>6, <2>7, <2>8
<1> QED BY <1>1, <1>2

\* Who was met goes on to verify.
LEMMA TaskVerifies ==
  ASSUME Types, Grows, NEW d \in Device, TaskTrue(d), NEW t \in TaskRecord, t = task[d],
         t.phase \in {"listen", "connect"}, task'[d] = [t EXCEPT !.phase = "verify"],
         active'[d] = active[d], epoch'[d] = epoch[d]
  PROVE  TaskTrue(d)'
<1>1. PICK u : u = [t EXCEPT !.phase = "verify"]
  OBVIOUS
<1>2. task'[d] = u
  BY <1>1
<1>3. u.id = t.id /\ u.records = t.records /\ u.phase = "verify" /\ u.n = t.n /\ u.identity = t.identity
  BY <1>1 DEF TaskRecord
<1>4. u.sending = t.sending /\ u.ok = t.ok
  BY <1>1 DEF TaskRecord
<1>5. task[d] # None
  BY NoneIs
<1>6. /\ active[d] # None /\ active[d].epoch = epoch[d]
      /\ t.id = active[d].id /\ t.sending = active[d].sending
      /\ t.n = 0 /\ t.identity = "none"
  BY <1>5 DEF TaskTrue
<1>7. /\ t.sending => Has(d)' /\ Gives(d, t.id)'
      /\ ~t.sending => Takes(d, t.id)'
      /\ t.ok => <<d, t.id>> \in agreed'
      /\ t.records <= 1 + MaxLog
  BY TaskGrows
<1> HIDE DEF Vouched, Gives, Takes, Has
<1> QED BY <1>2, <1>3, <1>4, <1>6, <1>7, Fits

LEMMA MeetIs ==
  ASSUME Types, NEW d \in Device, NEW p \in Device, Meet(d, p)
  PROVE  /\ d # p /\ task[d] \in TaskRecord /\ task[p] \in TaskRecord
         /\ task[d].phase = "listen" /\ task[p].phase = "connect" /\ task[p].id = task[d].id
         /\ Live(d) /\ Live(p)
         /\ task'[d] = [task[d] EXCEPT !.phase = "verify"]
         /\ \/ /\ task'[p] = [task[p] EXCEPT !.phase = "verify"] /\ queue' = queue /\ inbox' = inbox
            \/ /\ task'[p] = None /\ queue'[p] = queue[p] \o Cleanup(p) /\ inbox'[p] = << >>
               /\ \A e \in Device \ {p} : queue'[e] = queue[e] /\ inbox'[e] = inbox[e]
         /\ UNCHANGED <<stores, active, epoch, shown, history>>
         /\ \A e \in Device \ {d, p} : Kept(e)
<1> USE DEF stores, memory, history
<1>1. /\ task[d] # None /\ task[d].phase = "listen" /\ task[p] # None /\ task[p].phase = "connect"
      /\ task[p].id = task[d].id
  BY DEF Meet, At, On
<1>2. task[d] \in TaskRecord /\ task[p] \in TaskRecord /\ d # p /\ Live(d) /\ Live(p)
  BY <1>1 DEF Types, Live
<1>3. UNCHANGED <<stores, active, epoch, shown, history>>
  BY DEF Meet
<1>4. CASE task' = [task EXCEPT ![d].phase = "verify", ![p].phase = "verify"] /\ UNCHANGED <<queue, inbox>>
  <2>1. task'[d] = [task[d] EXCEPT !.phase = "verify"] /\ task'[p] = [task[p] EXCEPT !.phase = "verify"]
    BY <1>2, <1>4 DEF Types
  <2>2. \A e \in Device \ {d, p} : Kept(e)
    BY <1>3, <1>4 DEF Kept, Types
  <2> QED BY <1>1, <1>2, <1>3, <1>4, <2>1, <2>2
<1>5. CASE /\ task' = [task EXCEPT ![d].phase = "verify", ![p] = None]
           /\ queue' = [queue EXCEPT ![p] = @ \o Cleanup(p)]
           /\ inbox' = [inbox EXCEPT ![p] = << >>]
  <2>1. task'[d] = [task[d] EXCEPT !.phase = "verify"] /\ task'[p] = None
    BY <1>2, <1>5 DEF Types
  <2>2. /\ queue'[p] = queue[p] \o Cleanup(p) /\ inbox'[p] = << >>
        /\ \A e \in Device \ {p} : queue'[e] = queue[e] /\ inbox'[e] = inbox[e]
    BY <1>5 DEF Types
  <2>3. \A e \in Device \ {d, p} : Kept(e)
    BY <1>3, <1>5, <2>2 DEF Kept, Types
  <2> QED BY <1>1, <1>2, <1>3, <2>1, <2>2, <2>3
<1> QED BY <1>4, <1>5 DEF Meet

LEMMA TaskStep == PairingInv /\ Next => \A e \in Device : TaskTrue(e)'
<1> SUFFICES ASSUME PairingInv, Next, NEW e \in Device PROVE TaskTrue(e)'
  OBVIOUS
<1>0. Grows /\ Types /\ \A x \in Device : TaskTrue(x)
  BY NextGrows DEF PairingInv, Local
<1>1. ASSUME NEW d \in Device, Turn(d) PROVE TaskTrue(e)'
  <2>1. CASE e = d
    BY <1>0, <1>1, <2>1, TaskOfUser, TaskOfCore, TaskOfTask, TaskOfStaged, TaskOfInstall DEF Turn
  <2>2. CASE e # d
    BY <1>0, <1>1, <2>2, MineOnly, TaskKeeps DEF Kept
  <2> QED BY <2>1, <2>2
<1>2. ASSUME NEW d \in Device, NEW p \in Device, Meet(d, p) PROVE TaskTrue(e)'
  <2>0. active' = active /\ epoch' = epoch
    BY <1>0, <1>2, MeetIs
  <2>1. CASE e = d
    BY <1>0, <1>2, <2>0, <2>1, MeetIs, TaskVerifies
  <2>2. CASE e = p
    <3>1. CASE task'[p] = None
      BY <2>2, <3>1 DEF TaskTrue
    <3>2. CASE task'[p] = [task[p] EXCEPT !.phase = "verify"]
      BY <1>0, <1>2, <2>0, <2>2, <3>2, MeetIs, TaskVerifies, ZenonT(60)
    <3> QED BY <1>0, <1>2, <3>1, <3>2, MeetIs
  <2>3. CASE e \notin {d, p}
    <3>1. Kept(e)
      BY <1>0, <1>2, <2>3, MeetIs
    <3> QED BY <1>0, <3>1, TaskKeeps DEF Kept
  <2> QED BY <2>1, <2>2, <2>3
<1> QED BY <1>1, <1>2, NextIsTurn

-----------------------------------------------------------------------------
(* The active session                                                      *)

LEMMA ActiveStep == PairingInv /\ Next => \A e \in Device : ActiveTrue(e)'
<1> SUFFICES ASSUME PairingInv, Next, NEW e \in Device PROVE ActiveTrue(e)'
  OBVIOUS
<1> USE DEF stores, memory, history
<1>0. Grows /\ Types /\ ActiveTrue(e)
  BY NextGrows DEF PairingInv, Local
<1>1. ASSUME active'[e] = active[e], epoch'[e] = epoch[e] PROVE ActiveTrue(e)'
  BY <1>0, <1>1 DEF ActiveTrue, Grows
<1>2. ASSUME NEW d \in Device, Turn(d) PROVE ActiveTrue(e)'
  <2>1. CASE e # d
    <3>1. Kept(e)
      BY <1>0, <1>2, <2>1, MineOnly
    <3> QED BY <1>1, <3>1 DEF Kept
  <2>2. CASE e = d
    <3>1. ASSUME NEW id, NEW phase, Begins(d, id, phase) PROVE ActiveTrue(e)'
      <4>1. active'[d] = [id |-> id, epoch |-> epoch[d], sending |-> Has(d), control |-> TRUE] /\ epoch' = epoch
        BY <1>0, <3>1 DEF Begins, Types
      <4>2. active'[d].epoch = epoch'[d] /\ active'[d].control = TRUE
        BY <4>1
      <4>3. epoch[d] \in Nat
        BY <1>0, PairingAssumption DEF Types
      <4> QED BY <2>2, <4>1, <4>2, <4>3 DEF ActiveTrue
    <3>2. CASE Show(d) \/ \E id \in Sessions : Scan(d, id)
      BY <3>1, <3>2 DEF Show, Scan
    <3>3. CASE Confirm(d)
      <4>1. PICK a \in ActiveRecord : a = active[d]
        BY <1>0, <3>3 DEF Confirm, Types
      <4>2. PICK b : b = [a EXCEPT !.control = FALSE]
        OBVIOUS
      <4>3. active'[d] = b /\ epoch' = epoch /\ <<d, a.id>> \in agreed' /\ active[d] # None
        BY <1>0, <3>3, <4>1, <4>2 DEF Confirm, Types
      <4>4. b.id = a.id /\ b.epoch = a.epoch
        BY <4>2 DEF ActiveRecord
      <4> QED BY <1>0, <2>2, <4>1, <4>3, <4>4 DEF ActiveTrue
    <3>4. CASE Cancel(d)
      <4>1. active' = active /\ epoch'[d] = epoch[d] + 1 /\ agreed' = agreed
        BY <1>0, <3>4 DEF Cancel, Types
      <4>2. epoch[d] \in Nat /\ (active[d] # None => active[d].epoch \in Nat)
        BY <1>0, PairingAssumption DEF Types, ActiveRecord
      <4> QED BY <1>0, <2>2, <4>1, <4>2 DEF ActiveTrue
    <3>5. CASE Cancelled(d) \/ Restart(d)
      <4>1. active'[d] = None
        BY <1>0, <3>5 DEF Cancelled, Restart, Types
      <4> QED BY <2>2, <4>1 DEF ActiveTrue
    <3>6. CASE Refused(d) \/ LateMail(d) \/ StageRecord(d) \/ Install(d) \/ CleanStage(d)
      BY <1>1, <3>6 DEF Refused, LateMail, StageRecord, Install, CleanStage
    <3>7. CASE \/ Confirmed(d) \/ BothConfirmed(d) \/ Snapshot(d) \/ SendRecord(d) \/ Receive(d)
               \/ SendInstalled(d) \/ SourceDone(d) \/ Fail(d) \/ Dropped(d)
      BY <1>1, <3>7 DEF Confirmed, BothConfirmed, Snapshot, SendRecord, Receive, SendInstalled,
           SourceDone, Fail, Dropped
    <3> QED BY <1>2, <3>2, <3>3, <3>4, <3>5, <3>6, <3>7 DEF Turn
  <2> QED BY <2>1, <2>2
<1>3. ASSUME NEW d \in Device, NEW p \in Device, Meet(d, p) PROVE ActiveTrue(e)'
  BY <1>1, <1>3 DEF Meet
<1> QED BY <1>2, <1>3, NextIsTurn

LEMMA RevokedStep == PairingInv /\ Next => NothingRevoked'
<1> SUFFICES ASSUME PairingInv, Next, NEW e \in Device,
                    active'[e] # None, active'[e].epoch = epoch'[e]
             PROVE  <<e, active'[e].id>> \notin revoked'
  BY DEF NothingRevoked
<1> USE DEF stores, memory, history
<1>0. Types /\ ActiveTrue(e) /\ NothingRevoked
  BY DEF PairingInv, Local
<1>1. ASSUME active'[e] = active[e], epoch'[e] = epoch[e], revoked' \subseteq revoked
      PROVE  <<e, active'[e].id>> \notin revoked'
  BY <1>0, <1>1 DEF NothingRevoked
<1>2. ASSUME NEW d \in Device, Turn(d) PROVE <<e, active'[e].id>> \notin revoked'
  <2>1. ASSUME NEW id, NEW phase, Begins(d, id, phase) PROVE <<e, active'[e].id>> \notin revoked'
    <3>1. revoked' = revoked \ {<<d, id>>} /\ epoch' = epoch
      BY <2>1 DEF Begins
    <3>2. CASE e # d
      <4>1. active'[e] = active[e]
        BY <1>0, <2>1, <3>2 DEF Begins, Types
      <4> QED BY <1>1, <3>1, <4>1
    <3>3. CASE e = d
      <4>1. active'[d].id = id
        BY <1>0, <2>1 DEF Begins, Types
      <4> QED BY <3>1, <3>3, <4>1
    <3> QED BY <3>2, <3>3
  <2>2. CASE Show(d) \/ \E id \in Sessions : Scan(d, id)
    BY <2>1, <2>2 DEF Show, Scan
  <2>3. CASE Confirm(d)
    <3>1. CASE e # d
      BY <1>0, <1>1, <2>3, <3>1 DEF Confirm, Types
    <3>2. CASE e = d
      <4>1. PICK a \in ActiveRecord : a = active[d]
        BY <1>0, <2>3 DEF Confirm, Types
      <4>2. PICK b : b = [a EXCEPT !.control = FALSE]
        OBVIOUS
      <4>3. active'[d] = b /\ epoch' = epoch /\ revoked' = revoked /\ active[d] # None
        BY <1>0, <2>3, <4>1, <4>2 DEF Confirm, Types
      <4>4. b.id = a.id /\ b.epoch = a.epoch
        BY <4>2 DEF ActiveRecord
      <4> QED BY <1>0, <3>2, <4>1, <4>3, <4>4 DEF NothingRevoked
    <3> QED BY <3>1, <3>2
  <2>4. CASE Cancel(d)
    <3>1. /\ active' = active /\ \A x \in Device \ {d} : epoch'[x] = epoch[x]
          /\ epoch'[d] = epoch[d] + 1
          /\ revoked' = revoked \union (IF active[d] = None THEN {} ELSE {<<d, active[d].id>>})
      BY <1>0, <2>4 DEF Cancel, Types
    <3>2. CASE e # d
      <4>1. <<e, active[e].id>> \notin revoked
        BY <1>0, <3>1, <3>2 DEF NothingRevoked
      <4> QED BY <3>1, <3>2, <4>1
    <3>3. CASE e = d
      <4>1. epoch[d] \in Nat /\ active[d].epoch \in Nat /\ active[d].epoch <= epoch[d]
        BY <1>0, <3>1, <3>3, PairingAssumption DEF Types, ActiveRecord, ActiveTrue
      <4> QED BY <3>1, <3>3, <4>1
    <3> QED BY <3>2, <3>3
  <2>5. CASE Cancelled(d) \/ Restart(d)
    <3>1. e # d
      BY <1>0, <2>5 DEF Cancelled, Restart, Types
    <3>2. active'[e] = active[e] /\ epoch' = epoch /\ revoked' = revoked
      BY <1>0, <2>5, <3>1 DEF Cancelled, Restart, Types
    <3> QED BY <1>1, <3>2
  <2>6. CASE Refused(d) \/ LateMail(d) \/ StageRecord(d) \/ Install(d) \/ CleanStage(d)
    BY <1>1, <2>6 DEF Refused, LateMail, StageRecord, Install, CleanStage
  <2>7. CASE \/ Confirmed(d) \/ BothConfirmed(d) \/ Snapshot(d) \/ SendRecord(d) \/ Receive(d)
             \/ SendInstalled(d) \/ SourceDone(d) \/ Fail(d) \/ Dropped(d)
    BY <1>1, <2>7 DEF Confirmed, BothConfirmed, Snapshot, SendRecord, Receive, SendInstalled,
         SourceDone, Fail, Dropped
  <2> QED BY <1>2, <2>2, <2>3, <2>4, <2>5, <2>6, <2>7 DEF Turn
<1>3. ASSUME NEW d \in Device, NEW p \in Device, Meet(d, p) PROVE <<e, active'[e].id>> \notin revoked'
  BY <1>1, <1>3 DEF Meet
<1> QED BY <1>2, <1>3, NextIsTurn

-----------------------------------------------------------------------------
(* Requests                                                                *)

NoAsks(q) == \A i \in DOMAIN q : ~Asks(q[i])

\* A task that does not wait for the core has asked for nothing.
LEMMA AsksNothing ==
  ASSUME NEW d \in Device, Requests(d), task[d] # None,
         task[d].phase \notin {"aborted", "staging", "installing"}
  PROVE  NoAsks(queue[d])
BY DEF Requests, NoAsks, Asks

LEMMA SilentIs == \A d \in Device : NoAsks(queue'[d]) => Requests(d)'
BY DEF NoAsks, Requests, Asks

LEMMA CleanupAsks == ASSUME Types, NEW d \in Device PROVE Cleanup(d) \in Seq(Order) /\ NoAsks(Cleanup(d))
BY CleanupIs DEF NoAsks, Asks

LEMMA AppendedAsks ==
  ASSUME NEW q \in Seq(Order), NEW s \in Seq(Order), NoAsks(s)
  PROVE  /\ \A i \in DOMAIN (q \o s) : Asks((q \o s)[i]) => i \in DOMAIN q /\ (q \o s)[i] = q[i]
         /\ NoAsks(q) => NoAsks(q \o s)
<1>1. ASSUME NEW i \in DOMAIN (q \o s), Asks((q \o s)[i])
      PROVE  i \in DOMAIN q /\ (q \o s)[i] = q[i]
  <2>1. CASE i <= Len(q)
    BY <1>1, <2>1
  <2>2. CASE i > Len(q)
    <3>1. i - Len(q) \in DOMAIN s /\ (q \o s)[i] = s[i - Len(q)]
      BY <1>1, <2>2
    <3> QED BY <1>1, <3>1 DEF NoAsks
  <2>3. i \in Nat /\ Len(q) \in Nat
    BY <1>1
  <2> QED BY <2>1, <2>2, <2>3
<1> QED BY <1>1 DEF NoAsks

LEMMA TailedIs ==
  ASSUME NEW q \in Seq(Order), q # << >>
  PROVE  /\ Tail(q) \in Seq(Order)
         /\ \A i \in DOMAIN Tail(q) : i \in Nat /\ i + 1 \in DOMAIN q /\ Tail(q)[i] = q[i + 1]
         /\ \A i \in DOMAIN q : i # 1 => i - 1 \in DOMAIN Tail(q) /\ Tail(q)[i - 1] = q[i]
OBVIOUS

\* A queue that lost its head or none, and gained nothing that is asked for.
LEMMA RequestsPass ==
  ASSUME Grows, NEW d \in Device, Requests(d), NEW off \in {0, 1},
         \A i \in DOMAIN queue'[d] : Asks(queue'[d][i]) =>
            i \in Nat /\ i + off \in DOMAIN queue[d] /\ queue'[d][i] = queue[d][i + off],
         task'[d] # None =>
            /\ task[d] # None /\ task'[d].id = task[d].id /\ task'[d].n = task[d].n
            /\ task'[d].phase \in {task[d].phase, "aborted"}
  PROVE  Requests(d)'
<1> SUFFICES ASSUME NEW i \in DOMAIN queue'[d], Asks(queue'[d][i])
    PROVE /\ \A j \in DOMAIN queue'[d] : Asks(queue'[d][j]) => i = j
          /\ task'[d] # None =>
               /\ queue'[d][i].id = task'[d].id
               /\ queue'[d][i].op = "stage" =>
                    task'[d].phase \in {"aborted", "staging"} /\ task'[d].n = queue'[d][i].seq
               /\ queue'[d][i].op = "install" => task'[d].phase \in {"aborted", "installing"}
          /\ queue'[d][i].op = "stage" =>
               /\ queue'[d][i].seq <= MaxLog
               /\ queue'[d][i].seq = 0 =>
                    queue'[d][i].id \in DOMAIN snaps' /\ queue'[d][i].record.messages = snaps'[queue'[d][i].id]
          /\ queue'[d][i].op = "install" => Vouched(d, queue[d][i].id, queue[d][i].identity)'
  BY DEF Requests, Asks
<1>1. PICK k, c : k \in DOMAIN queue[d] /\ k = i + off /\ c = queue[d][k] /\ c = queue'[d][i] /\ Asks(c)
  OBVIOUS
<1>2. \A j \in DOMAIN queue'[d] : Asks(queue'[d][j]) => i = j
  <2> SUFFICES ASSUME NEW j \in DOMAIN queue'[d], Asks(queue'[d][j]) PROVE i = j
    OBVIOUS
  <2>1. i \in Nat /\ j \in Nat /\ i + off = j + off
    BY <1>1 DEF Requests
  <2> QED BY <2>1
<1>3. /\ task[d] # None =>
           /\ c.id = task[d].id
           /\ c.op = "stage" => task[d].phase \in {"aborted", "staging"} /\ task[d].n = c.seq
           /\ c.op = "install" => task[d].phase \in {"aborted", "installing"}
      /\ c.op = "stage" =>
           /\ c.seq <= MaxLog
           /\ c.seq = 0 => c.id \in DOMAIN snaps /\ c.record.messages = snaps[c.id]
      /\ c.op = "install" => Vouched(d, c.id, c.identity)
  BY <1>1 DEF Requests
<1>4. c.op = "install" => Vouched(d, c.id, c.identity)'
  BY <1>3, VouchedStays
<1>5. c.op = "stage" /\ c.seq = 0 => c.id \in DOMAIN snaps' /\ c.record.messages = snaps'[c.id]
  BY <1>3 DEF Grows
<1>6. c.op = "install" => Vouched(d, queue[d][i].id, queue[d][i].identity)'
  BY <1>1, <1>4 DEF Vouched
<1> HIDE DEF Vouched
<1> QED BY <1>1, <1>2, <1>3, <1>5, <1>6

\* What the core has answered is gone.
LEMMA AnswerRequests ==
  ASSUME Types, NEW d \in Device, Requests(d), queue[d] # << >>, Asks(Head(queue[d])),
         NEW id, NEW phase, NEW ok, Answer(d, id, phase, ok)
  PROVE  Requests(d)'
<1>1. queue[d] \in Seq(Order)
  BY DEF Types
<1>2. NoAsks(Tail(queue[d])) /\ Tail(queue[d]) \in Seq(Order)
  <2> SUFFICES ASSUME NEW i \in DOMAIN Tail(queue[d]), Asks(Tail(queue[d])[i]) PROVE FALSE
    BY <1>1, TailedIs DEF NoAsks
  <2>1. i \in Nat /\ i >= 1 /\ i + 1 \in DOMAIN queue[d] /\ Asks(queue[d][i + 1])
    BY <1>1, TailedIs
  <2>2. 1 \in DOMAIN queue[d] /\ Asks(queue[d][1])
    BY <1>1, HeadIs
  <2>3. i + 1 = 1
    BY <2>1, <2>2 DEF Requests
  <2> QED BY <2>1, <2>3
<1>3. queue'[d] \in {Tail(queue[d]), Tail(queue[d]) \o Cleanup(d)}
  BY <1>1 DEF Answer, Types
<1>4. NoAsks(Tail(queue[d]) \o Cleanup(d))
  <2>1. Cleanup(d) \in Seq(Order) /\ NoAsks(Cleanup(d))
    BY CleanupAsks
  <2> QED BY <1>2, <2>1, AppendedAsks
<1>5. NoAsks(queue'[d])
  BY <1>2, <1>3, <1>4
<1> QED BY <1>5, SilentIs

\* A queue that stays, or to which a removal was added.
LEMMA RequestsStay ==
  ASSUME Grows, Types, NEW d \in Device, Requests(d), NEW s \in Seq(Order), NoAsks(s),
         queue'[d] = queue[d] \o s,
         task'[d] # None =>
            /\ task[d] # None /\ task'[d].id = task[d].id /\ task'[d].n = task[d].n
            /\ task'[d].phase \in {task[d].phase, "aborted"}
  PROVE  Requests(d)'
<1>1. queue[d] \in Seq(Order)
  BY DEF Types
<1>2. \A i \in DOMAIN queue'[d] : Asks(queue'[d][i]) => i \in DOMAIN queue[d] /\ queue'[d][i] = queue[d][i]
  BY <1>1, AppendedAsks
<1>3. \A i \in DOMAIN queue[d] : i \in Nat /\ i + 0 = i
  BY <1>1
<1> QED BY <1>2, <1>3, RequestsPass

LEMMA RequestsSame ==
  ASSUME Grows, Types, NEW d \in Device, Requests(d), queue'[d] = queue[d],
         task'[d] # None =>
            /\ task[d] # None /\ task'[d].id = task[d].id /\ task'[d].n = task[d].n
            /\ task'[d].phase \in {task[d].phase, "aborted"}
  PROVE  Requests(d)'
<1>1. \A i \in DOMAIN queue[d] : i \in Nat /\ i + 0 = i
  BY DEF Types
<1> QED BY <1>1, RequestsPass

LEMMA RequestsShort ==
  ASSUME Grows, Types, NEW d \in Device, Requests(d), queue[d] # << >>, queue'[d] = Tail(queue[d]),
         task'[d] # None =>
            /\ task[d] # None /\ task'[d].id = task[d].id /\ task'[d].n = task[d].n
            /\ task'[d].phase \in {task[d].phase, "aborted"}
  PROVE  Requests(d)'
<1>1. queue[d] \in Seq(Order)
  BY DEF Types
<1>2. \A i \in DOMAIN queue'[d] : i \in Nat /\ i + 1 \in DOMAIN queue[d] /\ queue'[d][i] = queue[d][i + 1]
  BY <1>1, TailedIs
<1> QED BY <1>2, RequestsPass

LEMMA RequestsOfReceived ==
  ASSUME PairingInv, Grows, NEW d \in Device, Receive(d)
  PROVE  Requests(d)'
<1> USE DEF stores, memory, history
<1>0. Types /\ TaskTrue(d) /\ Requests(d) /\ task[d] # None /\ task[d].phase = "receive"
  BY DEF PairingInv, Local, Receive, At
<1>1. PICK t \in TaskRecord : t = task[d]
  BY <1>0 DEF Types
<1>2. PICK f : f = Head(inbox[d])
  OBVIOUS
<1>3. PICK q \in Seq(Order) : q = queue[d]
  BY DEF PairingInv, Types
<1>4. NoAsks(q)
  BY <1>0, <1>3, AsksNothing
<1>5. /\ t.identity = "none" => f.op = "link"
      /\ t.identity # "none" /\ f.op = "record" =>
           t.id \in DOMAIN snaps /\ t.n <= snaps[t.id] /\ (t.n = 0 => f.messages = snaps[t.id])
  BY <1>1, <1>2, Incoming DEF Receive
<1>6. t.id \in Sessions /\ t.n \in Nat /\ t.id # 0
  BY <1>1, NoneIs DEF TaskRecord
<1>7. CASE UNCHANGED queue
  BY <1>3, <1>4, <1>7, SilentIs
<1>8. ASSUME NEW c \in Order, queue' = [queue EXCEPT ![d] = Append(@, c)]
      PROVE  /\ \A i \in DOMAIN queue'[d] : Asks(queue'[d][i]) => queue'[d][i] = c /\ i = Len(q) + 1
  <2>1. queue'[d] = Append(q, c)
    BY <1>3, <1>8 DEF PairingInv, Types
  <2>2. \A i \in DOMAIN Append(q, c) : (i \in DOMAIN q /\ Append(q, c)[i] = q[i]) \/ (i = Len(q) + 1 /\ Append(q, c)[i] = c)
    OBVIOUS
  <2> QED BY <1>4, <2>1, <2>2 DEF NoAsks
<1>9. CASE /\ f.op = "record" /\ task[d].identity # "none"
           /\ task' = InPhase(d, "staging")
           /\ queue' = [queue EXCEPT ![d] = Append(@,
                [op |-> "stage", id |-> task[d].id, seq |-> task[d].n, record |-> [messages |-> f.messages]])]
  <2>1. PICK r : r = [messages |-> f.messages]
    OBVIOUS
  <2>2. PICK c \in Order : c = [op |-> "stage", id |-> t.id, seq |-> t.n, record |-> r]
    <3>1. f \in Frame
      BY <1>0, <1>2 DEF Receive, Types
    <3>2. f.messages \in Nat
      BY <1>9, <3>1, FrameIs
    <3>3. r \in Record
      BY <2>1, <3>2 DEF Record
    <3> QED BY <1>6, <3>3, OrderIs
  <2>3. /\ \A i \in DOMAIN queue'[d] : Asks(queue'[d][i]) => queue'[d][i] = c /\ i = Len(q) + 1
    BY <1>1, <1>8, <1>9, <2>1, <2>2
  <2>4. "staging" \in TaskPhase
    BY DEF TaskPhase
  <2>5. PICK u \in TaskRecord : task'[d] = u /\ Alike(u, t) /\ u.phase = "staging" /\ u.n = t.n
    BY <1>0, <1>1, <1>9, <2>4, Moved
  <2>6. c.op = "stage" /\ c.id = t.id /\ c.seq = t.n /\ c.record = r /\ r.messages = f.messages
    BY <2>1, <2>2
  <2>7. /\ t.id \in DOMAIN snaps' /\ snaps' = snaps /\ snaps[t.id] \in 0 .. MaxLog /\ t.n <= snaps[t.id]
        /\ t.n = 0 => f.messages = snaps[t.id]
    BY <1>0, <1>1, <1>5, <1>9 DEF Receive, Types
  <2>8. t.n <= MaxLog
    BY <1>6, <2>7, PairingAssumption
  <2> SUFFICES ASSUME NEW i \in DOMAIN queue'[d], Asks(queue'[d][i])
      PROVE /\ \A j \in DOMAIN queue'[d] : Asks(queue'[d][j]) => i = j
            /\ task'[d] # None =>
                 /\ queue'[d][i].id = task'[d].id
                 /\ queue'[d][i].op = "stage" =>
                      task'[d].phase \in {"aborted", "staging"} /\ task'[d].n = queue'[d][i].seq
                 /\ queue'[d][i].op # "install"
            /\ queue'[d][i].op # "install"
            /\ queue'[d][i].op = "stage" =>
                 /\ queue'[d][i].seq <= MaxLog
                 /\ queue'[d][i].seq = 0 =>
                      queue'[d][i].id \in DOMAIN snaps' /\ queue'[d][i].record.messages = snaps'[queue'[d][i].id]
    BY DEF Requests, Asks
  <2>9. queue'[d][i] = c /\ \A j \in DOMAIN queue'[d] : Asks(queue'[d][j]) => i = j
    BY <2>3
  <2> QED BY <2>5, <2>6, <2>7, <2>8, <2>9 DEF Alike
<1>10. CASE /\ f.op = "end"
            /\ task' = InPhase(d, "installing")
            /\ queue' = [queue EXCEPT ![d] = Append(@,
                 [op |-> "install", id |-> task[d].id, identity |-> task[d].identity])]
  <2>2. PICK c \in Order : c = [op |-> "install", id |-> t.id, identity |-> t.identity]
    <3>1. t.identity \in Identity
      BY DEF TaskRecord
    <3> QED BY <1>6, <3>1, OrderIs
  <2>3. /\ \A i \in DOMAIN queue'[d] : Asks(queue'[d][i]) => queue'[d][i] = c /\ i = Len(q) + 1
    BY <1>1, <1>8, <1>10, <2>2
  <2>4. "installing" \in TaskPhase
    BY DEF TaskPhase
  <2>5. PICK u \in TaskRecord : task'[d] = u /\ Alike(u, t) /\ u.phase = "installing" /\ u.n = t.n
    BY <1>0, <1>1, <1>10, <2>4, Moved
  <2>6. c.op = "install" /\ c.id = t.id /\ c.identity = t.identity
    BY <2>2
  <2>7. Vouched(d, c.id, c.identity)'
    <3>1. t.identity # "none"
      BY <1>5, <1>10
    <3>2. Vouched(d, t.id, t.identity)
      BY <1>0, <1>1, <3>1 DEF TaskTrue
    <3>3. Vouched(d, c.id, c.identity)
      BY <2>6, <3>2
    <3> QED BY <3>3, VouchedStays
  <2> SUFFICES ASSUME NEW i \in DOMAIN queue'[d], Asks(queue'[d][i])
      PROVE /\ \A j \in DOMAIN queue'[d] : Asks(queue'[d][j]) => i = j
            /\ task'[d] # None =>
                 /\ queue'[d][i].id = task'[d].id
                 /\ queue'[d][i].op # "stage"
                 /\ queue'[d][i].op = "install" => task'[d].phase \in {"aborted", "installing"}
            /\ queue'[d][i].op # "stage"
            /\ queue'[d][i].op = "install" => Vouched(d, queue[d][i].id, queue[d][i].identity)'
    BY DEF Requests, Asks
  <2>9. queue'[d][i] = c /\ \A j \in DOMAIN queue'[d] : Asks(queue'[d][j]) => i = j
    BY <2>3
  <2>10. Vouched(d, queue[d][i].id, queue[d][i].identity)'
    BY <2>7, <2>9 DEF Vouched
  <2> QED BY <2>5, <2>6, <2>9, <2>10 DEF Alike
<1> QED BY <1>2, <1>7, <1>9, <1>10 DEF Receive

LEMMA RequestsOfUser ==
  ASSUME PairingInv, Grows, NEW d \in Device,
         \/ Show(d) \/ Refused(d) \/ Confirm(d) \/ Cancel(d) \/ LateMail(d) \/ Restart(d)
         \/ \E id \in Sessions : Scan(d, id)
  PROVE  Requests(d)'
<1> USE DEF stores, memory, history
<1>0. Types /\ Requests(d)
  BY DEF PairingInv, Local
<1>1. CASE Show(d) \/ \E id \in Sessions : Scan(d, id)
  <2>1. queue'[d] = Cleanup(d)
    BY <1>0, <1>1 DEF Show, Scan, Begins, Types
  <2> QED BY <1>0, <2>1, CleanupAsks, SilentIs
<1>2. CASE Refused(d) \/ LateMail(d)
  BY <1>0, <1>2, RequestsSame DEF Refused, LateMail
<1>3. CASE Confirm(d)
  <2>1. PICK t \in TaskRecord : t = task[d]
    BY <1>0, <1>3 DEF Confirm, Types
  <2>2. PICK u : u = [t EXCEPT !.ok = TRUE]
    OBVIOUS
  <2>3. task'[d] = u /\ queue' = queue
    BY <1>0, <1>3, <2>1, <2>2 DEF Confirm, Types
  <2>4. u.id = t.id /\ u.n = t.n /\ u.phase = t.phase
    BY <2>2 DEF TaskRecord
  <2>5. task[d] # None
    BY <1>3 DEF Confirm
  <2> QED BY <1>0, <2>1, <2>3, <2>4, <2>5, RequestsSame
<1>4. CASE Cancel(d)
  <2>1. PICK s \in Seq(Order) : s = <<[op |-> "cancel"]>>
    <3>1. PICK c \in Order : c = [op |-> "cancel"]
      BY OrderIs
    <3>2. <<c>> \in Seq(Order)
      OBVIOUS
    <3> QED BY <3>1, <3>2
  <2>2. NoAsks(s) /\ queue'[d] = queue[d] \o s
    <3>1. queue'[d] = Append(queue[d], [op |-> "cancel"]) /\ queue[d] \in Seq(Order)
      BY <1>0, <1>4 DEF Cancel, Types
    <3>2. NoAsks(s)
      BY <2>1 DEF NoAsks, Asks
    <3>3. Append(queue[d], [op |-> "cancel"]) = queue[d] \o s
      BY <2>1, <3>1
    <3> QED BY <3>1, <3>2, <3>3
  <2>3. CASE Live(d)
    <3>1. PICK t \in TaskRecord : t = task[d]
      BY <1>0, <2>3 DEF Live, Types
    <3>2. task' = InPhase(d, "aborted") /\ "aborted" \in TaskPhase /\ task[d] # None
      BY <1>4, <2>3 DEF Cancel, Live, TaskPhase
    <3>3. PICK u \in TaskRecord : task'[d] = u /\ Alike(u, t) /\ u.phase = "aborted" /\ u.n = t.n
      BY <1>0, <3>1, <3>2, Moved
    <3> QED BY <1>0, <2>2, <3>1, <3>2, <3>3, RequestsStay DEF Alike
  <2>4. CASE ~Live(d)
    <3>1. task' = task
      BY <1>4, <2>4 DEF Cancel
    <3> QED BY <1>0, <2>2, <3>1, RequestsStay
  <2> QED BY <2>3, <2>4
<1>5. CASE Restart(d)
  <2>1. queue'[d] = << >>
    BY <1>0, <1>5 DEF Restart, Types
  <2> QED BY <2>1, SilentIs DEF NoAsks
<1> QED BY <1>1, <1>2, <1>3, <1>4, <1>5

LEMMA RequestsOfCore ==
  ASSUME PairingInv, Grows, NEW d \in Device,
         StageRecord(d) \/ Install(d) \/ CleanStage(d) \/ Cancelled(d)
  PROVE  Requests(d)'
<1> USE DEF stores, memory, history
<1>0. Types /\ Requests(d)
  BY DEF PairingInv, Local
<1>1. CASE StageRecord(d)
  <2>1. queue[d] # << >> /\ Asks(Head(queue[d]))
    BY <1>1 DEF StageRecord, Asks
  <2>2. PICK id, ok : Answer(d, id, "receive", ok)
    BY <1>1 DEF StageRecord
  <2> QED BY <1>0, <2>1, <2>2, AnswerRequests
<1>2. CASE Install(d)
  <2>1. queue[d] # << >> /\ Asks(Head(queue[d]))
    BY <1>2 DEF Install, Asks
  <2>2. PICK id, ok : Answer(d, id, "installed", ok)
    BY <1>2 DEF Install
  <2> QED BY <1>0, <2>1, <2>2, AnswerRequests
<1>3. CASE CleanStage(d)
  <2>1. queue[d] # << >> /\ queue'[d] = Tail(queue[d]) /\ task' = task
    BY <1>0, <1>3 DEF CleanStage, Types
  <2> QED BY <1>0, <2>1, RequestsShort
<1>4. CASE Cancelled(d)
  <2>1. queue[d] # << >> /\ queue'[d] = Tail(queue[d])
    BY <1>0, <1>4 DEF Cancelled, Types
  <2>3. CASE Live(d)
    <3>1. PICK t \in TaskRecord : t = task[d]
      BY <1>0, <2>3 DEF Live, Types
    <3>2. task' = InPhase(d, "aborted") /\ "aborted" \in TaskPhase /\ task[d] # None
      BY <1>4, <2>3 DEF Cancelled, Live, TaskPhase
    <3>3. PICK u \in TaskRecord : task'[d] = u /\ Alike(u, t) /\ u.phase = "aborted" /\ u.n = t.n
      BY <1>0, <3>1, <3>2, Moved
    <3> QED BY <1>0, <2>1, <3>1, <3>2, <3>3, RequestsShort DEF Alike
  <2>4. CASE ~Live(d)
    <3>1. task' = task
      BY <1>4, <2>4 DEF Cancelled
    <3> QED BY <1>0, <2>1, <3>1, RequestsShort
  <2> QED BY <2>3, <2>4
<1> QED BY <1>1, <1>2, <1>3, <1>4

LEMMA RequestsOfTask ==
  ASSUME PairingInv, Grows, NEW d \in Device,
         \/ Confirmed(d) \/ BothConfirmed(d) \/ Snapshot(d) \/ SendRecord(d)
         \/ SendInstalled(d) \/ SourceDone(d) \/ Fail(d) \/ Dropped(d)
  PROVE  Requests(d)'
<1> USE DEF stores, memory, history
<1>0. Types /\ Requests(d)
  BY DEF PairingInv, Local
<1>1. CASE Confirmed(d) \/ BothConfirmed(d) \/ SendRecord(d)
  <2>1. task[d] # None /\ task[d].phase \in {"verify", "wait", "send"} /\ queue' = queue
    BY <1>1 DEF Confirmed, BothConfirmed, SendRecord, At
  <2> QED BY <1>0, <2>1, AsksNothing, SilentIs
<1>2. CASE Snapshot(d)
  <2>1. PICK t \in TaskRecord : t = task[d]
    BY <1>0, <1>2 DEF Snapshot, Live, Types
  <2>2. PICK u : u = [t EXCEPT !.records = 1 + log[d]]
    OBVIOUS
  <2>3. task'[d] = u /\ queue' = queue /\ task[d] # None
    BY <1>0, <1>2, <2>1, <2>2 DEF Snapshot, Live, Types
  <2>4. u.id = t.id /\ u.n = t.n /\ u.phase = t.phase
    BY <2>2 DEF TaskRecord
  <2> QED BY <1>0, <2>1, <2>3, <2>4, RequestsSame
<1>3. CASE SendInstalled(d) \/ SourceDone(d) \/ Fail(d) \/ Dropped(d)
  <2>1. task'[d] = None /\ queue'[d] = queue[d] \o Cleanup(d)
    BY <1>0, <1>3 DEF SendInstalled, SourceDone, Fail, Dropped, Ends, Types
  <2>2. PICK s \in Seq(Order) : s = Cleanup(d) /\ NoAsks(s)
    BY <1>0, CleanupAsks
  <2> QED BY <1>0, <2>1, <2>2, RequestsStay
<1> QED BY <1>1, <1>2, <1>3

LEMMA RequestsStep == PairingInv /\ Next => \A e \in Device : Requests(e)'
<1> SUFFICES ASSUME PairingInv, Next, NEW e \in Device PROVE Requests(e)'
  OBVIOUS
<1>0. Grows /\ Types /\ \A x \in Device : Requests(x)
  BY NextGrows DEF PairingInv, Local
<1>1. ASSUME NEW d \in Device, Turn(d) PROVE Requests(e)'
  <2>1. CASE e = d
    BY <1>0, <1>1, <2>1, RequestsOfUser, RequestsOfCore, RequestsOfTask, RequestsOfReceived DEF Turn
  <2>2. CASE e # d
    <3>1. Kept(e)
      BY <1>0, <1>1, <2>2, MineOnly
    <3> QED BY <1>0, <3>1, RequestsKeep DEF Kept
  <2> QED BY <2>1, <2>2
<1>2. ASSUME NEW d \in Device, NEW p \in Device, Meet(d, p) PROVE Requests(e)'
  <2>1. CASE e = d
    <3>1. task[d] # None /\ task[d].phase = "listen"
      BY <1>2 DEF Meet, At
    <3>2. NoAsks(queue[d])
      BY <1>0, <3>1, AsksNothing
    <3>3. queue'[d] = queue[d]
      BY <1>0, <1>2, MeetIs
    <3> QED BY <2>1, <3>2, <3>3, SilentIs
  <2>2. CASE e = p
    <3>1. task[p] # None /\ task[p].phase = "connect"
      BY <1>2 DEF Meet, At
    <3>2. NoAsks(queue[p]) /\ queue[p] \in Seq(Order)
      BY <1>0, <3>1, AsksNothing DEF Types
    <3>3. queue'[p] = queue[p] \/ queue'[p] = queue[p] \o Cleanup(p)
      BY <1>0, <1>2, MeetIs
    <3>4. NoAsks(queue[p] \o Cleanup(p))
      <4>1. Cleanup(p) \in Seq(Order) /\ NoAsks(Cleanup(p))
        BY <1>0, CleanupAsks
      <4> QED BY <3>2, <4>1, AppendedAsks
    <3>5. NoAsks(queue'[p])
      BY <3>2, <3>3, <3>4
    <3> QED BY <2>2, <3>5, SilentIs
  <2>3. CASE e \notin {d, p}
    <3>1. Kept(e)
      BY <1>0, <1>2, <2>3, MeetIs
    <3> QED BY <1>0, <3>1, RequestsKeep DEF Kept
  <2> QED BY <2>1, <2>2, <2>3
<1> QED BY <1>1, <1>2, NextIsTurn

-----------------------------------------------------------------------------
(* What is staged                                                          *)

\* Who will remove the records of session id.
Claimed(d, id) == (task[d] # None /\ On(d, id) /\ ~task[d].sending) \/ CleansUp(queue[d], id)

LEMMA CleansUpIs ==
  ASSUME NEW q \in Seq(Order), NEW s \in Seq(Order), NEW id
  PROVE  /\ CleansUp(q, id) => CleansUp(q \o s, id)
         /\ CleansUp(s, id) => CleansUp(q \o s, id)
         /\ CleansUp(q, id) /\ q # << >> /\ ~(Head(q).op = "cleanup" /\ Head(q).id = id) => CleansUp(Tail(q), id)
<1>1. CleansUp(q, id) => CleansUp(q \o s, id)
  BY DEF CleansUp
<1>2. ASSUME CleansUp(s, id) PROVE CleansUp(q \o s, id)
  <2>1. PICK i \in DOMAIN s : s[i].op = "cleanup" /\ s[i].id = id
    BY <1>2 DEF CleansUp
  <2>2. Len(q) + i \in DOMAIN (q \o s) /\ (q \o s)[Len(q) + i] = s[i]
    OBVIOUS
  <2> QED BY <2>1, <2>2 DEF CleansUp
<1>3. ASSUME CleansUp(q, id), q # << >>, ~(Head(q).op = "cleanup" /\ Head(q).id = id)
      PROVE  CleansUp(Tail(q), id)
  <2>1. PICK i \in DOMAIN q : q[i].op = "cleanup" /\ q[i].id = id
    BY <1>3 DEF CleansUp
  <2>2. i # 1
    BY <1>3, <2>1
  <2>3. i - 1 \in DOMAIN Tail(q) /\ Tail(q)[i - 1] = q[i]
    BY <1>3, <2>2, TailedIs
  <2> QED BY <2>1, <2>3 DEF CleansUp
<1> QED BY <1>1, <1>2, <1>3

\* What a task that ends had staged is removed.
LEMMA CleanupClaims ==
  ASSUME Types, NEW d \in Device, NEW id \in Sessions, task[d] # None, On(d, id), ~task[d].sending
  PROVE  CleansUp(Cleanup(d), id)
<1>1. Len(Cleanup(d)) = 1 /\ Cleanup(d)[1].op = "cleanup" /\ Cleanup(d)[1].id = id /\ Cleanup(d) \in Seq(Order)
  BY CleanupIs DEF On
<1>2. 1 \in DOMAIN Cleanup(d)
  BY <1>1
<1> QED BY <1>1, <1>2 DEF CleansUp

LEMMA StagedIs ==
  ASSUME Grows, NEW d \in Device, Staged(d),
         \A id \in Sessions : stage'[d][id] # << >> =>
            stage'[d][id] = stage[d][id] /\ (Claimed(d, id) => Claimed(d, id)')
  PROVE  Staged(d)'
<1> SUFFICES ASSUME NEW id \in Sessions, stage'[d][id] # << >>
    PROVE /\ Claimed(d, id)'
          /\ id \in DOMAIN snaps' /\ Head(stage'[d][id]).messages = snaps'[id]
          /\ Len(stage'[d][id]) <= 1 + MaxLog
  BY DEF Staged, Claimed, On, CleansUp
<1>1. stage'[d][id] = stage[d][id] /\ stage[d][id] # << >>
  OBVIOUS
<1>2. Claimed(d, id)
  BY <1>1 DEF Staged, Claimed
<1>3. id \in DOMAIN snaps' /\ Head(stage'[d][id]).messages = snaps'[id] /\ Len(stage'[d][id]) <= 1 + MaxLog
  BY <1>1 DEF Staged, Grows
<1> QED BY <1>2, <1>3

\* The claim of a task that goes on, and of one that ends.
LEMMA ClaimGoesOn ==
  ASSUME Types, NEW d \in Device, NEW id \in Sessions, Claimed(d, id),
         task[d] # None => task'[d] # None /\ task'[d].id = task[d].id /\ task'[d].sending = task[d].sending,
         NEW s \in Seq(Order),
         \/ queue'[d] = queue[d] \o s
         \/ /\ queue[d] # << >> /\ queue'[d] = Tail(queue[d])
            /\ ~(Head(queue[d]).op = "cleanup" /\ Head(queue[d]).id = id)
  PROVE  Claimed(d, id)'
<1>1. queue[d] \in Seq(Order)
  BY DEF Types
<1>2. CASE task[d] # None /\ On(d, id) /\ ~task[d].sending
  BY <1>2 DEF Claimed, On
<1>3. CASE CleansUp(queue[d], id)
  <2>1. CleansUp(queue'[d], id)
    BY <1>1, <1>3, CleansUpIs
  <2> QED BY <2>1 DEF Claimed, CleansUp
<1> QED BY <1>2, <1>3 DEF Claimed

LEMMA ClaimIsLeft ==
  ASSUME Types, NEW d \in Device, NEW id \in Sessions, Claimed(d, id),
         \/ queue'[d] = queue[d] \o Cleanup(d)
         \/ /\ queue[d] # << >> /\ queue'[d] = Tail(queue[d]) \o Cleanup(d)
            /\ ~(Head(queue[d]).op = "cleanup" /\ Head(queue[d]).id = id)
  PROVE  Claimed(d, id)'
<1>1. queue[d] \in Seq(Order) /\ (queue[d] # << >> => Tail(queue[d]) \in Seq(Order))
  BY TailedIs DEF Types
<1>2. Cleanup(d) \in Seq(Order)
  BY CleanupIs
<1>3. CASE task[d] # None /\ On(d, id) /\ ~task[d].sending
  <2>1. CleansUp(Cleanup(d), id)
    BY <1>3, CleanupClaims
  <2>2. CleansUp(queue[d] \o Cleanup(d), id) /\ (queue[d] # << >> => CleansUp(Tail(queue[d]) \o Cleanup(d), id))
    BY <1>1, <1>2, <2>1, CleansUpIs
  <2>3. CleansUp(queue'[d], id)
    BY <2>2
  <2> QED BY <2>3 DEF Claimed, CleansUp
<1>4. CASE CleansUp(queue[d], id)
  <2>1. CASE queue'[d] = queue[d] \o Cleanup(d)
    <3>1. CleansUp(queue'[d], id)
      BY <1>1, <1>2, <1>4, <2>1, CleansUpIs
    <3> QED BY <3>1 DEF Claimed, CleansUp
  <2>2. CASE /\ queue[d] # << >> /\ queue'[d] = Tail(queue[d]) \o Cleanup(d)
             /\ ~(Head(queue[d]).op = "cleanup" /\ Head(queue[d]).id = id)
    <3>1. CleansUp(Tail(queue[d]), id)
      BY <1>1, <1>4, <2>2, CleansUpIs
    <3>2. CleansUp(queue'[d], id)
      BY <1>1, <1>2, <2>2, <3>1, CleansUpIs
    <3> QED BY <3>2 DEF Claimed, CleansUp
  <2> QED BY <2>1, <2>2
<1> QED BY <1>3, <1>4 DEF Claimed

LEMMA StagedOfUser ==
  ASSUME PairingInv, Grows, NEW d \in Device,
         \/ Show(d) \/ Refused(d) \/ Confirm(d) \/ Cancel(d) \/ LateMail(d) \/ Restart(d)
         \/ \E id \in Sessions : Scan(d, id)
  PROVE  Staged(d)'
<1> USE DEF stores, memory, history
<1>0. Types /\ Staged(d)
  BY DEF PairingInv, Local
<1>e. ASSUME stage'[d] = [s \in Sessions |-> << >>] PROVE Staged(d)'
  BY <1>0, <1>e, StagedIs
<1>1. CASE Show(d) \/ \E id \in Sessions : Scan(d, id)
  <2>1. queue[d] = << >> /\ queue'[d] = Cleanup(d)
        /\ stage' = IF Has(d) THEN stage ELSE [stage EXCEPT ![d] = [s \in Sessions |-> << >>]]
    BY <1>0, <1>1 DEF Show, Scan, Begins, Types
  <2>2. CASE ~Has(d)
    BY <1>0, <1>e, <2>1, <2>2 DEF Types
  <2>3. CASE Has(d)
    <3>1. ASSUME NEW id \in Sessions, Claimed(d, id) PROVE Claimed(d, id)'
      <4>1. ~CleansUp(queue[d], id)
        BY <2>1 DEF CleansUp
      <4>2. task[d] # None /\ On(d, id) /\ ~task[d].sending
        BY <3>1, <4>1 DEF Claimed
      <4>3. CleansUp(queue'[d], id)
        BY <1>0, <2>1, <4>2, CleanupClaims
      <4> QED BY <4>3 DEF Claimed, CleansUp
    <3> QED BY <1>0, <2>1, <2>3, <3>1, StagedIs
  <2> QED BY <2>2, <2>3
<1>2. CASE Refused(d) \/ Restart(d)
  <2>1. stage'[d] = [s \in Sessions |-> << >>]
    BY <1>0, <1>2 DEF Refused, Restart, Types
  <2> QED BY <1>e, <2>1
<1>3. CASE LateMail(d)
  BY <1>0, <1>3, StagedKeeps DEF LateMail
<1>4. CASE Confirm(d)
  <2>1. PICK t \in TaskRecord : t = task[d]
    BY <1>0, <1>4 DEF Confirm, Types
  <2>2. PICK u : u = [t EXCEPT !.ok = TRUE]
    OBVIOUS
  <2>3. task'[d] = u /\ queue' = queue /\ stage' = stage
    BY <1>0, <1>4, <2>1, <2>2 DEF Confirm, Types
  <2>4. u.id = t.id /\ u.sending = t.sending /\ u # None
    <3>1. u \in TaskRecord
      BY <2>2 DEF TaskRecord
    <3>2. u.id = t.id /\ u.sending = t.sending
      BY <2>2 DEF TaskRecord
    <3> QED BY <3>1, <3>2, NoneIs
  <2>5. PICK s \in Seq(Order) : s = << >>
    <3>1. << >> \in Seq(Order)
      OBVIOUS
    <3> QED BY <3>1
  <2>6. queue'[d] = queue[d] \o s
    BY <1>0, <2>3, <2>5 DEF Types
  <2> QED BY <1>0, <2>1, <2>3, <2>4, <2>6, ClaimGoesOn, StagedIs
<1>5. CASE Cancel(d)
  <2>1. PICK c \in Order : c = [op |-> "cancel"]
    BY OrderIs
  <2>2. PICK s \in Seq(Order) : s = <<c>>
    <3>1. <<c>> \in Seq(Order)
      OBVIOUS
    <3> QED BY <3>1
  <2>3. queue'[d] = queue[d] \o s /\ stage' = stage
    <3>1. queue'[d] = Append(queue[d], c) /\ queue[d] \in Seq(Order) /\ stage' = stage
      BY <1>0, <1>5, <2>1 DEF Cancel, Types
    <3> QED BY <2>2, <3>1
  <2>4. task[d] # None => task'[d] # None /\ task'[d].id = task[d].id /\ task'[d].sending = task[d].sending
    <3>1. CASE Live(d)
      <4>1. PICK t \in TaskRecord : t = task[d]
        BY <1>0, <3>1 DEF Live, Types
      <4>2. task' = InPhase(d, "aborted") /\ "aborted" \in TaskPhase
        BY <1>5, <3>1 DEF Cancel, TaskPhase
      <4>3. PICK u \in TaskRecord : task'[d] = u /\ Alike(u, t)
        BY <1>0, <4>1, <4>2, Moved
      <4> QED BY <4>1, <4>3, NoneIs DEF Alike
    <3>2. CASE ~Live(d)
      BY <1>5, <3>2 DEF Cancel
    <3> QED BY <3>1, <3>2
  <2> QED BY <1>0, <2>3, <2>4, ClaimGoesOn, StagedIs
<1> QED BY <1>1, <1>2, <1>3, <1>4, <1>5

LEMMA StagedOfEnd ==
  ASSUME PairingInv, Grows, NEW d \in Device,
         SendInstalled(d) \/ SourceDone(d) \/ Fail(d) \/ Dropped(d)
  PROVE  Staged(d)'
<1> USE DEF stores, memory, history
<1>0. Types /\ Staged(d)
  BY DEF PairingInv, Local
<1>1. queue'[d] = queue[d] \o Cleanup(d) /\ stage' = stage
  BY <1>0 DEF SendInstalled, SourceDone, Fail, Dropped, Ends, Types
<1> QED BY <1>0, <1>1, ClaimIsLeft, StagedIs

LEMMA StagedOfTask ==
  ASSUME PairingInv, Grows, NEW d \in Device,
         Confirmed(d) \/ BothConfirmed(d) \/ Snapshot(d) \/ SendRecord(d) \/ Receive(d)
  PROVE  Staged(d)'
<1> USE DEF stores, memory, history
<1>0. Types /\ Staged(d) /\ task[d] # None
  BY DEF PairingInv, Local, Confirmed, BothConfirmed, Snapshot, SendRecord, Receive, At, Live
<1>1. stage' = stage
  BY DEF Confirmed, BothConfirmed, Snapshot, SendRecord, Receive
<1>2. PICK t \in TaskRecord : t = task[d]
  BY <1>0 DEF Types
<1>3. task'[d] # None /\ task'[d].id = t.id /\ task'[d].sending = t.sending
  <2>1. ASSUME NEW phase \in TaskPhase, task' = InPhase(d, phase)
        PROVE  task'[d] # None /\ task'[d].id = t.id /\ task'[d].sending = t.sending
    <3>1. PICK u \in TaskRecord : task'[d] = u /\ Alike(u, t)
      BY <1>0, <1>2, <2>1, Moved
    <3> QED BY <3>1, NoneIs DEF Alike
  <2>2. ASSUME NEW u \in TaskRecord, task'[d] = u, u.id = t.id, u.sending = t.sending
        PROVE  task'[d] # None /\ task'[d].id = t.id /\ task'[d].sending = t.sending
    BY <2>2, NoneIs
  <2>3. task'[d] \in TaskRecord \union {None}
    <3>1. Types'
      BY TypesStep, NextIsTurn DEF Turn
    <3> QED BY <3>1 DEF Types
  <2>4. CASE Confirmed(d) \/ BothConfirmed(d)
    BY <2>1, <2>4 DEF Confirmed, BothConfirmed, TaskPhase
  <2>5. CASE Snapshot(d)
    <3>1. PICK u : u = [t EXCEPT !.records = 1 + log[d]]
      OBVIOUS
    <3>2. task'[d] = u
      BY <1>0, <1>2, <2>5, <3>1 DEF Snapshot, Types
    <3>3. u.id = t.id /\ u # None
      BY <3>1 DEF TaskRecord, None
    <3>4. u.sending = t.sending
      BY <3>1 DEF TaskRecord
    <3> QED BY <3>2, <3>3, <3>4
  <2>6. CASE SendRecord(d)
    <3>1. CASE task' = InPhase(d, "ack")
      BY <2>1, <3>1 DEF TaskPhase
    <3>2. CASE task' = [task EXCEPT ![d].n = @ + 1]
      <4>1. PICK u : u = [t EXCEPT !.n = t.n + 1]
        OBVIOUS
      <4>2. task'[d] = u
        BY <1>0, <1>2, <3>2, <4>1 DEF Types
      <4>3. u.id = t.id /\ u # None
        BY <4>1 DEF TaskRecord, None
      <4>4. u.sending = t.sending
        BY <4>1 DEF TaskRecord
      <4> QED BY <4>2, <4>3, <4>4
    <3> QED BY <2>6, <3>1, <3>2 DEF SendRecord
  <2>7. CASE Receive(d)
    <3>1. CASE task' = InPhase(d, "staging") \/ task' = InPhase(d, "installing")
      BY <2>1, <3>1 DEF TaskPhase
    <3>2. CASE task' = [task EXCEPT ![d].identity = Head(inbox[d]).identity]
      <4>1. PICK u : u = [t EXCEPT !.identity = Head(inbox[d]).identity]
        OBVIOUS
      <4>2. task'[d] = u
        BY <1>0, <1>2, <3>2, <4>1 DEF Types
      <4>3. u.id = t.id /\ u # None
        BY <4>1 DEF TaskRecord, None
      <4>4. u.sending = t.sending
        BY <4>1 DEF TaskRecord
      <4> QED BY <4>2, <4>3, <4>4
    <3> QED BY <2>7, <3>1, <3>2 DEF Receive
  <2> QED BY <2>4, <2>5, <2>6, <2>7
<1>4. PICK s \in Seq(Order) : queue'[d] = queue[d] \o s
  <2>1. queue[d] \in Seq(Order) /\ queue[d] \o << >> = queue[d] /\ << >> \in Seq(Order)
    BY <1>0 DEF Types
  <2>2. CASE queue' = queue
    BY <2>1, <2>2
  <2>3. CASE queue' # queue
    <3>1. Receive(d)
      BY <2>3 DEF Confirmed, BothConfirmed, Snapshot, SendRecord
    <3>2. PICK c : queue' = [queue EXCEPT ![d] = Append(@, c)]
      BY <2>3, <3>1 DEF Receive
    <3>3. queue'[d] = Append(queue[d], c)
      BY <1>0, <3>2 DEF Types
    <3>4. Types'
      BY <3>1, TypesStep, NextIsTurn DEF Turn
    <3>5. Append(queue[d], c) \in Seq(Order)
      <4>1. queue'[d] \in Seq(Order)
        BY <3>4 DEF Types
      <4> QED BY <3>3, <4>1
    <3>6. c \in Order
      <4>1. Len(queue[d]) + 1 \in DOMAIN Append(queue[d], c) /\ Append(queue[d], c)[Len(queue[d]) + 1] = c
        BY <2>1
      <4> QED BY <3>5, <4>1
    <3>7. <<c>> \in Seq(Order) /\ Append(queue[d], c) = queue[d] \o <<c>>
      BY <2>1, <3>6
    <3> QED BY <3>3, <3>7
  <2> QED BY <2>2, <2>3
<1> QED BY <1>0, <1>1, <1>2, <1>3, <1>4, ClaimGoesOn, StagedIs

Advances(u, t, phase) == Alike(u, t) /\ u.phase = phase /\ u.n = t.n + 1 /\ u.identity = t.identity

LEMMA Answered ==
  ASSUME Types, NEW d \in Device, NEW t \in TaskRecord, t = task[d], NEW phase \in TaskPhase,
         NEW id, queue[d] # << >>, Answer(d, id, phase, TRUE)
  PROVE  /\ \E u \in TaskRecord : task'[d] = u /\ Advances(u, t, phase)
         /\ queue'[d] = Tail(queue[d]) /\ inbox' = inbox
<1>1. PICK n \in Nat : n = t.n + 1
  BY DEF TaskRecord
<1>2. PICK u : u = [t EXCEPT !.phase = phase, !.n = n]
  OBVIOUS
<1>3. task'[d] = u
  BY <1>1, <1>2 DEF Answer, Types
<1>4. u \in TaskRecord
  BY <1>2 DEF TaskRecord
<1>5. u.id = t.id /\ u.phase = phase /\ u.n = n /\ u.records = t.records /\ u.identity = t.identity
  BY <1>2 DEF TaskRecord
<1>6. u.sending = t.sending /\ u.ok = t.ok
  BY <1>2 DEF TaskRecord
<1>7. queue'[d] = Tail(queue[d]) /\ inbox' = inbox
  BY DEF Answer, Types
<1> QED BY <1>1, <1>3, <1>4, <1>5, <1>6, <1>7 DEF Alike, Advances

\* What is left when the core refused a request.
LEMMA Denied ==
  ASSUME Types, NEW d \in Device, NEW phase, NEW id, queue[d] # << >>, Answer(d, id, phase, FALSE)
  PROVE  \/ task'[d] = None /\ queue'[d] = Tail(queue[d]) \o Cleanup(d) /\ inbox'[d] = << >>
         \/ task' = task /\ queue'[d] = Tail(queue[d]) /\ inbox' = inbox
BY DEF Answer, Types

LEMMA ClaimDenied ==
  ASSUME Types, NEW d \in Device, NEW phase, NEW k, queue[d] # << >>, Answer(d, k, phase, FALSE),
         Head(queue[d]).op # "cleanup", NEW id \in Sessions, Claimed(d, id)
  PROVE  Claimed(d, id)'
<1>1. CASE queue'[d] = Tail(queue[d]) \o Cleanup(d)
  BY <1>1, ClaimIsLeft
<1>2. CASE task' = task /\ queue'[d] = Tail(queue[d])
  <2>1. PICK s \in Seq(Order) : s = << >>
    <3>1. << >> \in Seq(Order)
      OBVIOUS
    <3> QED BY <3>1
  <2> QED BY <1>2, <2>1, ClaimGoesOn
<1> QED BY <1>1, <1>2, Denied

LEMMA StagedOfStaged ==
  ASSUME PairingInv, Grows, NEW d \in Device, StageRecord(d)
  PROVE  Staged(d)'
<1>1. PICK c : c = Head(queue[d])
  OBVIOUS
<1>2. PICK ok \in BOOLEAN : ok = (ValidReceiver(d, c.id) /\ Len(stage[d][c.id]) = c.seq)
  BY DEF ValidReceiver
<1>3. /\ Answer(d, c.id, "receive", ok)
      /\ stage' = IF ok THEN [stage EXCEPT ![d][c.id] = Append(@, c.record)] ELSE stage
  BY <1>1, <1>2 DEF StageRecord
<1>4. Types /\ Staged(d) /\ Requests(d)
  BY DEF PairingInv, Local
<1>5. queue[d] # << >> /\ c.op = "stage" /\ c \in Order /\ 1 \in DOMAIN queue[d] /\ queue[d][1] = c
  BY <1>1, <1>4, HeadIs DEF StageRecord
<1>6. c.id \in Sessions /\ c.record \in Record
  BY <1>5, OrderIs
<1>7. CASE ~ok
  <2>1. stage' = stage
    BY <1>3, <1>7
  <2>2. \A id \in Sessions : Claimed(d, id) => Claimed(d, id)'
    BY <1>1, <1>3, <1>4, <1>5, <1>7, ClaimDenied
  <2> QED BY <1>4, <2>1, <2>2, StagedIs
<1>8. CASE ok
  <2>1. task[d] # None /\ task[d].id = c.id /\ ~task[d].sending
    <3>1. ValidReceiver(d, c.id)
      BY <1>2, <1>8
    <3>2. queue[d][1].op = c.op /\ queue[d][1].id = c.id
      BY <1>5
    <3> QED BY <1>5, <3>1, <3>2, Received
  <2>2. PICK t \in TaskRecord : t = task[d]
    BY <1>4, <2>1 DEF Types
  <2>3. PICK u \in TaskRecord : task'[d] = u /\ Alike(u, t)
    <3>1. Answer(d, c.id, "receive", TRUE) /\ "receive" \in TaskPhase
      BY <1>3, <1>8 DEF TaskPhase
    <3> QED BY <1>4, <1>5, <2>2, <3>1, Answered DEF Advances
  <2>4. queue'[d] = Tail(queue[d])
    BY <1>3, <1>4, <1>8 DEF Answer, Types
  <2>5. PICK s \in Seq(Order) : s = << >>
    <3>1. << >> \in Seq(Order)
      OBVIOUS
    <3> QED BY <3>1
  <2>6. \A id \in Sessions : Claimed(d, id) => Claimed(d, id)'
    <3>1. task'[d] # None /\ task'[d].id = task[d].id /\ task'[d].sending = task[d].sending
      BY <2>2, <2>3, NoneIs DEF Alike
    <3>2. Head(queue[d]).op # "cleanup"
      BY <1>1, <1>5
    <3> QED BY <1>4, <1>5, <2>4, <2>5, <3>1, <3>2, ClaimGoesOn
  <2>7. PICK q \in Seq(Record) : q = stage[d][c.id]
    BY <1>4, <1>6 DEF Types
  <2>8. stage'[d][c.id] = Append(q, c.record) /\ \A id \in Sessions : id # c.id => stage'[d][id] = stage[d][id]
    BY <1>3, <1>4, <1>6, <1>8, <2>7 DEF Types
  <2>9. Len(q) = c.seq /\ c.seq <= MaxLog
        /\ (c.seq = 0 => c.id \in DOMAIN snaps /\ c.record.messages = snaps[c.id])
    BY <1>2, <1>4, <1>5, <1>8, <2>7 DEF Requests, Asks
  <2>10. /\ c.id \in DOMAIN snaps' /\ Head(Append(q, c.record)).messages = snaps'[c.id]
         /\ Len(Append(q, c.record)) <= 1 + MaxLog
    <3>1. CASE q = << >>
      <4>1. Head(Append(q, c.record)) = c.record /\ Len(q) = 0 /\ Len(Append(q, c.record)) = 1
        BY <1>6, <3>1
      <4> QED BY <2>9, <4>1, PairingAssumption DEF Grows
    <3>2. CASE q # << >>
      <4>1. Head(Append(q, c.record)) = Head(q) /\ Len(Append(q, c.record)) = Len(q) + 1 /\ Len(q) \in Nat
        BY <1>6, <3>2
      <4>2. c.id \in DOMAIN snaps /\ Head(q).messages = snaps[c.id]
        BY <1>4, <1>6, <2>7, <3>2 DEF Staged
      <4> QED BY <2>9, <4>1, <4>2, PairingAssumption DEF Grows
    <3> QED BY <3>1, <3>2
  <2>11. Claimed(d, c.id)'
    BY <2>1, <2>2, <2>3, NoneIs DEF Claimed, On, Alike
  <2> SUFFICES ASSUME NEW id \in Sessions, stage'[d][id] # << >>
      PROVE /\ Claimed(d, id)'
            /\ id \in DOMAIN snaps' /\ Head(stage'[d][id]).messages = snaps'[id]
            /\ Len(stage'[d][id]) <= 1 + MaxLog
    BY DEF Staged, Claimed, On, CleansUp
  <2>12. CASE id = c.id
    BY <2>8, <2>10, <2>11, <2>12
  <2>13. CASE id # c.id
    <3>1. stage'[d][id] = stage[d][id] /\ stage[d][id] # << >>
      BY <2>8, <2>13
    <3>2. Claimed(d, id)
      BY <1>4, <3>1 DEF Staged, Claimed
    <3>3. id \in DOMAIN snaps' /\ Head(stage'[d][id]).messages = snaps'[id] /\ Len(stage'[d][id]) <= 1 + MaxLog
      BY <1>4, <3>1 DEF Staged, Grows
    <3> QED BY <2>6, <3>2, <3>3
  <2> QED BY <2>12, <2>13
<1> QED BY <1>7, <1>8

LEMMA EmptyIs == << >> \in Seq(Order) /\ \A q \in Seq(Order) : q \o << >> = q
OBVIOUS

LEMMA StagedOfInstall ==
  ASSUME PairingInv, Grows, NEW d \in Device, Install(d)
  PROVE  Staged(d)'
<1>1. PICK c : c = Head(queue[d])
  OBVIOUS
<1>2. PICK ok \in BOOLEAN : ok = (ValidReceiver(d, c.id) /\ ~Has(d) /\ WholeHistory(stage[d][c.id]))
  BY DEF ValidReceiver
<1>3. /\ Answer(d, c.id, "installed", ok)
      /\ stage' = IF ok THEN [stage EXCEPT ![d][c.id] = << >>] ELSE stage
  BY <1>1, <1>2 DEF Install, stores
<1>4. Types /\ Staged(d) /\ Requests(d)
  BY DEF PairingInv, Local
<1>5. queue[d] # << >> /\ c.op = "install" /\ c \in Order /\ 1 \in DOMAIN queue[d] /\ queue[d][1] = c
  BY <1>1, <1>4, HeadIs DEF Install
<1>6. c.id \in Sessions
  BY <1>5, OrderIs
<1>7. CASE ~ok
  <2>1. stage' = stage
    BY <1>3, <1>7
  <2>2. \A id \in Sessions : Claimed(d, id) => Claimed(d, id)'
    BY <1>1, <1>3, <1>4, <1>5, <1>7, ClaimDenied
  <2> QED BY <1>4, <2>1, <2>2, StagedIs
<1>8. CASE ok
  <2>1. task[d] # None
    BY <1>2, <1>8 DEF ValidReceiver
  <2>2. PICK t \in TaskRecord : t = task[d]
    BY <1>4, <2>1 DEF Types
  <2>3. (\E u \in TaskRecord : task'[d] = u /\ Alike(u, t)) /\ queue'[d] = Tail(queue[d])
    <3>1. Answer(d, c.id, "installed", TRUE) /\ "installed" \in TaskPhase
      BY <1>3, <1>8 DEF TaskPhase
    <3> QED BY <1>4, <1>5, <2>2, <3>1, Answered DEF Advances
  <2>4. task'[d] # None /\ task'[d].id = task[d].id /\ task'[d].sending = task[d].sending
    BY <2>2, <2>3, NoneIs DEF Alike
  <2>5. \A id \in Sessions : Claimed(d, id) => Claimed(d, id)'
    <3>1. Head(queue[d]).op # "cleanup"
      BY <1>1, <1>5
    <3> QED BY <1>4, <1>5, <2>3, <2>4, <3>1, EmptyIs, ClaimGoesOn
  <2>6. \A id \in Sessions : stage'[d][id] # << >> => stage'[d][id] = stage[d][id]
    BY <1>3, <1>4, <1>6, <1>8 DEF Types
  <2> QED BY <1>4, <2>5, <2>6, StagedIs
<1> QED BY <1>7, <1>8

LEMMA StagedOfCleaning ==
  ASSUME PairingInv, Grows, NEW d \in Device, CleanStage(d) \/ Cancelled(d)
  PROVE  Staged(d)'
<1> USE DEF stores, memory, history
<1>0. Types /\ Staged(d) /\ queue[d] # << >> /\ Head(queue[d]) \in Order /\ queue'[d] = Tail(queue[d])
  BY HeadIs DEF PairingInv, Local, CleanStage, Cancelled, Types
<1>1. CASE CleanStage(d)
  <2>1. PICK c \in Order : c = Head(queue[d])
    BY <1>0
  <2>2. c.op = "cleanup" /\ c.id \in Sessions /\ stage' = [stage EXCEPT ![d][c.id] = << >>] /\ task' = task
    BY <1>1, <2>1, OrderIs DEF CleanStage
  <2>3. ASSUME NEW id \in Sessions, stage'[d][id] # << >>
        PROVE  stage'[d][id] = stage[d][id] /\ (Claimed(d, id) => Claimed(d, id)')
    <3>1. stage'[d][id] = stage[d][id] /\ id # c.id
      BY <1>0, <2>2, <2>3 DEF Types
    <3>2. ~(Head(queue[d]).op = "cleanup" /\ Head(queue[d]).id = id)
      BY <2>1, <3>1
    <3> QED BY <1>0, <2>2, <3>1, <3>2, EmptyIs, ClaimGoesOn
  <2> QED BY <1>0, <2>3, StagedIs
<1>2. CASE Cancelled(d)
  <2>1. Head(queue[d]).op # "cleanup"
    BY <1>2 DEF Cancelled
  <2>2. \A id \in Sessions : stage'[d][id] # << >> => stage'[d][id] = stage[d][id]
    <3>1. CASE active[d] = None
      BY <1>2, <3>1 DEF Cancelled
    <3>2. CASE active[d] # None
      <4>1. PICK k \in Sessions : k = active[d].id
        BY <1>0, <3>2 DEF Types, ActiveRecord
      <4>2. stage' = [stage EXCEPT ![d][k] = << >>]
        BY <1>2, <3>2, <4>1 DEF Cancelled
      <4> QED BY <1>0, <4>2 DEF Types
    <3> QED BY <3>1, <3>2
  <2>3. task[d] # None => task'[d] # None /\ task'[d].id = task[d].id /\ task'[d].sending = task[d].sending
    <3>1. CASE Live(d)
      <4>1. PICK t \in TaskRecord : t = task[d]
        BY <1>0, <3>1 DEF Live, Types
      <4>2. task' = InPhase(d, "aborted") /\ "aborted" \in TaskPhase
        BY <1>2, <3>1 DEF Cancelled, TaskPhase
      <4>3. PICK u \in TaskRecord : task'[d] = u /\ Alike(u, t)
        BY <1>0, <4>1, <4>2, Moved
      <4> QED BY <4>1, <4>3, NoneIs DEF Alike
    <3>2. CASE ~Live(d)
      BY <1>2, <3>2 DEF Cancelled
    <3> QED BY <3>1, <3>2
  <2>4. \A id \in Sessions : Claimed(d, id) => Claimed(d, id)'
    BY <1>0, <2>1, <2>3, EmptyIs, ClaimGoesOn
  <2> QED BY <1>0, <2>2, <2>4, StagedIs
<1> QED BY <1>1, <1>2

LEMMA StagedStep == PairingInv /\ Next => \A e \in Device : Staged(e)'
<1> SUFFICES ASSUME PairingInv, Next, NEW e \in Device PROVE Staged(e)'
  OBVIOUS
<1>0. Grows /\ Types /\ \A x \in Device : Staged(x)
  BY NextGrows DEF PairingInv, Local
<1>1. ASSUME NEW d \in Device, Turn(d) PROVE Staged(e)'
  <2>1. CASE e = d
    BY <1>0, <1>1, <2>1, StagedOfUser, StagedOfStaged, StagedOfInstall, StagedOfCleaning,
       StagedOfTask, StagedOfEnd DEF Turn
  <2>2. CASE e # d
    <3>1. Kept(e)
      BY <1>0, <1>1, <2>2, MineOnly
    <3> QED BY <1>0, <3>1, StagedKeeps DEF Kept
  <2> QED BY <2>1, <2>2
<1>2. ASSUME NEW d \in Device, NEW p \in Device, Meet(d, p) PROVE Staged(e)'
  <2>0. stage' = stage /\ queue[e] \in Seq(Order)
    BY <1>0, <1>2, MeetIs DEF stores, Types
  <2>v. ASSUME task[e] \in TaskRecord, task'[e] = [task[e] EXCEPT !.phase = "verify"]
        PROVE  task'[e] # None /\ task'[e].id = task[e].id /\ task'[e].sending = task[e].sending
    <3>1. PICK t \in TaskRecord : t = task[e]
      BY <2>v
    <3>2. PICK u : u = [t EXCEPT !.phase = "verify"]
      OBVIOUS
    <3>3. u.id = t.id /\ u # None
      BY <3>2 DEF TaskRecord, None
    <3>4. u.sending = t.sending
      BY <3>2 DEF TaskRecord
    <3> QED BY <2>v, <3>1, <3>2, <3>3, <3>4
  <2>1. CASE e = d
    <3>1. task'[e] # None /\ task'[e].id = task[e].id /\ task'[e].sending = task[e].sending
      BY <1>0, <1>2, <2>1, <2>v, MeetIs
    <3>2. queue'[e] = queue[e] \o << >>
      <4>1. queue'[e] = queue[e]
        BY <1>0, <1>2, <2>1, MeetIs
      <4> QED BY <2>0, <4>1, EmptyIs
    <3> QED BY <1>0, <2>0, <3>1, <3>2, EmptyIs, ClaimGoesOn, StagedIs
  <2>2. CASE e = p
    <3>1. CASE task'[p] = [task[p] EXCEPT !.phase = "verify"] /\ queue' = queue
      <4>1. task'[e] # None /\ task'[e].id = task[e].id /\ task'[e].sending = task[e].sending
        BY <1>0, <1>2, <2>2, <2>v, <3>1, MeetIs
      <4>2. queue'[e] = queue[e] \o << >>
        BY <2>0, <3>1, EmptyIs
      <4> QED BY <1>0, <2>0, <4>1, <4>2, EmptyIs, ClaimGoesOn, StagedIs
    <3>2. CASE queue'[p] = queue[p] \o Cleanup(p)
      BY <1>0, <2>0, <2>2, <3>2, ClaimIsLeft, StagedIs
    <3> QED BY <1>0, <1>2, <3>1, <3>2, MeetIs
  <2>3. CASE e \notin {d, p}
    <3>1. Kept(e)
      BY <1>0, <1>2, <2>3, MeetIs
    <3> QED BY <1>0, <3>1, StagedKeeps DEF Kept
  <2> QED BY <2>1, <2>2, <2>3
<1> QED BY <1>1, <1>2, NextIsTurn

-----------------------------------------------------------------------------
(* What is installed                                                       *)

LEMMA InstalledOfInstall ==
  ASSUME PairingInv, Grows, NEW d \in Device, Install(d)
  PROVE  Installed(d)'
<1>1. PICK c : c = Head(queue[d])
  OBVIOUS
<1>2. PICK ok \in BOOLEAN : ok = (ValidReceiver(d, c.id) /\ ~Has(d) /\ WholeHistory(stage[d][c.id]))
  BY DEF ValidReceiver
<1>3. IF ok THEN /\ account' = [account EXCEPT ![d] = c.identity]
                 /\ log' = [log EXCEPT ![d] = Len(stage[d][c.id]) - 1]
                 /\ via' = [via EXCEPT ![d] = c.id]
      ELSE account' = account /\ log' = log /\ via' = via
  BY <1>1, <1>2 DEF Install, stores
<1>4. Types /\ Installed(d) /\ Staged(d) /\ Requests(d) /\ TaskTrue(d)
  BY DEF PairingInv, Local
<1>5. queue[d] # << >> /\ c.op = "install" /\ c \in Order /\ 1 \in DOMAIN queue[d] /\ queue[d][1] = c
  BY <1>1, <1>4, HeadIs DEF Install
<1>6. c.id \in Sessions
  BY <1>5, OrderIs
<1>7. CASE ~ok
  BY <1>3, <1>4, <1>7, InstalledKeeps
<1>8. CASE ok
  <2>1. task[d] # None /\ task[d].id = c.id /\ ~task[d].sending /\ <<d, c.id>> \in agreed
    <3>1. ValidReceiver(d, c.id)
      BY <1>2, <1>8
    <3>2. queue[d][1].op = c.op /\ queue[d][1].id = c.id
      BY <1>5
    <3> QED BY <1>5, <3>1, <3>2, Received
  <2>2. d \notin Holder
    <3>1. d \in Holder => Has(d)
      BY <1>4, PairingAssumption DEF Installed, Has
    <3> QED BY <1>2, <1>8, <3>1
  <2>3. account'[d] = c.identity /\ via'[d] = c.id /\ log'[d] = Len(stage[d][c.id]) - 1
    BY <1>3, <1>4, <1>8 DEF Types
  <2>4. Vouched(d, c.id, c.identity)' /\ c.identity # "none"
    <3>1. Vouched(d, c.id, c.identity)
      BY <1>4, <1>5 DEF Requests, Asks
    <3> QED BY <3>1, VouchedStays DEF Vouched
  <2>5. c.id \in DOMAIN snaps' /\ log'[d] = snaps'[c.id]
    <3>1. PICK q \in Seq(Record) : q = stage[d][c.id]
      BY <1>4, <1>6 DEF Types
    <3>2. q # << >> /\ Len(q) = 1 + Head(q).messages
      BY <1>2, <1>8, <3>1 DEF WholeHistory
    <3>3. c.id \in DOMAIN snaps /\ Head(q).messages = snaps[c.id]
      BY <1>4, <1>6, <3>1, <3>2 DEF Staged
    <3>4. snaps[c.id] \in Nat
      BY <1>4, <3>3, PairingAssumption DEF Types
    <3>5. log'[d] = snaps[c.id]
      BY <2>3, <3>1, <3>2, <3>3, <3>4
    <3> QED BY <3>3, <3>5 DEF Grows
  <2>6. Takes(d, c.id)'
    <3>1. Takes(d, c.id)
      BY <1>4, <2>1 DEF TaskTrue
    <3> QED BY <3>1 DEF Takes, Grows
  <2>7. <<d, c.id>> \in agreed'
    BY <2>1 DEF Grows
  <2>8. Vouched(d, via[d], account[d])' /\ Takes(d, via[d])' /\ Has(d)'
    BY <2>3, <2>4, <2>6 DEF Vouched, Takes, Has
  <2> QED BY <2>2, <2>3, <2>5, <2>7, <2>8 DEF Installed
<1> QED BY <1>7, <1>8

LEMMA InstalledStep == PairingInv /\ Next => \A e \in Device : Installed(e)'
<1> SUFFICES ASSUME PairingInv, Next, NEW e \in Device PROVE Installed(e)'
  OBVIOUS
<1> USE DEF stores, memory, history
<1>0. Grows /\ Types /\ Installed(e)
  BY NextGrows DEF PairingInv, Local
<1>1. ASSUME NEW d \in Device, Turn(d) PROVE Installed(e)'
  <2>1. CASE e # d
    <3>1. Kept(e)
      BY <1>0, <1>1, <2>1, MineOnly
    <3> QED BY <1>0, <3>1, InstalledKeeps DEF Kept
  <2>2. CASE e = d /\ Install(d)
    BY <1>0, <2>2, InstalledOfInstall
  <2>3. CASE e = d /\ LateMail(d)
    <3>1. via' = via /\ account' = account /\ d \in Holder /\ via[d] = 0
      BY <1>0, <2>3 DEF LateMail, Installed
    <3> QED BY <1>0, <2>3, <3>1, InstalledKeeps
  <2>4. CASE ~Install(d) /\ ~LateMail(d)
    <3>1. via' = via /\ account' = account /\ log' = log
      BY <1>1, <2>4 DEF Turn, Show, Scan, Begins, Refused, Confirm, Cancel, Restart, StageRecord, CleanStage,
         Cancelled, Confirmed, BothConfirmed, Snapshot, SendRecord, Receive, SendInstalled, SourceDone,
         Fail, Dropped
    <3> QED BY <1>0, <3>1, InstalledKeeps
  <2> QED BY <2>1, <2>2, <2>3, <2>4
<1>2. ASSUME NEW d \in Device, NEW p \in Device, Meet(d, p) PROVE Installed(e)'
  <2>1. via' = via /\ account' = account /\ log' = log
    BY <1>0, <1>2, MeetIs
  <2> QED BY <1>0, <2>1, InstalledKeeps
<1> QED BY <1>1, <1>2, NextIsTurn

LEMMA LocalStep == PairingInv /\ Next => \A e \in Device : Local(e)'
BY TaskStep, ActiveStep, RequestsStep, StagedStep, InstalledStep DEF Local

-----------------------------------------------------------------------------
(* Frames on the way                                                       *)

LEMMA FramesIs == << >> \in Seq(Frame) /\ \A q \in Seq(Frame) : q \o << >> = q
OBVIOUS

LEMMA OneFrame ==
  ASSUME NEW f \in Frame
  PROVE  <<f>> \in Seq(Frame) /\ \A q \in Seq(Frame) : q \o <<f>> = Append(q, f)
OBVIOUS

\* A peer is told one frame, and nobody else hears it.
LEMMA ToldOne ==
  ASSUME Types, NEW d \in Device, NEW f \in Frame, NEW e \in Device, e # d
  PROVE  /\ e \in Peers(d) => Told(d, <<f>>)[e] = Append(inbox[e], f)
         /\ e \notin Peers(d) => Told(d, <<f>>)[e] = inbox[e]
         /\ Told(d, << >>)[e] = inbox[e]
<1>1. PICK q \in Seq(Frame) : q = inbox[e]
  BY DEF Types
<1>2. q \o <<f>> = Append(q, f) /\ q \o << >> = q
  BY OneFrame, FramesIs
<1> QED BY <1>1, <1>2 DEF Told

LEMMA PeersAre ==
  ASSUME Types, NEW d \in Device, NEW e \in Device
  PROVE  e \in Peers(d) <=> e # d /\ Beyond(e) /\ task[e].id = task[d].id
BY DEF Peers, Beyond, On

LEMMA InboxOfOthers ==
  ASSUME PairingInv, NEW d \in Device, Turn(d), NEW e \in Device, e # d
  PROVE  \/ inbox'[e] = inbox[e]
         \/ e \in Peers(d) /\ \E f \in Frame : /\ inbox'[e] = Append(inbox[e], f)
                                               /\ f.op = "installed" => At(d, "installed")
<1> USE DEF stores, memory, history
<1>0. Types
  BY DEF PairingInv
<1> DEFINE Goal == \/ inbox'[e] = inbox[e]
                   \/ e \in Peers(d) /\ \E f \in Frame : /\ inbox'[e] = Append(inbox[e], f)
                                                         /\ f.op = "installed" => At(d, "installed")
<1>t. ASSUME NEW f \in Frame, inbox'[e] = Told(d, <<f>>)[e], f.op = "installed" => At(d, "installed")
      PROVE  Goal
  BY <1>0, <1>t, ToldOne
<1>1. CASE \/ Show(d) \/ Refused(d) \/ Confirm(d) \/ Cancel(d) \/ LateMail(d) \/ Restart(d)
           \/ \E id \in Sessions : Scan(d, id)
  <2>1. inbox'[e] = inbox[e]
    BY <1>0, <1>1 DEF Show, Refused, Confirm, Cancel, LateMail, Restart, Scan, Begins, Types
  <2> QED BY <2>1
<1>2. CASE StageRecord(d) \/ Install(d)
  <2>1. PICK id, phase, ok : Answer(d, id, phase, ok)
    BY <1>2 DEF StageRecord, Install
  <2>2. inbox'[e] = inbox[e]
    BY <1>0, <2>1 DEF Answer, Types
  <2> QED BY <2>2
<1>3. CASE CleanStage(d) \/ Cancelled(d) \/ Snapshot(d)
  BY <1>3 DEF CleanStage, Cancelled, Snapshot
<1>4. CASE Receive(d) \/ SourceDone(d) \/ Fail(d) \/ Dropped(d)
  <2>1. inbox'[e] = inbox[e]
    BY <1>0, <1>4 DEF Receive, SourceDone, Fail, Dropped, Ends, Types
  <2> QED BY <2>1
<1>5. CASE Confirmed(d)
  <2>1. PICK f \in Frame : f = [op |-> "confirmed"]
    BY FrameIs
  <2>2. inbox'[e] = Told(d, <<f>>)[e] /\ f.op # "installed"
    BY <1>5, <2>1 DEF Confirmed
  <2> QED BY <1>t, <2>2
<1>6. CASE BothConfirmed(d)
  <2>1. PICK f \in Frame : f = [op |-> "link", identity |-> account[d]]
    <3>1. account[d] \in Identity
      BY <1>0 DEF Types
    <3> QED BY <3>1, FrameIs
  <2>2. f.op # "installed"
    BY <2>1
  <2>3. inbox' = [Told(d, IF task[d].sending THEN <<f>> ELSE << >>) EXCEPT ![d] = Tail(@)]
    BY <1>6, <2>1 DEF BothConfirmed
  <2>4. \/ inbox'[e] = Told(d, <<f>>)[e]
        \/ inbox'[e] = Told(d, << >>)[e]
    BY <2>3 DEF Told
  <2>5. CASE inbox'[e] = Told(d, <<f>>)[e]
    BY <1>t, <2>2, <2>5
  <2>6. CASE inbox'[e] = Told(d, << >>)[e]
    BY <1>0, <2>1, <2>6, ToldOne
  <2> QED BY <2>4, <2>5, <2>6
<1>7. CASE SendRecord(d)
  <2>1. Types'
    BY <1>7, TypesStep, NextIsTurn DEF Turn
  <2>2. PICK f : (f = [op |-> "end"] \/ \E m \in Nat : f = [op |-> "record", messages |-> m]) /\ inbox' = Told(d, <<f>>)
    <3>1. CASE inbox' = Told(d, <<[op |-> "end"]>>)
      BY <3>1
    <3>2. PICK m : inbox' = Told(d, <<[op |-> "end"]>>) \/
                   (inbox' = Told(d, <<[op |-> "record", messages |-> m]>>) /\ m = IF task[d].n = 0 THEN task[d].records - 1 ELSE 0)
      BY <1>7 DEF SendRecord
    <3>3. (IF task[d].n = 0 THEN task[d].records - 1 ELSE 0) \in Nat
      <4>1. task[d] \in TaskRecord /\ task[d].records # 0
        BY <1>0, <1>7 DEF SendRecord, At, Types
      <4> QED BY <4>1 DEF TaskRecord
    <3> QED BY <3>1, <3>2, <3>3
  <2>3. f \in Frame /\ f.op # "installed"
    BY <2>2, FrameIs
  <2> QED BY <1>t, <2>2, <2>3
<1>8. CASE SendInstalled(d)
  <2>1. PICK f \in Frame : f = [op |-> "installed"]
    BY FrameIs
  <2>2. \/ inbox' = [Told(d, <<f>>) EXCEPT ![d] = << >>]
        \/ inbox' = [inbox EXCEPT ![d] = << >>]
    BY <1>8, <2>1 DEF SendInstalled
  <2>3. inbox'[e] = Told(d, <<f>>)[e] \/ inbox'[e] = inbox[e]
    BY <1>0, <2>2 DEF Told, Types
  <2>4. At(d, "installed")
    BY <1>8 DEF SendInstalled
  <2> QED BY <1>t, <2>3, <2>4
<1> HIDE DEF Goal
<1> QED BY <1>1, <1>2, <1>3, <1>4, <1>5, <1>6, <1>7, <1>8 DEF Turn, Goal

\* What the steps of a task do, field by field.
LEMMA ConfirmedIs ==
  ASSUME Types, NEW d \in Device, Confirmed(d)
  PROVE  \E t \in TaskRecord, u \in TaskRecord, f \in Frame :
           /\ t = task[d] /\ u = task'[d] /\ Alike(u, t)
           /\ t.phase = "verify" /\ u.phase = "wait" /\ u.n = t.n /\ u.identity = t.identity
           /\ f.op = "confirmed" /\ inbox' = Told(d, <<f>>)
<1>1. PICK t \in TaskRecord : t = task[d]
  BY DEF Confirmed, At, Types
<1>2. task' = InPhase(d, "wait") /\ "wait" \in TaskPhase /\ t.phase = "verify"
  BY <1>1 DEF Confirmed, At, TaskPhase
<1>3. PICK u \in TaskRecord : task'[d] = u /\ Alike(u, t) /\ u.phase = "wait" /\ u.n = t.n /\ u.identity = t.identity
  BY <1>1, <1>2, Moved
<1>4. PICK f \in Frame : f = [op |-> "confirmed"]
  BY FrameIs
<1>5. f.op = "confirmed" /\ inbox' = Told(d, <<f>>)
  BY <1>4 DEF Confirmed
<1> QED BY <1>1, <1>2, <1>3, <1>5

LEMMA BothConfirmedIs ==
  ASSUME Types, NEW d \in Device, BothConfirmed(d)
  PROVE  \E t \in TaskRecord, u \in TaskRecord, f \in Frame :
           /\ t = task[d] /\ u = task'[d] /\ Alike(u, t)
           /\ t.phase = "wait" /\ u.phase = (IF t.sending THEN "send" ELSE "receive")
           /\ u.n = t.n /\ u.identity = t.identity
           /\ f.op = "link" /\ f.identity = account[d]
           /\ inbox[d] # << >> /\ inbox'[d] = Tail(inbox[d])
           /\ t.sending => \A e \in Device \ {d} : inbox'[e] = Told(d, <<f>>)[e]
           /\ ~t.sending => \A e \in Device \ {d} : inbox'[e] = inbox[e]
<1>1. PICK t \in TaskRecord : t = task[d]
  BY DEF BothConfirmed, At, Types
<1>2. PICK phase \in TaskPhase : phase = IF t.sending THEN "send" ELSE "receive"
  BY DEF TaskPhase
<1>3. task' = InPhase(d, phase) /\ t.phase = "wait" /\ inbox[d] # << >>
  BY <1>1, <1>2 DEF BothConfirmed, At
<1>4. PICK u \in TaskRecord : task'[d] = u /\ Alike(u, t) /\ u.phase = phase /\ u.n = t.n /\ u.identity = t.identity
  BY <1>1, <1>3, Moved
<1>5. PICK f \in Frame : f = [op |-> "link", identity |-> account[d]]
  <2>1. account[d] \in Identity
    BY DEF Types
  <2> QED BY <2>1, FrameIs
<1>6. f.op = "link" /\ f.identity = account[d]
  BY <1>5
<1>7. PICK frames \in Seq(Frame) : frames = IF t.sending THEN <<f>> ELSE << >>
  <2>1. <<f>> \in Seq(Frame) /\ << >> \in Seq(Frame)
    BY OneFrame, FramesIs
  <2> QED BY <2>1
<1>8. inbox' = [Told(d, frames) EXCEPT ![d] = Tail(@)]
  BY <1>1, <1>5, <1>7 DEF BothConfirmed
<1>9. inbox'[d] = Tail(inbox[d]) /\ \A e \in Device \ {d} : inbox'[e] = Told(d, frames)[e]
  BY <1>8, ToldIs DEF Told
<1>10. \A e \in Device \ {d} : Told(d, << >>)[e] = inbox[e]
  BY <1>5, ToldOne
<1> QED BY <1>1, <1>2, <1>3, <1>4, <1>6, <1>7, <1>9, <1>10

LEMMA SendRecordIs ==
  ASSUME Types, NEW d \in Device, SendRecord(d)
  PROVE  \E t \in TaskRecord, u \in TaskRecord, f \in Frame :
           /\ t = task[d] /\ u = task'[d] /\ Alike(u, t) /\ u.identity = t.identity
           /\ t.phase = "send" /\ t.records # 0
           /\ \/ /\ u.phase = "send" /\ u.n = t.n + 1 /\ t.n < t.records
                 /\ f.op = "record" /\ (t.n = 0 => f.messages = t.records - 1)
                 /\ snaps' = IF t.n = 0 THEN Put(snaps, t.id, t.records - 1) ELSE snaps
              \/ u.phase = "ack" /\ u.n = t.n /\ f.op = "end" /\ snaps' = snaps
           /\ inbox' = Told(d, <<f>>)
<1>1. PICK t \in TaskRecord : t = task[d]
  BY DEF SendRecord, At, Types
<1>2. t.phase = "send" /\ t.records # 0 /\ t.n \in Nat /\ t.records \in Nat
  BY <1>1 DEF SendRecord, At, TaskRecord
<1>3. PICK m \in Nat : m = IF t.n = 0 THEN t.records - 1 ELSE 0
  BY <1>2
<1>4. \/ /\ t.n < t.records
         /\ inbox' = Told(d, <<[op |-> "record", messages |-> m]>>)
         /\ task' = [task EXCEPT ![d].n = @ + 1]
         /\ snaps' = IF t.n = 0 THEN Put(snaps, t.id, m) ELSE snaps
      \/ inbox' = Told(d, <<[op |-> "end"]>>) /\ task' = InPhase(d, "ack") /\ snaps' = snaps
  BY <1>1, <1>3 DEF SendRecord
<1>5. CASE /\ t.n < t.records
           /\ inbox' = Told(d, <<[op |-> "record", messages |-> m]>>)
           /\ task' = [task EXCEPT ![d].n = @ + 1]
           /\ snaps' = IF t.n = 0 THEN Put(snaps, t.id, m) ELSE snaps
  <2>1. PICK f \in Frame : f = [op |-> "record", messages |-> m]
    BY FrameIs
  <2>2. f.op = "record" /\ f.messages = m
    BY <2>1
  <2>3. PICK u : u = [t EXCEPT !.n = t.n + 1]
    OBVIOUS
  <2>4. task'[d] = u
    BY <1>1, <1>5, <2>3 DEF Types
  <2>5. u.id = t.id /\ u.records = t.records /\ u.phase = t.phase /\ u.n = t.n + 1 /\ u.identity = t.identity
    BY <2>3 DEF TaskRecord
  <2>6. u.sending = t.sending /\ u.ok = t.ok
    BY <2>3 DEF TaskRecord
  <2>7. u \in TaskRecord
    BY <1>2, <2>3 DEF TaskRecord
  <2>8. inbox' = Told(d, <<f>>)
    BY <1>5, <2>1
  <2>9. Alike(u, t)
    BY <2>5, <2>6 DEF Alike
  <2>10. /\ u.phase = "send" /\ u.n = t.n + 1 /\ t.n < t.records
         /\ f.op = "record" /\ (t.n = 0 => f.messages = t.records - 1)
         /\ snaps' = IF t.n = 0 THEN Put(snaps, t.id, t.records - 1) ELSE snaps
    BY <1>2, <1>3, <1>5, <2>2, <2>5
  <2> QED BY <1>1, <1>2, <2>4, <2>5, <2>7, <2>8, <2>9, <2>10
<1>6. CASE inbox' = Told(d, <<[op |-> "end"]>>) /\ task' = InPhase(d, "ack") /\ snaps' = snaps
  <2>1. PICK f \in Frame : f = [op |-> "end"]
    BY FrameIs
  <2>2. "ack" \in TaskPhase
    BY DEF TaskPhase
  <2>3. PICK u \in TaskRecord : task'[d] = u /\ Alike(u, t) /\ u.phase = "ack" /\ u.n = t.n /\ u.identity = t.identity
    BY <1>1, <1>6, <2>2, Moved
  <2>4. f.op = "end" /\ inbox' = Told(d, <<f>>)
    BY <1>6, <2>1
  <2> QED BY <1>1, <1>2, <1>6, <2>3, <2>4
<1> QED BY <1>4, <1>5, <1>6

LEMMA ReceiveIs ==
  ASSUME PairingInv, NEW d \in Device, Receive(d)
  PROVE  \E t \in TaskRecord, u \in TaskRecord, f \in Frame :
           /\ t = task[d] /\ u = task'[d] /\ Alike(u, t) /\ u.n = t.n
           /\ t.phase = "receive" /\ f = Head(inbox[d])
           /\ inbox[d] # << >> /\ inbox'[d] = Tail(inbox[d])
           /\ \/ u.phase = "receive" /\ t.identity = "none" /\ u.identity # "none" /\ t.n = 0
              \/ u.phase \in {"staging", "installing"} /\ t.identity # "none" /\ u.identity = t.identity
           /\ \A e \in Device \ {d} : inbox'[e] = inbox[e]
<1>0. Types
  BY DEF PairingInv
<1>1. PICK t \in TaskRecord : t = task[d]
  BY <1>0 DEF Receive, At, Types
<1>2. t.phase = "receive" /\ inbox[d] # << >>
  BY <1>1 DEF Receive, At
<1>3. PICK f \in Frame : f = Head(inbox[d])
  BY <1>0, <1>2 DEF Types
<1>4. inbox'[d] = Tail(inbox[d]) /\ \A e \in Device \ {d} : inbox'[e] = inbox[e]
  BY <1>0 DEF Receive, Types
<1>5. /\ t.identity = "none" => f.op = "link" /\ Vouched(d, t.id, f.identity) /\ t.n = 0
      /\ t.identity # "none" => f.op \in {"record", "end"}
  BY <1>1, <1>2, <1>3, Incoming DEF Receive
<1>6. \/ f.op = "link" /\ task' = [task EXCEPT ![d].identity = f.identity]
      \/ f.op = "record" /\ t.identity # "none" /\ task' = InPhase(d, "staging")
      \/ f.op = "end" /\ task' = InPhase(d, "installing")
  BY <1>1, <1>3 DEF Receive
<1>7. CASE f.op = "link" /\ task' = [task EXCEPT ![d].identity = f.identity]
  <2>1. PICK u : u = [t EXCEPT !.identity = f.identity]
    OBVIOUS
  <2>2. task'[d] = u
    BY <1>0, <1>1, <1>7, <2>1 DEF Types
  <2>3. u.id = t.id /\ u.records = t.records /\ u.phase = t.phase /\ u.n = t.n /\ u.identity = f.identity
    BY <2>1 DEF TaskRecord
  <2>4. u.sending = t.sending /\ u.ok = t.ok
    BY <2>1 DEF TaskRecord
  <2>5. t.identity = "none" /\ f.identity # "none" /\ t.n = 0
    BY <1>5, <1>7 DEF Vouched
  <2>6. u \in TaskRecord
    <3>1. f.identity \in Identity
      BY <1>7, FrameIs
    <3> QED BY <2>1, <3>1 DEF TaskRecord
  <2>7. Alike(u, t)
    BY <2>3, <2>4 DEF Alike
  <2> QED BY <1>1, <1>2, <1>3, <1>4, <2>2, <2>3, <2>5, <2>6, <2>7
<1>8. ASSUME NEW phase \in {"staging", "installing"}, t.identity # "none", task' = InPhase(d, phase)
      PROVE  \E u \in TaskRecord : /\ task'[d] = u /\ Alike(u, t) /\ u.n = t.n
                                   /\ u.phase \in {"staging", "installing"} /\ u.identity = t.identity
  <2>1. phase \in TaskPhase
    BY DEF TaskPhase
  <2>2. PICK u \in TaskRecord : task'[d] = u /\ Alike(u, t) /\ u.phase = phase /\ u.n = t.n /\ u.identity = t.identity
    BY <1>0, <1>1, <1>8, <2>1, Moved
  <2> QED BY <2>2
<1>9. CASE ~(f.op = "link" /\ task' = [task EXCEPT ![d].identity = f.identity])
  <2>1. t.identity # "none" /\ (task' = InPhase(d, "staging") \/ task' = InPhase(d, "installing"))
    BY <1>5, <1>6, <1>9
  <2>2. PICK u \in TaskRecord : /\ task'[d] = u /\ Alike(u, t) /\ u.n = t.n
                                /\ u.phase \in {"staging", "installing"} /\ u.identity = t.identity
    BY <1>8, <2>1
  <2> QED BY <1>1, <1>2, <1>3, <1>4, <2>1, <2>2
<1> QED BY <1>7, <1>9

\* A step that neither reads nor writes a frame of the history, as the task of d sees it.
Idles(u, t) ==
  /\ u.id = t.id /\ u.sending = t.sending
  /\ \/ u.phase = "aborted"
     \/ u.phase = t.phase /\ u.n = t.n /\ u.identity = t.identity
     \/ t.phase = "staging" /\ u.phase = "receive" /\ u.n = t.n + 1 /\ u.identity = t.identity
     \/ t.phase = "installing" /\ u.phase = "installed" /\ u.n = t.n + 1 /\ u.identity = t.identity

Calm(d) == ~Confirmed(d) /\ ~BothConfirmed(d) /\ ~SendRecord(d) /\ ~Receive(d)

\* How a task can be left by such a step.
Ended(d) ==
  /\ task'[d] = None /\ snaps' = snaps
  /\ inbox'[d] = << >> \/ (task[d] = None /\ inbox'[d] = inbox[d])
Begun(d) ==
  /\ task'[d] # None /\ task'[d].phase \in {"listen", "connect"}
  /\ inbox'[d] = << >> /\ task'[d].n = 0 /\ snaps' = snaps
  /\ task'[d].phase = "connect" \/ task'[d].id \notin DOMAIN shown
Idled(d) ==
  /\ \E t \in TaskRecord, u \in TaskRecord : t = task[d] /\ u = task'[d] /\ Idles(u, t)
  /\ inbox'[d] = inbox[d] /\ snaps' = snaps

LEMMA CalmIs ==
  ASSUME PairingInv, NEW d \in Device, Turn(d), Calm(d)
  PROVE  Ended(d) \/ Begun(d) \/ Idled(d)
<1> USE DEF stores, memory, history
<1>0. Types /\ Types' /\ Requests(d) /\ TaskTrue(d)
  BY TypesStep, NextIsTurn DEF PairingInv, Local
<1> USE DEF Ended, Begun, Idled
<1>s. ASSUME task'[d] = task[d], inbox'[d] = inbox[d], snaps' = snaps PROVE Ended(d) \/ Idled(d)
  <2>1. CASE task[d] = None
    BY <1>s, <2>1
  <2>2. CASE task[d] # None
    <3>1. PICK t \in TaskRecord : t = task[d]
      BY <1>0, <2>2 DEF Types
    <3>2. Idles(t, t)
      BY DEF Idles
    <3> QED BY <1>s, <3>1, <3>2
  <2> QED BY <2>1, <2>2
<1>1. ASSUME NEW id, NEW phase \in {"listen", "connect"}, Begins(d, id, phase),
             phase = "listen" => id \notin DOMAIN shown
      PROVE  Begun(d)
  <2>1. PICK u : u = [id |-> id, phase |-> phase, sending |-> Has(d), ok |-> FALSE, n |-> 0,
                      records |-> 0, identity |-> "none"]
    OBVIOUS
  <2>2. task'[d] = u /\ inbox'[d] = << >> /\ snaps' = snaps
    BY <1>0, <1>1, <2>1 DEF Begins, Types
  <2>3. u.id = id /\ u.phase = phase /\ u.n = 0 /\ u # None
    BY <2>1 DEF None
  <2> QED BY <1>1, <2>2, <2>3
<1>2. CASE Show(d) \/ \E id \in Sessions : Scan(d, id)
  <2>1. CASE Show(d)
    <3>1. PICK id \in Sessions \ DOMAIN shown : Begins(d, id, "listen")
      BY <2>1 DEF Show
    <3>2. Begun(d)
      BY <1>1, <3>1
    <3> QED BY <3>2
  <2>2. CASE \E id \in Sessions : Scan(d, id)
    <3>1. Begun(d)
      BY <1>1, <2>2 DEF Scan
    <3> QED BY <3>1
  <2> QED BY <1>2, <2>1, <2>2
<1>3. CASE Refused(d) \/ LateMail(d) \/ CleanStage(d)
  <2>1. task' = task /\ inbox' = inbox /\ snaps' = snaps
    BY <1>3 DEF Refused, LateMail, CleanStage
  <2> QED BY <1>s, <2>1
<1>4. CASE Restart(d) \/ SendInstalled(d) \/ SourceDone(d) \/ Fail(d) \/ Dropped(d)
  <2>0. task'[d] = None /\ snaps' = snaps
    BY <1>0, <1>4 DEF Restart, SendInstalled, SourceDone, Fail, Dropped, Ends, Types
  <2>1. inbox'[d] = << >>
    <3>1. CASE Restart(d) \/ SourceDone(d) \/ Fail(d) \/ Dropped(d)
      BY <1>0, <3>1 DEF Restart, SourceDone, Fail, Dropped, Ends, Types
    <3>2. CASE SendInstalled(d)
      <4>1. PICK f \in Frame : f = [op |-> "installed"]
        BY FrameIs
      <4>2. Told(d, <<f>>) \in [Device -> Seq(Frame)]
        BY <1>0, OneFrame, ToldIs
      <4> QED BY <1>0, <3>2, <4>1, <4>2 DEF SendInstalled, Types
    <3> QED BY <1>4, <3>1, <3>2
  <2> QED BY <2>0, <2>1
<1>5. CASE Confirm(d)
  <2>1. PICK t \in TaskRecord : t = task[d]
    BY <1>0, <1>5 DEF Confirm, Types
  <2>2. PICK u : u = [t EXCEPT !.ok = TRUE]
    OBVIOUS
  <2>3. task'[d] = u /\ inbox' = inbox /\ snaps' = snaps
    BY <1>0, <1>5, <2>1, <2>2 DEF Confirm, Types
  <2>4. u \in TaskRecord
    BY <2>2 DEF TaskRecord
  <2>5. u.id = t.id /\ u.phase = t.phase /\ u.n = t.n /\ u.identity = t.identity
    BY <2>2 DEF TaskRecord
  <2>6. u.sending = t.sending
    BY <2>2 DEF TaskRecord
  <2>7. Idled(d)
    BY <2>1, <2>3, <2>4, <2>5, <2>6 DEF Idles
  <2> QED BY <2>7
<1>6. CASE Cancel(d) \/ Cancelled(d)
  <2>0. inbox' = inbox /\ snaps' = snaps /\ task' = (IF Live(d) THEN InPhase(d, "aborted") ELSE task)
    BY <1>6 DEF Cancel, Cancelled
  <2>1. CASE Live(d)
    <3>1. PICK t \in TaskRecord : t = task[d]
      BY <1>0, <2>1 DEF Live, Types
    <3>2. "aborted" \in TaskPhase /\ task' = InPhase(d, "aborted")
      BY <2>0, <2>1 DEF TaskPhase
    <3>3. PICK u \in TaskRecord : task'[d] = u /\ Alike(u, t) /\ u.phase = "aborted"
      BY <1>0, <3>1, <3>2, Moved
    <3>4. Idled(d)
      BY <2>0, <3>1, <3>3 DEF Idles, Alike
    <3> QED BY <3>4
  <2>2. CASE ~Live(d)
    BY <1>s, <2>0, <2>2
  <2> QED BY <2>1, <2>2
<1>7. CASE Snapshot(d)
  <2>1. PICK t \in TaskRecord : t = task[d]
    BY <1>0, <1>7 DEF Snapshot, Live, Types
  <2>2. PICK u : u = [t EXCEPT !.records = 1 + log[d]]
    OBVIOUS
  <2>3. task'[d] = u /\ inbox' = inbox /\ snaps' = snaps
    BY <1>0, <1>7, <2>1, <2>2 DEF Snapshot, Types
  <2>4. u \in TaskRecord
    <3>1. task'[d] \in TaskRecord \union {None} /\ u # None
      BY <1>0, <2>2 DEF Types, TaskRecord, None
    <3> QED BY <2>3, <3>1
  <2>5. u.id = t.id /\ u.phase = t.phase /\ u.n = t.n /\ u.identity = t.identity
    BY <2>2 DEF TaskRecord
  <2>6. u.sending = t.sending
    BY <2>2 DEF TaskRecord
  <2>7. Idled(d)
    BY <2>1, <2>3, <2>4, <2>5, <2>6 DEF Idles
  <2> QED BY <2>7
<1>8. CASE StageRecord(d) \/ Install(d)
  <2>1. PICK c \in Order : c = Head(queue[d])
    BY <1>0, <1>8, HeadIs DEF StageRecord, Install
  <2>2. /\ queue[d] # << >> /\ 1 \in DOMAIN queue[d] /\ queue[d][1] = c /\ snaps' = snaps
        /\ c.op = (IF StageRecord(d) THEN "stage" ELSE "install")
    BY <1>0, <1>8, <2>1, HeadIs DEF StageRecord, Install
  <2>3. PICK ok \in BOOLEAN, phase \in {"receive", "installed"} :
           /\ phase = (IF c.op = "stage" THEN "receive" ELSE "installed")
           /\ Answer(d, c.id, phase, ok) /\ (ok => ValidReceiver(d, c.id))
    <3>1. CASE StageRecord(d)
      <4>1. PICK ok \in BOOLEAN : ok = (ValidReceiver(d, c.id) /\ Len(stage[d][c.id]) = c.seq)
        BY DEF ValidReceiver
      <4>2. Answer(d, c.id, "receive", ok) /\ (ok => ValidReceiver(d, c.id))
        BY <2>1, <3>1, <4>1 DEF StageRecord
      <4> QED BY <2>2, <3>1, <4>2
    <3>2. CASE Install(d) /\ ~StageRecord(d)
      <4>1. PICK ok \in BOOLEAN : ok = (ValidReceiver(d, c.id) /\ ~Has(d) /\ WholeHistory(stage[d][c.id]))
        BY DEF ValidReceiver
      <4>2. Answer(d, c.id, "installed", ok) /\ (ok => ValidReceiver(d, c.id))
        BY <2>1, <3>2, <4>1 DEF Install
      <4> QED BY <2>2, <3>2, <4>2
    <3> QED BY <1>8, <3>1, <3>2
  <2>4. CASE ~ok
    <3>1. \/ task'[d] = None /\ inbox'[d] = << >>
          \/ task' = task /\ inbox' = inbox
      BY <1>0, <2>2, <2>3, <2>4, Denied
    <3>2. CASE task'[d] = None /\ inbox'[d] = << >>
      BY <2>2, <3>2
    <3> QED BY <1>s, <2>2, <3>1, <3>2
  <2>5. CASE ok
    <3>1. task[d] # None /\ task[d].phase = (IF c.op = "stage" THEN "staging" ELSE "installing")
      <4>1. ValidReceiver(d, c.id) /\ queue[d][1].op \in {"stage", "install"} /\ queue[d][1].id = c.id
        BY <2>2, <2>3, <2>5
      <4>2. /\ task[d] # None
            /\ task[d].phase = (IF queue[d][1].op = "stage" THEN "staging" ELSE "installing")
        BY <2>2, <4>1, Received
      <4> QED BY <2>2, <4>2
    <3>2. PICK t \in TaskRecord : t = task[d]
      BY <1>0, <3>1 DEF Types
    <3>3. (\E u \in TaskRecord : task'[d] = u /\ Advances(u, t, phase)) /\ inbox' = inbox
      <4>1. Types /\ queue[d] # << >> /\ t = task[d] /\ Answer(d, c.id, phase, TRUE) /\ phase \in TaskPhase
        BY <1>0, <2>2, <2>3, <2>5, <3>2 DEF TaskPhase
      <4> HIDE DEF Idled, Begun, Ended, stores, memory, history
      <4> QED BY <4>1, Answered
    <3>4. Idled(d)
      BY <2>2, <2>3, <3>1, <3>2, <3>3 DEF Idles, Alike, Advances
    <3> QED BY <3>4
  <2> QED BY <2>4, <2>5
<1> HIDE DEF Ended, Begun, Idled
<1> QED BY <1>2, <1>3, <1>4, <1>5, <1>6, <1>7, <1>8 DEF Turn, Calm

LEMMA MailLess ==
  ASSUME Types, Grows, NEW e \in Device, Mail(e),
         inbox'[e] = inbox[e] \/ (inbox[e] # << >> /\ inbox'[e] = Tail(inbox[e])),
         inbox[e] # << >> => /\ task'[e] # None /\ task'[e].phase \notin {"listen", "connect"}
                             /\ task'[e].id = task[e].id
  PROVE  Mail(e)'
<1>1. inbox[e] \in Seq(Frame)
  BY DEF Types
<1>2. CASE inbox[e] = << >>
  BY <1>2 DEF Mail
<1>3. CASE inbox[e] # << >>
  <2>1. task'[e] # None /\ task'[e].phase \notin {"listen", "connect"} /\ task'[e].id = task[e].id
    BY <1>3
  <2>2. task[e].id \in Sessions
    BY <1>3, NoneIs DEF Mail, Types, TaskRecord
  <2>3. ASSUME NEW i \in DOMAIN inbox'[e], inbox'[e][i].op = "installed"
        PROVE  \E x \in Device : via'[x] = task[e].id
    <3>1. PICK j \in DOMAIN inbox[e] : inbox[e][j] = inbox'[e][i]
      <4>1. \A q \in Seq(Frame) : q # << >> => \A k \in DOMAIN Tail(q) : k + 1 \in DOMAIN q /\ Tail(q)[k] = q[k + 1]
        OBVIOUS
      <4> QED BY <1>1, <2>3, <4>1
    <3>2. PICK x \in Device : via[x] = task[e].id
      BY <2>3, <3>1 DEF Mail
    <3> QED BY <2>2, <3>2, NoneIs DEF Grows
  <2> QED BY <2>1, <2>3 DEF Mail
<1> QED BY <1>2, <1>3

LEMMA MailMore ==
  ASSUME Types, Grows, NEW e \in Device, Mail(e), NEW f \in Frame, inbox'[e] = Append(inbox[e], f),
         task[e] # None, task'[e] = task[e], task[e].phase \notin {"listen", "connect"},
         f.op = "installed" => \E x \in Device : via[x] = task[e].id
  PROVE  Mail(e)'
<1>1. inbox[e] \in Seq(Frame)
  BY DEF Types
<1>2. task[e].id \in Sessions
  BY NoneIs DEF Types, TaskRecord
<1>3. ASSUME NEW i \in DOMAIN inbox'[e], inbox'[e][i].op = "installed"
      PROVE  \E x \in Device : via'[x] = task[e].id
  <2>1. (i \in DOMAIN inbox[e] /\ inbox'[e][i] = inbox[e][i]) \/ inbox'[e][i] = f
    BY <1>1, <1>3
  <2>2. PICK x \in Device : via[x] = task[e].id
    BY <1>3, <2>1 DEF Mail
  <2> QED BY <1>2, <2>2, NoneIs DEF Grows
<1> QED BY <1>3 DEF Mail

LEMMA MailOfOwn ==
  ASSUME PairingInv, Grows, NEW d \in Device, Turn(d)
  PROVE  Mail(d)'
<1>0. Types /\ Mail(d)
  BY DEF PairingInv
<1>1. CASE Calm(d)
  <2>1. CASE Ended(d)
    BY <1>0, <2>1 DEF Ended, Mail
  <2>2. CASE Begun(d)
    BY <2>2 DEF Begun, Mail
  <2>3. CASE Idled(d)
    <3>1. PICK t \in TaskRecord, u \in TaskRecord : t = task[d] /\ u = task'[d] /\ Idles(u, t) /\ inbox'[d] = inbox[d]
      BY <2>3 DEF Idled
    <3>2. u # None /\ t # None
      BY NoneIs
    <3>3. inbox[d] # << >> => u.id = t.id /\ u.phase \notin {"listen", "connect"}
      BY <1>0, <3>1 DEF Mail, Idles
    <3> QED BY <1>0, <3>1, <3>2, <3>3, MailLess
  <2> QED BY <1>1, <2>1, <2>2, <2>3, CalmIs
<1>2. CASE Confirmed(d)
  <2>1. PICK t \in TaskRecord, u \in TaskRecord, f \in Frame :
           t = task[d] /\ u = task'[d] /\ Alike(u, t) /\ u.phase = "wait" /\ inbox' = Told(d, <<f>>)
    BY <1>0, <1>2, ConfirmedIs
  <2>2. inbox'[d] = inbox[d]
    BY <1>0, <2>1, OneFrame, ToldIs
  <2>3. u # None /\ u.id = t.id
    BY <2>1, NoneIs DEF Alike
  <2> QED BY <1>0, <2>1, <2>2, <2>3, MailLess
<1>3. CASE BothConfirmed(d)
  <2>1. PICK t \in TaskRecord, u \in TaskRecord :
           /\ t = task[d] /\ u = task'[d] /\ Alike(u, t) /\ u.phase = (IF t.sending THEN "send" ELSE "receive")
           /\ inbox[d] # << >> /\ inbox'[d] = Tail(inbox[d])
    BY <1>0, <1>3, BothConfirmedIs
  <2>2. u # None /\ u.id = t.id /\ u.phase \in {"send", "receive"}
    BY <2>1, NoneIs DEF Alike
  <2> QED BY <1>0, <2>1, <2>2, MailLess
<1>4. CASE SendRecord(d)
  <2>1. PICK t \in TaskRecord, u \in TaskRecord, f \in Frame :
           t = task[d] /\ u = task'[d] /\ Alike(u, t) /\ u.phase \in {"send", "ack"} /\ inbox' = Told(d, <<f>>)
    BY <1>0, <1>4, SendRecordIs
  <2>2. inbox'[d] = inbox[d]
    BY <1>0, <2>1, OneFrame, ToldIs
  <2>3. u # None /\ u.id = t.id
    BY <2>1, NoneIs DEF Alike
  <2> QED BY <1>0, <2>1, <2>2, <2>3, MailLess
<1>5. CASE Receive(d)
  <2>1. PICK t \in TaskRecord, u \in TaskRecord :
           /\ t = task[d] /\ u = task'[d] /\ Alike(u, t) /\ u.phase \in {"receive", "staging", "installing"}
           /\ inbox[d] # << >> /\ inbox'[d] = Tail(inbox[d])
    BY <1>5, ReceiveIs
  <2>2. u # None /\ u.id = t.id
    BY <2>1, NoneIs DEF Alike
  <2> QED BY <1>0, <2>1, <2>2, MailLess
<1> QED BY <1>1, <1>2, <1>3, <1>4, <1>5 DEF Calm

LEMMA MailStep == PairingInv /\ Next => \A e \in Device : Mail(e)'
<1> SUFFICES ASSUME PairingInv, Next, NEW e \in Device PROVE Mail(e)'
  OBVIOUS
<1>0. Grows /\ Types /\ Mail(e) /\ \A x \in Device : TaskTrue(x)
  BY NextGrows DEF PairingInv, Local
<1>1. ASSUME NEW d \in Device, Turn(d) PROVE Mail(e)'
  <2>1. CASE e = d
    BY <1>0, <1>1, <2>1, MailOfOwn
  <2>2. CASE e # d
    <3>1. task'[e] = task[e]
      BY <1>0, <1>1, <2>2, MineOnly DEF Kept
    <3>0. inbox[e] # << >> => task'[e] # None /\ task'[e].phase \notin {"listen", "connect"} /\ task'[e].id = task[e].id
      BY <1>0, <3>1 DEF Mail
    <3>2. CASE inbox'[e] = inbox[e]
      BY <1>0, <3>0, <3>2, MailLess
    <3>3. CASE e \in Peers(d) /\ \E f \in Frame : /\ inbox'[e] = Append(inbox[e], f)
                                                  /\ f.op = "installed" => At(d, "installed")
      <4>1. PICK f \in Frame : inbox'[e] = Append(inbox[e], f) /\ (f.op = "installed" => At(d, "installed"))
        BY <3>3
      <4>2. task[e] # None /\ task[e].phase \notin {"listen", "connect"} /\ task[e].id = task[d].id
        BY <1>0, <3>3, PeersAre DEF Beyond, Live
      <4>3. At(d, "installed") => via[d] = task[d].id
        BY <1>0 DEF TaskTrue, At
      <4> QED BY <1>0, <3>1, <4>1, <4>2, <4>3, MailMore
    <3> QED BY <1>1, <2>2, <3>2, <3>3, InboxOfOthers
  <2> QED BY <2>1, <2>2
<1>2. ASSUME NEW d \in Device, NEW p \in Device, Meet(d, p) PROVE Mail(e)'
  <2>0. /\ task[d] # None /\ task[d].phase = "listen" /\ task[p] # None /\ task[p].phase = "connect"
    BY <1>2 DEF Meet, At
  <2>1. CASE e \in {d, p}
    <3>1. inbox[e] = << >>
      BY <1>0, <2>0, <2>1 DEF Mail
    <3>2. inbox'[e] = << >>
      BY <1>0, <1>2, <2>1, <3>1, MeetIs
    <3> QED BY <3>2 DEF Mail
  <2>2. CASE e \notin {d, p}
    <3>0. Kept(e)
      BY <1>0, <1>2, <2>2, MeetIs
    <3>1. inbox'[e] = inbox[e] /\ task'[e] = task[e]
      <4>1. inbox' = inbox \/ \A x \in Device \ {p} : inbox'[x] = inbox[x]
        BY <1>0, <1>2, MeetIs
      <4> QED BY <2>2, <3>0, <4>1 DEF Kept
    <3>2. inbox[e] # << >> => task'[e] # None /\ task'[e].phase \notin {"listen", "connect"} /\ task'[e].id = task[e].id
      BY <1>0, <3>1 DEF Mail
    <3> QED BY <1>0, <3>1, <3>2, MailLess
  <2> QED BY <2>1, <2>2
<1> QED BY <1>1, <1>2, NextIsTurn

LEMMA ReportedStep == PairingInv /\ Next => Reported'
<1> SUFFICES ASSUME PairingInv, Next, NEW id \in reported' PROVE \E x \in Device : via'[x] = id
  BY DEF Reported
<1> USE DEF stores, memory, history
<1>0. Grows /\ Types /\ Reported /\ \A x \in Device : Mail(x)
  BY NextGrows DEF PairingInv
<1>1. CASE id \in reported
  <2>1. PICK x \in Device : via[x] = id
    BY <1>0, <1>1 DEF Reported
  <2>2. id # 0
    BY <1>0, <1>1, NoneIs DEF Types
  <2> QED BY <2>1, <2>2, <1>0 DEF Grows
<1>2. CASE id \notin reported
  <2>1. PICK d \in Device : SourceDone(d) /\ id = task[d].id
    <3>1. PICK d \in Device : Turn(d) \/ \E p \in Device : Meet(d, p)
      BY NextIsTurn
    <3>2. CASE SourceDone(d)
      BY <1>2, <3>2 DEF SourceDone
    <3>3. CASE ~SourceDone(d)
      <4>1. reported' = reported
        BY <3>1, <3>3 DEF Turn, Show, Scan, Begins, Refused, Confirm, Cancel, LateMail, Restart, StageRecord, Install,
           CleanStage, Cancelled, Confirmed, BothConfirmed, Snapshot, SendRecord, Receive, SendInstalled,
           Fail, Dropped, Meet
      <4> QED BY <1>2, <4>1
    <3> QED BY <3>2, <3>3
  <2>2. inbox[d] # << >> /\ Head(inbox[d]).op = "installed" /\ task[d] # None
    BY <2>1 DEF SourceDone, Complete, At
  <2>3. 1 \in DOMAIN inbox[d] /\ inbox[d][1].op = "installed"
    BY <1>0, <2>2 DEF Types
  <2>4. PICK x \in Device : via[x] = task[d].id
    BY <1>0, <2>3 DEF Mail
  <2>5. task[d].id \in Sessions
    BY <1>0, <2>2, NoneIs DEF Types, TaskRecord
  <2> QED BY <1>0, <2>1, <2>4, <2>5, NoneIs DEF Grows
<1> QED BY <1>1, <1>2

-----------------------------------------------------------------------------
(* Who takes part                                                          *)

\* Nobody gets beyond its meeting, but by a meeting, and what it has sent counts.
LEMMA StaysBeyond ==
  ASSUME PairingInv, NEW d \in Device, Turn(d), Beyond(d)'
  PROVE  /\ Beyond(d) /\ task[d] # None /\ task'[d].id = task[d].id /\ task'[d].sending = task[d].sending
         /\ task[d].n # 0 => task'[d].n # 0
<1>0. Types /\ task'[d] # None /\ task'[d].phase \notin {"listen", "connect", "aborted"}
  BY DEF PairingInv, Beyond, Live
<1> DEFINE Goes(u, t) == /\ u.id = t.id /\ u.sending = t.sending /\ (u.n = t.n \/ u.n = t.n + 1)
                         /\ t.phase \notin {"listen", "connect", "aborted"}
<1>1. \E t \in TaskRecord, u \in TaskRecord : t = task[d] /\ u = task'[d] /\ Goes(u, t)
  <2>1. CASE Calm(d)
    <3>1. Idled(d)
      BY <1>0, <2>1, CalmIs DEF Ended, Begun
    <3>2. PICK t \in TaskRecord, u \in TaskRecord : t = task[d] /\ u = task'[d] /\ Idles(u, t)
      BY <3>1 DEF Idled
    <3>3. Goes(u, t)
      BY <1>0, <3>2 DEF Idles
    <3> QED BY <3>2, <3>3
  <2>2. CASE Confirmed(d)
    <3>1. PICK t \in TaskRecord, u \in TaskRecord :
             t = task[d] /\ u = task'[d] /\ Alike(u, t) /\ t.phase = "verify" /\ u.n = t.n
      BY <1>0, <2>2, ConfirmedIs
    <3>2. Goes(u, t)
      BY <3>1 DEF Alike
    <3> QED BY <3>1, <3>2
  <2>3. CASE BothConfirmed(d)
    <3>1. PICK t \in TaskRecord, u \in TaskRecord :
             t = task[d] /\ u = task'[d] /\ Alike(u, t) /\ t.phase = "wait" /\ u.n = t.n
      BY <1>0, <2>3, BothConfirmedIs
    <3>2. Goes(u, t)
      BY <3>1 DEF Alike
    <3> QED BY <3>1, <3>2
  <2>4. CASE SendRecord(d)
    <3>1. PICK t \in TaskRecord, u \in TaskRecord :
             t = task[d] /\ u = task'[d] /\ Alike(u, t) /\ t.phase = "send" /\ (u.n = t.n \/ u.n = t.n + 1)
      BY <1>0, <2>4, SendRecordIs, ZenonT(60)
    <3>2. Goes(u, t)
      BY <3>1 DEF Alike
    <3> QED BY <3>1, <3>2
  <2>5. CASE Receive(d)
    <3>1. PICK t \in TaskRecord, u \in TaskRecord :
             t = task[d] /\ u = task'[d] /\ Alike(u, t) /\ t.phase = "receive" /\ u.n = t.n
      BY <2>5, ReceiveIs
    <3>2. Goes(u, t)
      BY <3>1 DEF Alike
    <3> QED BY <3>1, <3>2
  <2> QED BY <2>1, <2>2, <2>3, <2>4, <2>5 DEF Calm
<1>2. PICK t \in TaskRecord, u \in TaskRecord : t = task[d] /\ u = task'[d] /\ Goes(u, t)
  BY <1>1
<1>3. t # None /\ (t.n # 0 => u.n # 0)
  BY <1>2, NoneIs DEF TaskRecord
<1> QED BY <1>2, <1>3 DEF Beyond, Live

LEMMA JoinsByMeeting ==
  ASSUME PairingInv, NEW d \in Device, Turn(d), NEW id \in Sessions, NEW e \in Device, Joined(e, id)'
  PROVE  Joined(e, id)
<1>0. Types /\ TaskTrue(d)
  BY DEF PairingInv, Local
<1>1. CASE e # d
  <2>1. task'[e] = task[e] /\ via'[e] = via[e]
    BY <1>0, <1>1, MineOnly DEF Kept
  <2> QED BY <2>1 DEF Joined, Beyond, Live, On
<1>2. CASE e = d /\ Beyond(d)' /\ On(d, id)'
  <2>1. Beyond(d) /\ task'[d].id = task[d].id
    BY <1>2, StaysBeyond
  <2> QED BY <1>2, <2>1 DEF Joined, On
<1>3. CASE e = d /\ via'[d] = id
  <2>1. CASE via'[d] = via[d]
    BY <1>3, <2>1 DEF Joined
  <2>2. CASE via'[d] # via[d]
    <3>1. Install(d)
      BY <2>2 DEF Turn, Show, Scan, Begins, Refused, Confirm, Cancel, LateMail, Restart, StageRecord, CleanStage,
         Cancelled, Confirmed, BothConfirmed, Snapshot, SendRecord, Receive, SendInstalled, SourceDone,
         Fail, Dropped, history
    <3>2. PICK c : c = Head(queue[d])
      OBVIOUS
    <3>3. queue[d] # << >> /\ c.op = "install" /\ ValidReceiver(d, c.id) /\ via'[d] = c.id
      BY <1>0, <2>2, <3>1, <3>2 DEF Install, Types
    <3>4. 1 \in DOMAIN queue[d] /\ queue[d][1] = c
      BY <1>0, <3>2, <3>3, HeadIs
    <3>5. task[d] # None /\ task[d].id = c.id /\ task[d].phase = "installing"
      <4>1. queue[d][1].op = "install" /\ queue[d][1].id = c.id
        BY <3>3, <3>4
      <4> QED BY <3>3, <3>4, <4>1, Received
    <3> QED BY <1>3, <3>3, <3>5 DEF Joined, Beyond, Live, On
  <2> QED BY <2>1, <2>2
<1> QED BY <1>1, <1>2, <1>3 DEF Joined

\* A new listener shows a new code.
LEMMA NewListener ==
  ASSUME PairingInv, NEW d \in Device, Turn(d), NEW id, Listens(id)'
  PROVE  Listens(id) \/ id \notin DOMAIN shown
<1>0. Types
  BY DEF PairingInv
<1>1. PICK b \in Device : task'[b] # None /\ task'[b].id = id /\ task'[b].phase = "listen"
  BY DEF Listens, Live, On
<1>2. CASE b # d
  <2>1. task'[b] = task[b]
    BY <1>0, <1>2, MineOnly DEF Kept
  <2> QED BY <1>1, <2>1 DEF Listens, Live, On
<1>3. CASE b = d
  <2>1. ~Confirmed(d)
    <3> SUFFICES ASSUME Confirmed(d) PROVE FALSE
      OBVIOUS
    <3> QED BY <1>0, <1>1, <1>3, ConfirmedIs
  <2>2. ~BothConfirmed(d)
    <3> SUFFICES ASSUME BothConfirmed(d) PROVE FALSE
      OBVIOUS
    <3>1. PICK t \in TaskRecord, u \in TaskRecord :
             /\ t = task[d] /\ u = task'[d] /\ Alike(u, t) /\ u.phase = (IF t.sending THEN "send" ELSE "receive")
             /\ inbox[d] # << >> /\ inbox'[d] = Tail(inbox[d])
      BY <1>0, BothConfirmedIs
    <3> QED BY <1>1, <1>3, <3>1
  <2>3. ~SendRecord(d)
    <3> SUFFICES ASSUME SendRecord(d) PROVE FALSE
      OBVIOUS
    <3>1. PICK u \in TaskRecord : u = task'[d] /\ u.phase \in {"send", "ack"}
      BY <1>0, SendRecordIs, ZenonT(60)
    <3> QED BY <1>1, <1>3, <3>1
  <2>4. ~Receive(d)
    <3> SUFFICES ASSUME Receive(d) PROVE FALSE
      OBVIOUS
    <3>1. task'[d].phase \in {"receive", "staging", "installing"}
      BY ReceiveIs
    <3> QED BY <1>1, <1>3, <3>1
  <2>5. Ended(d) \/ Begun(d) \/ Idled(d)
    BY <2>1, <2>2, <2>3, <2>4, CalmIs DEF Calm
  <2>6. CASE Ended(d)
    BY <1>1, <1>3, <2>6 DEF Ended
  <2>7. CASE Begun(d)
    BY <1>1, <1>3, <2>7 DEF Begun
  <2>8. CASE Idled(d)
    <3>1. PICK t \in TaskRecord, u \in TaskRecord : t = task[d] /\ u = task'[d] /\ Idles(u, t)
      BY <2>8 DEF Idled
    <3>2. t.phase = "listen" /\ t.id = id /\ t # None
      BY <1>1, <1>3, <3>1, NoneIs DEF Idles
    <3> QED BY <3>1, <3>2 DEF Listens, Live, On
  <2> QED BY <2>5, <2>6, <2>7, <2>8
<1> QED BY <1>2, <1>3

\* The header of a session is what its source sends first.
LEMMA NewHeader ==
  ASSUME PairingInv, NEW d \in Device, Turn(d), NEW id \in DOMAIN snaps', id \notin DOMAIN snaps
  PROVE  /\ task[d] # None /\ task[d].id = id /\ task[d].sending /\ Beyond(d)
         /\ task'[d].n # 0
<1>0. Types /\ TaskTrue(d)
  BY DEF PairingInv, Local
<1>1. SendRecord(d)
  BY DEF Turn, Show, Scan, Begins, Refused, Confirm, Cancel, LateMail, Restart, StageRecord, Install, CleanStage,
     Cancelled, Confirmed, BothConfirmed, Snapshot, Receive, SendInstalled, SourceDone, Fail, Dropped, history
<1>2. PICK t \in TaskRecord, u \in TaskRecord, f \in Frame :
         /\ t = task[d] /\ u = task'[d] /\ t.phase = "send"
         /\ \/ u.n = t.n + 1 /\ snaps' = IF t.n = 0 THEN Put(snaps, t.id, t.records - 1) ELSE snaps
            \/ snaps' = snaps
  <2>1. \E t \in TaskRecord, u \in TaskRecord, f \in Frame :
           /\ t = task[d] /\ u = task'[d] /\ Alike(u, t) /\ u.identity = t.identity
           /\ t.phase = "send" /\ t.records # 0
           /\ \/ /\ u.phase = "send" /\ u.n = t.n + 1 /\ t.n < t.records
                 /\ f.op = "record" /\ (t.n = 0 => f.messages = t.records - 1)
                 /\ snaps' = IF t.n = 0 THEN Put(snaps, t.id, t.records - 1) ELSE snaps
              \/ u.phase = "ack" /\ u.n = t.n /\ f.op = "end" /\ snaps' = snaps
           /\ inbox' = Told(d, <<f>>)
    BY <1>0, <1>1, SendRecordIs
  <2> QED BY <2>1
<1>3. u.n = t.n + 1 /\ snaps' = Put(snaps, t.id, t.records - 1) /\ t.id = id
  BY <1>2 DEF Put
<1>4. t # None /\ u.n # 0
  BY <1>3, NoneIs DEF TaskRecord
<1>5. t.sending
  BY <1>0, <1>2, <1>4 DEF TaskTrue
<1> QED BY <1>2, <1>3, <1>4, <1>5 DEF Beyond, Live

LEMMA KnownSession ==
  ASSUME Types, NEW e \in Device, Local(e), NEW id \in Sessions, Joined(e, id)
  PROVE  id \in DOMAIN shown
<1>1. CASE via[e] = id
  BY <1>1, NoneIs DEF Local, Installed, Takes
<1>2. CASE Beyond(e) /\ task[e].id = id
  BY <1>2 DEF Local, TaskTrue, Gives, Takes, Beyond, Live
<1> QED BY <1>1, <1>2 DEF Joined, On

LEMMA SingleOfTurn ==
  ASSUME PairingInv, Grows, NEW d \in Device, Turn(d), Types', NEW id \in DOMAIN shown'
  PROVE  /\ \A x, y \in Device \ {shown'[id].by} : Joined(x, id)' /\ Joined(y, id)' => x = y
         /\ Listens(id)' => id \notin DOMAIN snaps' /\ \A x \in Device : ~Joined(x, id)'
         /\ id \in DOMAIN snaps' =>
              \A x \in Device : Beyond(x)' /\ task'[x].id = id /\ task'[x].sending => task'[x].n # 0
<1>0. Types /\ Single /\ id \in Sessions /\ \A x \in Device : Local(x) /\ TaskTrue(x)
  BY DEF PairingInv, Local, Types
<1>1. \A x \in Device : Joined(x, id)' => Joined(x, id)
  BY <1>0, JoinsByMeeting
<1>2. id \notin DOMAIN shown => id \notin DOMAIN snaps /\ \A x \in Device : ~Joined(x, id)
  BY <1>0, KnownSession DEF Types
<1>3. \A x, y \in Device \ {shown'[id].by} : Joined(x, id)' /\ Joined(y, id)' => x = y
  <2>1. CASE id \in DOMAIN shown
    <3>1. shown'[id] = shown[id]
      BY <2>1 DEF Grows
    <3>2. \A x, y \in Device \ {shown[id].by} : Joined(x, id) /\ Joined(y, id) => x = y
      BY <1>0, <2>1 DEF Single
    <3> QED BY <1>1, <3>1, <3>2
  <2>2. CASE id \notin DOMAIN shown
    BY <1>1, <1>2, <2>2
  <2> QED BY <2>1, <2>2
<1>4. ASSUME Listens(id)' PROVE id \notin DOMAIN snaps' /\ \A x \in Device : ~Joined(x, id)'
  <2>1. id \notin DOMAIN snaps /\ \A x \in Device : ~Joined(x, id)
    <3>1. CASE id \in DOMAIN shown
      BY <1>0, <1>4, <3>1, NewListener DEF Single
    <3>2. CASE id \notin DOMAIN shown
      BY <1>2, <3>2
    <3> QED BY <3>1, <3>2
  <2>2. ASSUME id \in DOMAIN snaps' PROVE FALSE
    <3>1. Beyond(d) /\ task[d].id = id
      BY <2>1, <2>2, NewHeader
    <3> QED BY <2>1, <3>1 DEF Joined, On
  <2> QED BY <1>1, <2>1, <2>2
<1>5. ASSUME id \in DOMAIN snaps', NEW x \in Device, Beyond(x)', task'[x].id = id, task'[x].sending
      PROVE  task'[x].n # 0
  <2>1. CASE x # d
    <3>1. task'[x] = task[x]
      BY <1>0, <2>1, MineOnly DEF Kept
    <3>2. Beyond(x) /\ task[x].id = id /\ task[x].sending
      BY <1>5, <3>1 DEF Beyond, Live
    <3>3. CASE id \in DOMAIN snaps
      <4>1. id \in DOMAIN shown
        BY <1>0, <3>3 DEF Types
      <4> QED BY <1>0, <3>1, <3>2, <3>3, <4>1 DEF Single, On
    <3>4. CASE id \notin DOMAIN snaps
      <4>1. task[d].id = id /\ task[d].sending /\ Beyond(d)
        BY <1>5, <3>4, NewHeader
      <4>2. task[x].sending = task[d].sending
        <5>1. PICK t \in TaskRecord, u \in TaskRecord : t = task[d] /\ u = task[x]
          BY <1>0, <3>2, <4>1, LiveIs DEF Beyond
        <5> QED BY <3>2, <4>1, <5>1 DEF TaskRecord
      <4>3. x = d
        BY <1>0, <3>2, <4>1, <4>2, Opposite
      <4> QED BY <2>1, <4>3
    <3> QED BY <3>3, <3>4
  <2>2. CASE x = d
    <3>1. /\ Beyond(d) /\ task'[d].id = task[d].id /\ task'[d].sending = task[d].sending
          /\ task[d].n # 0 => task'[d].n # 0
      BY <1>5, <2>2, StaysBeyond
    <3>2. CASE id \in DOMAIN snaps
      <4>1. id \in DOMAIN shown
        BY <1>0, <3>2 DEF Types
      <4>2. task[d].n # 0
        BY <1>0, <1>5, <2>2, <3>1, <3>2, <4>1 DEF Single, On
      <4> QED BY <2>2, <3>1, <4>2
    <3>3. CASE id \notin DOMAIN snaps
      BY <1>5, <2>2, <3>3, NewHeader
    <3> QED BY <3>2, <3>3
  <2> QED BY <2>1, <2>2
<1> QED BY <1>3, <1>4, <1>5

LEMMA SingleOfMeeting ==
  ASSUME PairingInv, Grows, NEW d \in Device, NEW p \in Device, Meet(d, p), NEW id \in DOMAIN shown'
  PROVE  /\ \A x, y \in Device \ {shown'[id].by} : Joined(x, id)' /\ Joined(y, id)' => x = y
         /\ Listens(id)' => id \notin DOMAIN snaps' /\ \A x \in Device : ~Joined(x, id)'
         /\ id \in DOMAIN snaps' =>
              \A x \in Device : Beyond(x)' /\ task'[x].id = id /\ task'[x].sending => task'[x].n # 0
<1>0. Types /\ Single /\ \A x \in Device : TaskTrue(x)
  BY DEF PairingInv, Local
<1>1. PICK t \in TaskRecord, u \in TaskRecord : t = task[d] /\ u = task[p]
  BY <1>0, MeetIs
<1>2. /\ d # p /\ t.phase = "listen" /\ u.phase = "connect" /\ u.id = t.id /\ Live(d)
      /\ task'[d] = [t EXCEPT !.phase = "verify"]
      /\ task'[p] = None \/ task'[p] = [u EXCEPT !.phase = "verify"]
      /\ shown' = shown /\ snaps' = snaps /\ via' = via
      /\ \A x \in Device \ {d, p} : task'[x] = task[x]
  <2>1. /\ d # p /\ t.phase = "listen" /\ u.phase = "connect" /\ u.id = t.id /\ Live(d)
        /\ task'[d] = [t EXCEPT !.phase = "verify"]
    BY <1>0, <1>1, MeetIs
  <2>2. task'[p] = None \/ task'[p] = [u EXCEPT !.phase = "verify"]
    BY <1>0, <1>1, MeetIs
  <2>3. shown' = shown /\ snaps' = snaps /\ via' = via
    BY DEF Meet, history
  <2>4. \A x \in Device \ {d, p} : task'[x] = task[x]
    <3>1. \A x \in Device \ {d, p} : Kept(x)
      BY <1>0, MeetIs
    <3> QED BY <3>1 DEF Kept
  <2> QED BY <2>1, <2>2, <2>3, <2>4
<1>3. /\ task'[d].id = t.id /\ task'[d].phase = "verify"
      /\ task'[p] # None => task'[p].id = t.id /\ task'[p].phase = "verify"
  BY <1>2 DEF TaskRecord
<1>4. shown[t.id].by = d /\ t.id \in DOMAIN shown /\ t.id \notin DOMAIN snaps /\ \A x \in Device : ~Joined(x, t.id)
  BY <1>0, <1>1, <1>2, NobodyYet
<1>5. \A x \in Device : Beyond(x)' =>
       \/ x \in {d, p} /\ task'[x].id = t.id
       \/ x \notin {d, p} /\ task'[x] = task[x] /\ Beyond(x)
  BY <1>2, <1>3 DEF Beyond, Live
<1>6. CASE id = t.id
  <2>1. \A x \in Device : Joined(x, id)' => x \in {d, p}
    BY <1>2, <1>4, <1>5, <1>6 DEF Joined, On
  <2>2. ~(Listens(id)')
    <3> SUFFICES ASSUME Listens(id)' PROVE FALSE
      OBVIOUS
    <3>1. PICK b \in Device : task'[b] # None /\ task'[b].id = id /\ task'[b].phase = "listen"
      BY DEF Listens, Live, On
    <3>2. b \notin {d, p}
      BY <1>3, <3>1
    <3>3. task[b] # None /\ task[b].id = id /\ task[b].phase = "listen"
      BY <1>2, <3>1, <3>2
    <3>4. shown[id].by = b
      BY <1>0, <3>3 DEF TaskTrue
    <3> QED BY <1>4, <1>6, <3>2, <3>4
  <2>3. \A x, y \in Device \ {shown'[id].by} : Joined(x, id)' /\ Joined(y, id)' => x = y
    BY <1>2, <1>4, <1>6, <2>1
  <2> QED BY <1>2, <1>4, <1>6, <2>2, <2>3
<1>7. CASE id # t.id
  <2>1. \A x \in Device : Joined(x, id)' => Joined(x, id)
    BY <1>2, <1>5, <1>7 DEF Joined, On
  <2>2. Listens(id)' => Listens(id)
    BY <1>2, <1>3 DEF Listens, Live, On
  <2>3. id \in DOMAIN shown
    BY <1>2
  <2>4. \A x, y \in Device \ {shown'[id].by} : Joined(x, id)' /\ Joined(y, id)' => x = y
    BY <1>0, <1>2, <2>1, <2>3 DEF Single
  <2>5. Listens(id)' => id \notin DOMAIN snaps' /\ \A x \in Device : ~Joined(x, id)'
    BY <1>0, <1>2, <2>1, <2>2, <2>3 DEF Single
  <2>6. ASSUME id \in DOMAIN snaps', NEW x \in Device, Beyond(x)', task'[x].id = id, task'[x].sending
        PROVE  task'[x].n # 0
    <3>1. task'[x] = task[x] /\ Beyond(x)
      BY <1>5, <1>7, <2>6
    <3> QED BY <1>0, <1>2, <2>3, <2>6, <3>1 DEF Single, On
  <2> QED BY <2>4, <2>5, <2>6
<1> QED BY <1>6, <1>7

LEMMA SingleStep == PairingInv /\ Next => Single'
<1> SUFFICES ASSUME PairingInv, Next, NEW id \in DOMAIN shown'
    PROVE /\ \A x, y \in Device \ {shown'[id].by} : Joined(x, id)' /\ Joined(y, id)' => x = y
          /\ Listens(id)' => id \notin DOMAIN snaps' /\ \A x \in Device : ~Joined(x, id)'
          /\ id \in DOMAIN snaps' =>
               \A x \in Device : Beyond(x)' /\ task'[x].id = id /\ task'[x].sending => task'[x].n # 0
  BY DEF Single, On
<1>1. Grows /\ Types'
  BY NextGrows, TypesStep
<1> QED BY <1>1, NextIsTurn, SingleOfTurn, SingleOfMeeting

-----------------------------------------------------------------------------
(* What was sent is what is read                                           *)

LEMMA CountsAre == \A t \in TaskRecord : ReadBy(t) \in Nat /\ WrittenBy(t) \in Nat
<1> SUFFICES ASSUME NEW t \in TaskRecord PROVE ReadBy(t) \in Nat /\ WrittenBy(t) \in Nat
  OBVIOUS
<1>1. t.n \in Nat
  BY DEF TaskRecord
<1>2. t.n + 2 \in Nat /\ t.n + 3 \in Nat
  BY <1>1
<1>3. ReadBy(t) \in Nat
  BY <1>1, <1>2 DEF ReadBy
<1>4. WrittenBy(t) \in Nat
  BY <1>1, <1>2 DEF WrittenBy
<1> QED BY <1>3, <1>4

LEMMA FrameStays ==
  ASSUME Types, Grows, NEW r \in Device, NEW id, NEW k, NEW f, FrameIn(r, id, k, f)
  PROVE  FrameIn(r, id, k, f)'
<1>1. k = 2 => Vouched(r, id, f.identity)'
  <2>1. PICK x : x = f.identity
    OBVIOUS
  <2>2. k = 2 => Vouched(r, id, x)'
    BY <2>1, VouchedStays DEF FrameIn
  <2> QED BY <2>1, <2>2 DEF Vouched
<1>2. k >= 3 /\ f.op = "record" =>
        id \in DOMAIN snaps' /\ k - 3 <= snaps'[id] /\ (k = 3 => f.messages = snaps'[id])
  BY DEF FrameIn, Grows
<1> QED BY <1>1, <1>2 DEF FrameIn, Vouched

LEMMA StreamNow ==
  ASSUME NEW r \in Device, StreamOf(r), NEW t, t = task[r], NEW q, q = inbox[r]
  PROVE  /\ \A i \in DOMAIN q : FrameIn(r, t.id, ReadBy(t) + i, q[i])
         /\ \A s \in Device : Beyond(s) /\ task[s].sending /\ task[s].id = t.id =>
              WrittenBy(task[s]) = ReadBy(t) + Len(q)
BY DEF StreamOf, On

LEMMA StreamNext ==
  ASSUME NEW r \in Device, NEW u, u = task'[r], NEW v, v = inbox'[r],
         \A i \in DOMAIN v : FrameIn(r, u.id, ReadBy(u) + i, v[i])',
         \A s \in Device : Beyond(s)' /\ task'[s].sending /\ task'[s].id = u.id =>
              WrittenBy(task'[s]) = ReadBy(u) + Len(v)
  PROVE  StreamOf(r)'
BY DEF StreamOf, FrameIn, Vouched, On

\* Nobody writes; whether device r reads or not, the frames that are left are the next ones.
LEMMA StreamRead ==
  ASSUME Types, Grows, NEW r \in Device, StreamOf(r), NEW t \in TaskRecord, t = task[r],
         NEW u \in TaskRecord, u = task'[r], u.id = t.id,
         \/ inbox'[r] = inbox[r] /\ ReadBy(u) = ReadBy(t)
         \/ inbox[r] # << >> /\ inbox'[r] = Tail(inbox[r]) /\ ReadBy(u) = ReadBy(t) + 1,
         \A s \in Device : Beyond(s)' /\ task'[s].sending /\ task'[s].id = u.id =>
              /\ Beyond(s) /\ task[s].sending /\ task[s].id = t.id
              /\ WrittenBy(task'[s]) = WrittenBy(task[s])
  PROVE  StreamOf(r)'
<1>1. PICK q \in Seq(Frame) : q = inbox[r]
  BY DEF Types
<1>2. PICK v : v = inbox'[r]
  OBVIOUS
<1>3. PICK a \in Nat, b \in Nat : a = ReadBy(t) /\ b = ReadBy(u)
  BY CountsAre
<1>4. (v = q /\ b = a) \/ (q # << >> /\ v = Tail(q) /\ b = a + 1)
  BY <1>1, <1>2, <1>3
<1>5. \A i \in DOMAIN q : FrameIn(r, t.id, a + i, q[i])'
  <2> SUFFICES ASSUME NEW i \in DOMAIN q PROVE FrameIn(r, t.id, a + i, q[i])'
    OBVIOUS
  <2>1. FrameIn(r, t.id, a + i, q[i])
    BY <1>1, <1>3, StreamNow
  <2>2. PICK k, f, id : k = a + i /\ f = q[i] /\ id = t.id
    OBVIOUS
  <2>3. FrameIn(r, id, k, f)
    BY <2>1, <2>2
  <2>4. FrameIn(r, id, k, f)'
    BY <2>3, FrameStays
  <2> QED BY <2>2, <2>4
<1>6. \A i \in DOMAIN v : FrameIn(r, u.id, b + i, v[i])'
  <2>1. CASE v = q /\ b = a
    BY <1>5, <2>1
  <2>2. CASE q # << >> /\ v = Tail(q) /\ b = a + 1
    <3> SUFFICES ASSUME NEW i \in DOMAIN v PROVE FrameIn(r, u.id, b + i, v[i])'
      OBVIOUS
    <3>1. i + 1 \in DOMAIN q /\ v[i] = q[i + 1] /\ b + i = a + (i + 1)
      <4>1. \A x \in Seq(Frame) : x # << >> =>
               \A k \in DOMAIN Tail(x) : k \in Nat /\ k + 1 \in DOMAIN x /\ Tail(x)[k] = x[k + 1]
        OBVIOUS
      <4>2. i \in Nat /\ i + 1 \in DOMAIN q /\ v[i] = q[i + 1]
        BY <1>1, <2>2, <4>1
      <4> QED BY <1>3, <2>2, <4>2
    <3>2. FrameIn(r, t.id, a + (i + 1), q[i + 1])'
      BY <1>5, <3>1
    <3> QED BY <3>1, <3>2
  <2> QED BY <1>4, <2>1, <2>2
<1>7. a + Len(q) = b + Len(v)
  <2>1. CASE q # << >> /\ v = Tail(q) /\ b = a + 1
    <3>1. Len(v) = Len(q) - 1 /\ Len(q) \in Nat
      BY <1>1, <2>1
    <3> QED BY <1>3, <2>1, <3>1
  <2> QED BY <1>4, <2>1
<1>8. ASSUME NEW s \in Device, Beyond(s)', task'[s].sending, task'[s].id = u.id
      PROVE  WrittenBy(task'[s]) = b + Len(v)
  <2>1. WrittenBy(task[s]) = a + Len(q)
    BY <1>1, <1>3, <1>8, StreamNow
  <2> QED BY <1>7, <1>8, <2>1
<1> QED BY <1>2, <1>3, <1>6, <1>8, StreamNext

\* Device d writes the next frame for device r.
LEMMA StreamWritten ==
  ASSUME Types, Grows, NEW r \in Device, StreamOf(r), NEW t \in TaskRecord, t = task[r], task'[r] = t,
         NEW d \in Device, Beyond(d), task[d].sending, task[d].id = t.id,
         NEW w, w = WrittenBy(task[d]), WrittenBy(task'[d]) = w + 1,
         NEW f \in Frame, inbox'[r] = Append(inbox[r], f), FrameIn(r, t.id, w + 1, f)',
         \A s \in Device : Beyond(s)' /\ task'[s].sending /\ task'[s].id = t.id => s = d
  PROVE  StreamOf(r)'
<1>1. PICK q \in Seq(Frame) : q = inbox[r]
  BY DEF Types
<1>2. PICK v : v = inbox'[r]
  OBVIOUS
<1>3. PICK a \in Nat : a = ReadBy(t)
  BY CountsAre
<1>4. w = a + Len(q)
  BY <1>1, <1>3, StreamNow
<1>5. v = Append(q, f) /\ Len(v) = Len(q) + 1 /\ Len(q) \in Nat
  BY <1>1, <1>2
<1>6. \A i \in DOMAIN v : FrameIn(r, t.id, a + i, v[i])'
  <2> SUFFICES ASSUME NEW i \in DOMAIN v PROVE FrameIn(r, t.id, a + i, v[i])'
    OBVIOUS
  <2>1. CASE i \in DOMAIN q
    <3>1. FrameIn(r, t.id, a + i, q[i])
      BY <1>1, <1>3, <2>1, StreamNow
    <3>2. PICK k, g, id : k = a + i /\ g = v[i] /\ id = t.id
      OBVIOUS
    <3>3. v[i] = q[i]
      BY <1>1, <1>5, <2>1
    <3>4. FrameIn(r, id, k, g)
      BY <3>1, <3>2, <3>3
    <3>5. FrameIn(r, id, k, g)'
      BY <3>4, FrameStays
    <3> QED BY <3>2, <3>5
  <2>2. CASE i \notin DOMAIN q
    <3>1. i = Len(q) + 1 /\ v[i] = f
      BY <1>1, <1>5, <2>2
    <3>2. a + i = w + 1
      BY <1>3, <1>4, <1>5, <3>1
    <3> QED BY <3>1, <3>2
  <2> QED BY <2>1, <2>2
<1>7. w + 1 = a + Len(v)
  BY <1>3, <1>4, <1>5
<1> QED BY <1>2, <1>3, <1>6, <1>7, StreamNext

\* Apart from those four steps nobody is told anything but by who has installed.
LEMMA CalmTells ==
  ASSUME PairingInv, NEW d \in Device, Turn(d), Calm(d), NEW e \in Device, e # d, ~SendInstalled(d)
  PROVE  inbox'[e] = inbox[e]
<1> USE DEF stores, memory, history
<1>0. Types
  BY DEF PairingInv
<1>1. CASE \/ Show(d) \/ Refused(d) \/ Confirm(d) \/ Cancel(d) \/ LateMail(d) \/ Restart(d)
           \/ \E id \in Sessions : Scan(d, id)
  BY <1>0, <1>1 DEF Show, Refused, Confirm, Cancel, LateMail, Restart, Scan, Begins, Types
<1>2. CASE StageRecord(d) \/ Install(d)
  <2>1. PICK id, phase, ok : Answer(d, id, phase, ok)
    BY <1>2 DEF StageRecord, Install
  <2> QED BY <1>0, <2>1 DEF Answer, Types
<1>3. CASE CleanStage(d) \/ Cancelled(d) \/ Snapshot(d)
  BY <1>3 DEF CleanStage, Cancelled, Snapshot
<1>4. CASE SourceDone(d) \/ Fail(d) \/ Dropped(d)
  BY <1>0, <1>4 DEF SourceDone, Fail, Dropped, Ends, Types
<1> QED BY <1>1, <1>2, <1>3, <1>4 DEF Turn, Calm

\* What device d writes, if it does: the frame that comes next.
Writes(d, id, w, f) ==
  /\ id = task[d].id /\ w = WrittenBy(task[d]) /\ WrittenBy(task'[d]) = w + 1
  /\ \A e \in Device \ {d} : inbox'[e] = Told(d, <<f>>)[e]
  /\ \A r \in Device \ {d} : FrameIn(r, id, w + 1, f)'
Silent(d) ==
  /\ WrittenBy(task'[d]) = WrittenBy(task[d])
  /\ \A e \in Device \ {d} : inbox'[e] = inbox[e]

LEMMA GiverCalm ==
  ASSUME PairingInv, NEW d \in Device, Turn(d), Beyond(d)', task[d].sending, Calm(d)
  PROVE  Silent(d)
<1>0. Types /\ TaskTrue(d) /\ task'[d] # None /\ task'[d].phase \notin {"listen", "connect", "aborted"}
  BY DEF PairingInv, Local, Beyond, Live
<1>1. Idled(d)
  BY <1>0, CalmIs DEF Ended, Begun
<1>2. PICK t \in TaskRecord, u \in TaskRecord : t = task[d] /\ u = task'[d] /\ Idles(u, t)
  BY <1>1 DEF Idled
<1>3. t.phase \notin {"staging", "installing", "installed"}
  BY <1>0, <1>2, NoneIs DEF TaskTrue
<1>4. u.phase = t.phase /\ u.n = t.n
  BY <1>0, <1>2, <1>3 DEF Idles
<1>5. WrittenBy(u) = WrittenBy(t)
  BY <1>4 DEF WrittenBy
<1>6. ~SendInstalled(d)
  BY <1>2, <1>3 DEF SendInstalled, At
<1>7. \A e \in Device \ {d} : inbox'[e] = inbox[e]
  BY <1>6, CalmTells
<1> QED BY <1>2, <1>5, <1>7 DEF Silent

LEMMA GiverConfirms ==
  ASSUME PairingInv, NEW d \in Device, task[d].sending, Confirmed(d)
  PROVE  \E id \in Sessions, w \in Nat, f \in Frame : Writes(d, id, w, f)
<1>0. Types /\ TaskTrue(d)
  BY DEF PairingInv, Local
<1>1. PICK t \in TaskRecord, u \in TaskRecord, f \in Frame :
         /\ t = task[d] /\ u = task'[d] /\ Alike(u, t)
         /\ t.phase = "verify" /\ u.phase = "wait" /\ u.n = t.n /\ u.identity = t.identity
         /\ f.op = "confirmed" /\ inbox' = Told(d, <<f>>)
  BY <1>0, ConfirmedIs
<1>2. WrittenBy(t) = 0 /\ WrittenBy(u) = 1
  BY <1>1 DEF WrittenBy
<1>3. \A r \in Device \ {d} : FrameIn(r, t.id, 1, f)'
  BY <1>1 DEF FrameIn
<1>4. t.id \in Sessions
  BY DEF TaskRecord
<1>5. Writes(d, t.id, 0, f)
  BY <1>1, <1>2, <1>3 DEF Writes
<1> QED BY <1>4, <1>5

LEMMA GiverLinks ==
  ASSUME PairingInv, Grows, NEW d \in Device, task[d].sending, BothConfirmed(d)
  PROVE  \E id \in Sessions, w \in Nat, f \in Frame : Writes(d, id, w, f)
<1>0. Types /\ TaskTrue(d)
  BY DEF PairingInv, Local
<1>1. PICK t \in TaskRecord, u \in TaskRecord, f \in Frame :
         /\ t = task[d] /\ u = task'[d] /\ Alike(u, t)
         /\ t.phase = "wait" /\ u.phase = (IF t.sending THEN "send" ELSE "receive")
         /\ u.n = t.n /\ u.identity = t.identity
         /\ f.op = "link" /\ f.identity = account[d]
         /\ t.sending => \A e \in Device \ {d} : inbox'[e] = Told(d, <<f>>)[e]
  BY <1>0, BothConfirmedIs, ZenonT(60)
<1>2. t # None /\ t.n = 0 /\ t.ok /\ Has(d) /\ <<d, t.id>> \in agreed
  BY <1>0, <1>1, NoneIs DEF TaskTrue
<1>3. u.phase = "send" /\ \A e \in Device \ {d} : inbox'[e] = Told(d, <<f>>)[e]
  BY <1>1
<1>4. WrittenBy(t) = 1 /\ WrittenBy(u) = 2
  BY <1>1, <1>2, <1>3 DEF WrittenBy
<1>5. ASSUME NEW r \in Device \ {d} PROVE FrameIn(r, t.id, 2, f)'
  <2>1. PICK x, id : x = f.identity /\ id = t.id
    OBVIOUS
  <2>2. Vouched(r, id, x)
    BY <1>1, <1>2, <2>1 DEF Vouched, Has
  <2>3. Vouched(r, id, x)'
    BY <2>2, VouchedStays
  <2>4. FrameIn(r, id, 2, f)'
    BY <1>1, <2>1, <2>3 DEF FrameIn, Vouched
  <2> QED BY <2>1, <2>4
<1>6. t.id \in Sessions
  BY DEF TaskRecord
<1>7. Writes(d, t.id, 1, f)
  BY <1>1, <1>3, <1>4, <1>5 DEF Writes
<1> QED BY <1>6, <1>7

LEMMA GiverSends ==
  ASSUME PairingInv, Grows, NEW d \in Device, task[d].sending, SendRecord(d)
  PROVE  \E id \in Sessions, w \in Nat, f \in Frame : Writes(d, id, w, f)
<1>0. Types /\ TaskTrue(d)
  BY DEF PairingInv, Local
<1>1. PICK t \in TaskRecord, u \in TaskRecord, f \in Frame :
         /\ t = task[d] /\ u = task'[d] /\ t.phase = "send" /\ t.records # 0
         /\ \/ /\ u.phase = "send" /\ u.n = t.n + 1 /\ t.n < t.records
               /\ f.op = "record" /\ (t.n = 0 => f.messages = t.records - 1)
               /\ snaps' = IF t.n = 0 THEN Put(snaps, t.id, t.records - 1) ELSE snaps
            \/ u.phase = "ack" /\ u.n = t.n /\ f.op = "end" /\ snaps' = snaps
         /\ inbox' = Told(d, <<f>>)
  <2>1. \E t \in TaskRecord, u \in TaskRecord, f \in Frame :
           /\ t = task[d] /\ u = task'[d] /\ Alike(u, t) /\ u.identity = t.identity
           /\ t.phase = "send" /\ t.records # 0
           /\ \/ /\ u.phase = "send" /\ u.n = t.n + 1 /\ t.n < t.records
                 /\ f.op = "record" /\ (t.n = 0 => f.messages = t.records - 1)
                 /\ snaps' = IF t.n = 0 THEN Put(snaps, t.id, t.records - 1) ELSE snaps
              \/ u.phase = "ack" /\ u.n = t.n /\ f.op = "end" /\ snaps' = snaps
           /\ inbox' = Told(d, <<f>>)
    BY <1>0, SendRecordIs
  <2> QED BY <2>1
<1>2. t # None /\ t.n \in Nat /\ t.records \in Nat
  BY NoneIs DEF TaskRecord
<1>3. t.sending /\ t.n # 0 => t.id \in DOMAIN snaps /\ t.records = 1 + snaps[t.id]
  BY <1>0, <1>1, <1>2 DEF TaskTrue
<1>4. WrittenBy(t) = 2 + t.n /\ WrittenBy(u) = 3 + t.n
  <2>1. WrittenBy(t) = 2 + t.n
    BY <1>1 DEF WrittenBy
  <2>2. WrittenBy(u) = (IF u.phase = "send" THEN 2 + u.n ELSE 3 + u.n)
    BY <1>1 DEF WrittenBy
  <2> QED BY <1>1, <1>2, <2>1, <2>2
<1>5. f.op = "record" =>
        t.id \in DOMAIN snaps' /\ t.n <= snaps'[t.id] /\ (t.n = 0 => f.messages = snaps'[t.id])
  <2> SUFFICES ASSUME f.op = "record"
      PROVE t.id \in DOMAIN snaps' /\ t.n <= snaps'[t.id] /\ (t.n = 0 => f.messages = snaps'[t.id])
    OBVIOUS
  <2>1. CASE t.n = 0
    <3>1. snaps' = Put(snaps, t.id, t.records - 1) /\ f.messages = t.records - 1
      BY <1>1, <2>1
    <3>2. t.id \in DOMAIN snaps' /\ snaps'[t.id] = t.records - 1
      BY <3>1 DEF Put
    <3> QED BY <1>1, <1>2, <2>1, <3>1, <3>2
  <2>2. CASE t.n # 0
    <3>1. t.id \in DOMAIN snaps /\ t.records = 1 + snaps[t.id] /\ t.n < t.records /\ snaps' = snaps
      BY <1>1, <1>3, <2>2
    <3>2. snaps[t.id] \in Nat
      BY <1>0, <3>1, PairingAssumption DEF Types
    <3> QED BY <1>2, <2>2, <3>1, <3>2
  <2> QED BY <2>1, <2>2
<1>6. ASSUME NEW r \in Device \ {d} PROVE FrameIn(r, t.id, 3 + t.n, f)'
  <2>1. PICK k \in Nat : k = 3 + t.n
    BY <1>2
  <2>2. k # 1 /\ k # 2 /\ k - 3 = t.n /\ (k = 3 => t.n = 0)
    BY <1>2, <2>1
  <2>3. FrameIn(r, t.id, k, f)'
    BY <1>1, <1>5, <2>2 DEF FrameIn
  <2> QED BY <2>1, <2>3
<1>7. PICK w \in Nat : w = 2 + t.n /\ w + 1 = 3 + t.n
  BY <1>2
<1>8. t.id \in Sessions
  BY DEF TaskRecord
<1>9. \A r \in Device \ {d} : FrameIn(r, t.id, w + 1, f)'
  BY <1>6, <1>7
<1>10. Writes(d, t.id, w, f)
  BY <1>1, <1>4, <1>7, <1>9 DEF Writes
<1> QED BY <1>8, <1>10

LEMMA GiverTurn ==
  ASSUME PairingInv, Grows, NEW d \in Device, Turn(d), Beyond(d)', task[d].sending
  PROVE  Silent(d) \/ \E id \in Sessions, w \in Nat, f \in Frame : Writes(d, id, w, f)
<1>1. ~Receive(d)
  <2> SUFFICES ASSUME Receive(d) PROVE FALSE
    OBVIOUS
  <2>1. TaskTrue(d)
    BY DEF PairingInv, Local
  <2> QED BY <2>1 DEF TaskTrue, Receive, At
<1> QED BY <1>1, GiverCalm, GiverConfirms, GiverLinks, GiverSends DEF Calm

\* A taker says nothing to another taker.
LEMMA TakerTells ==
  ASSUME PairingInv, NEW d \in Device, Turn(d), NEW r \in Device \ {d}, Beyond(r), ~task[r].sending,
         ~(Beyond(d) /\ task[d].sending /\ task[d].id = task[r].id)
  PROVE  inbox'[r] = inbox[r]
<1>0. Types /\ Single /\ \A x \in Device : TaskTrue(x)
  BY DEF PairingInv, Local
<1>1. r \in Peers(d) => ~Beyond(d)
  <2> SUFFICES ASSUME r \in Peers(d), Beyond(d) PROVE FALSE
    OBVIOUS
  <2>1. task[r].id = task[d].id
    BY <1>0, PeersAre
  <2>2. ~task[d].sending
    BY <2>1
  <2>3. task[d].sending = task[r].sending
    <3>1. PICK t \in TaskRecord, u \in TaskRecord : t = task[d] /\ u = task[r]
      BY <1>0, LiveIs DEF Beyond
    <3> QED BY <2>2, <3>1 DEF TaskRecord
  <2> QED BY <1>0, <2>1, <2>3, Opposite
<1>2. CASE r \notin Peers(d)
  BY <1>2, InboxOfOthers
<1>3. CASE r \in Peers(d)
  <2>1. ~Beyond(d)
    BY <1>1, <1>3
  <2>2. ~Confirmed(d) /\ ~BothConfirmed(d) /\ ~SendRecord(d) /\ ~SendInstalled(d) /\ ~Receive(d)
    BY <2>1 DEF Confirmed, BothConfirmed, SendRecord, SendInstalled, Receive, At, Beyond, Live
  <2> QED BY <2>2, CalmTells DEF Calm
<1> QED BY <1>2, <1>3

LEMMA StreamOfOther ==
  ASSUME PairingInv, Grows, NEW d \in Device, Turn(d), NEW r \in Device \ {d}, Beyond(r)', ~task'[r].sending
  PROVE  StreamOf(r)'
<1>t. Types
  BY DEF PairingInv
<1>0. Types /\ Single /\ Stream /\ \A x \in Device : TaskTrue(x)
  BY DEF PairingInv, Local
<1>1. \A x \in Device \ {d} : task'[x] = task[x]
  BY <1>0, MineOnly DEF Kept
<1>2. Beyond(r) /\ ~task[r].sending
  BY <1>1 DEF Beyond, Live
<1>3. PICK t \in TaskRecord : t = task[r] /\ t = task'[r]
  BY <1>0, <1>1, <1>2, LiveIs DEF Beyond
<1>4. StreamOf(r)
  BY <1>0, <1>2 DEF Stream
<1>5. \A s \in Device \ {d} : Beyond(s)' => Beyond(s)
  BY <1>1 DEF Beyond, Live
<1>6. Beyond(d)' => Beyond(d) /\ task'[d].id = task[d].id /\ task'[d].sending = task[d].sending
  BY StaysBeyond
<1>7. CASE ~(Beyond(d)' /\ task'[d].sending /\ task'[d].id = t.id)
  <2>1. \A s \in Device : Beyond(s)' /\ task'[s].sending /\ task'[s].id = t.id =>
          /\ Beyond(s) /\ task[s].sending /\ task[s].id = t.id /\ s # d
          /\ WrittenBy(task'[s]) = WrittenBy(task[s])
    BY <1>1, <1>5, <1>7
  <2>2. CASE inbox'[r] = inbox[r]
    BY <1>0, <1>3, <1>4, <2>1, <2>2, StreamRead
  <2>3. CASE inbox'[r] # inbox[r]
    \* A giver that ends as it writes: nobody is left whose frames are counted.
    <3>1. Beyond(d) /\ task[d].sending /\ task[d].id = t.id
      BY <1>2, <1>3, <2>3, TakerTells
    <3>2. ~(Beyond(d)')
      BY <1>6, <1>7, <3>1
    <3>3. Confirmed(d) \/ BothConfirmed(d) \/ SendRecord(d) \/ SendInstalled(d) \/ Receive(d)
      BY <2>3, CalmTells DEF Calm
    <3>4. ~SendInstalled(d) /\ ~Receive(d)
      BY <1>0, <3>1 DEF SendInstalled, Receive, At, TaskTrue
    <3>5. PICK u \in TaskRecord : u = task'[d] /\ u.phase \in {"wait", "send", "receive", "ack"}
      <4>1. CASE Confirmed(d)
        <5>1. PICK x \in TaskRecord, u \in TaskRecord, f \in Frame :
                 x = task[d] /\ u = task'[d] /\ Alike(u, x) /\ u.phase = "wait" /\ inbox' = Told(d, <<f>>)
          BY <1>0, <4>1, ConfirmedIs
        <5> QED BY <5>1
      <4>2. CASE BothConfirmed(d)
        <5>1. PICK x \in TaskRecord, u \in TaskRecord :
                 /\ x = task[d] /\ u = task'[d] /\ Alike(u, x) /\ u.phase = (IF x.sending THEN "send" ELSE "receive")
                 /\ inbox[d] # << >> /\ inbox'[d] = Tail(inbox[d])
          BY <1>0, <4>2, BothConfirmedIs
        <5> QED BY <5>1
      <4>3. CASE SendRecord(d)
        <5>1. \E x \in TaskRecord, u \in TaskRecord, f \in Frame :
                 /\ x = task[d] /\ u = task'[d] /\ Alike(u, x) /\ u.identity = x.identity
                 /\ x.phase = "send" /\ x.records # 0
                 /\ \/ /\ u.phase = "send" /\ u.n = x.n + 1 /\ x.n < x.records
                       /\ f.op = "record" /\ (x.n = 0 => f.messages = x.records - 1)
                       /\ snaps' = IF x.n = 0 THEN Put(snaps, x.id, x.records - 1) ELSE snaps
                    \/ u.phase = "ack" /\ u.n = x.n /\ f.op = "end" /\ snaps' = snaps
                 /\ inbox' = Told(d, <<f>>)
          BY <1>t, <4>3, SendRecordIs
        <5> QED BY <5>1
      <4> QED BY <3>3, <3>4, <4>1, <4>2, <4>3
    <3>6. u # None
      BY NoneIs
    <3> QED BY <3>2, <3>5, <3>6 DEF Beyond, Live
  <2> QED BY <2>2, <2>3
<1>8. CASE Beyond(d)' /\ task'[d].sending /\ task'[d].id = t.id
  <2>1. Beyond(d) /\ task[d].sending /\ task[d].id = t.id
    BY <1>6, <1>8
  <2>2. \A s \in Device : Beyond(s)' /\ task'[s].sending /\ task'[s].id = t.id => s = d
    <3> SUFFICES ASSUME NEW s \in Device, Beyond(s)', task'[s].sending, task'[s].id = t.id, s # d PROVE FALSE
      OBVIOUS
    <3>1. Beyond(s) /\ task[s].sending /\ task[s].id = t.id
      BY <1>1, <1>5
    <3>2. task[s].sending = task[d].sending
      <4>1. PICK x \in TaskRecord, y \in TaskRecord : x = task[d] /\ y = task[s]
        BY <1>0, <2>1, <3>1, LiveIs DEF Beyond
      <4> QED BY <2>1, <3>1, <4>1 DEF TaskRecord
    <3> QED BY <1>0, <2>1, <3>1, <3>2, Opposite
  <2>3. CASE Silent(d)
    <3>1. \A s \in Device : Beyond(s)' /\ task'[s].sending /\ task'[s].id = t.id =>
            /\ Beyond(s) /\ task[s].sending /\ task[s].id = t.id
            /\ WrittenBy(task'[s]) = WrittenBy(task[s])
      BY <2>1, <2>2, <2>3 DEF Silent
    <3>2. inbox'[r] = inbox[r]
      BY <2>3 DEF Silent
    <3> QED BY <1>0, <1>3, <1>4, <3>1, <3>2, StreamRead
  <2>4. ASSUME NEW id \in Sessions, NEW w \in Nat, NEW f \in Frame, Writes(d, id, w, f)
        PROVE  StreamOf(r)'
    <3>1. id = t.id /\ w = WrittenBy(task[d]) /\ WrittenBy(task'[d]) = w + 1
      BY <2>1, <2>4 DEF Writes
    <3>2. inbox'[r] = Append(inbox[r], f)
      <4>1. r \in Peers(d)
        BY <1>0, <1>2, <1>3, <2>1, PeersAre
      <4>2. inbox'[r] = Told(d, <<f>>)[r]
        BY <2>4 DEF Writes
      <4> QED BY <1>0, <4>1, <4>2, ToldOne
    <3>3. FrameIn(r, t.id, w + 1, f)'
      <4>1. FrameIn(r, id, w + 1, f)'
        BY <2>4 DEF Writes
      <4> QED BY <3>1, <4>1
    <3> QED BY <1>0, <1>3, <1>4, <2>1, <2>2, <3>1, <3>2, <3>3, StreamWritten
  <2>5. Silent(d) \/ \E id \in Sessions, w \in Nat, f \in Frame : Writes(d, id, w, f)
    BY <1>8, <2>1, GiverTurn
  <2> QED BY <2>3, <2>4, <2>5
<1> QED BY <1>7, <1>8

LEMMA StreamOfOwn ==
  ASSUME PairingInv, Grows, NEW d \in Device, Turn(d), Beyond(d)', ~task'[d].sending
  PROVE  StreamOf(d)'
<1>t. Types
  BY DEF PairingInv
<1>0. Types /\ Stream /\ TaskTrue(d)
  BY DEF PairingInv, Local
<1>1. \A x \in Device \ {d} : task'[x] = task[x]
  BY <1>0, MineOnly DEF Kept
<1>2. Beyond(d) /\ task'[d].id = task[d].id /\ ~task[d].sending /\ task[d] # None
  BY StaysBeyond
<1>3. StreamOf(d)
  BY <1>0, <1>2 DEF Stream
<1>4. \A s \in Device : Beyond(s)' /\ task'[s].sending /\ task'[s].id = task'[d].id =>
        /\ Beyond(s) /\ task[s].sending /\ task[s].id = task[d].id
        /\ WrittenBy(task'[s]) = WrittenBy(task[s])
  <2> SUFFICES ASSUME NEW s \in Device, Beyond(s)', task'[s].sending, task'[s].id = task'[d].id
      PROVE /\ Beyond(s) /\ task[s].sending /\ task[s].id = task[d].id
            /\ WrittenBy(task'[s]) = WrittenBy(task[s])
    OBVIOUS
  <2>1. s # d /\ task'[s] = task[s]
    BY <1>1
  <2> QED BY <1>2, <2>1 DEF Beyond, Live
<1>5. ASSUME NEW t \in TaskRecord, t = task[d], NEW u \in TaskRecord, u = task'[d],
             \/ inbox'[d] = inbox[d] /\ ReadBy(u) = ReadBy(t)
             \/ inbox[d] # << >> /\ inbox'[d] = Tail(inbox[d]) /\ ReadBy(u) = ReadBy(t) + 1
      PROVE  StreamOf(d)'
  <2>1. u.id = t.id
    BY <1>2, <1>5
  <2>2. \A s \in Device : Beyond(s)' /\ task'[s].sending /\ task'[s].id = u.id =>
          /\ Beyond(s) /\ task[s].sending /\ task[s].id = t.id
          /\ WrittenBy(task'[s]) = WrittenBy(task[s])
    BY <1>4, <1>5
  <2> QED BY <1>0, <1>3, <1>5, <2>1, <2>2, StreamRead
<1>6. CASE Calm(d)
  <2>1. Idled(d)
    BY <1>6, CalmIs DEF Ended, Begun, Beyond, Live
  <2>2. PICK t \in TaskRecord, u \in TaskRecord : t = task[d] /\ u = task'[d] /\ Idles(u, t) /\ inbox'[d] = inbox[d]
    BY <2>1 DEF Idled
  <2>3. u.phase # "aborted" /\ t.n \in Nat /\ (t.phase \in {"staging", "installing"} => t.identity # "none")
    BY <1>0, <1>2, <2>2 DEF Beyond, Live, TaskTrue, TaskRecord
  <2>4. ReadBy(u) = ReadBy(t)
    <3>1. CASE u.phase = t.phase /\ u.n = t.n /\ u.identity = t.identity
      BY <3>1 DEF ReadBy
    <3>2. CASE t.phase = "staging" /\ u.phase = "receive" /\ u.n = t.n + 1 /\ u.identity = t.identity
      <4>1. ReadBy(t) = 3 + t.n /\ ReadBy(u) = 2 + (t.n + 1)
        BY <2>3, <3>2 DEF ReadBy
      <4> QED BY <2>3, <4>1
    <3>3. CASE t.phase = "installing" /\ u.phase = "installed" /\ u.n = t.n + 1 /\ u.identity = t.identity
      <4>1. ReadBy(t) = 3 + t.n /\ ReadBy(u) = 2 + (t.n + 1)
        BY <3>3 DEF ReadBy
      <4> QED BY <2>3, <4>1
    <3> QED BY <2>2, <2>3, <3>1, <3>2, <3>3 DEF Idles
  <2> QED BY <1>5, <2>2, <2>4
<1>7. CASE Confirmed(d)
  <2>1. PICK t \in TaskRecord, u \in TaskRecord, f \in Frame :
           /\ t = task[d] /\ u = task'[d] /\ Alike(u, t)
           /\ t.phase = "verify" /\ u.phase = "wait" /\ u.n = t.n /\ u.identity = t.identity
           /\ f.op = "confirmed" /\ inbox' = Told(d, <<f>>)
    BY <1>0, <1>7, ConfirmedIs
  <2>2. inbox'[d] = inbox[d]
    BY <1>0, <2>1, OneFrame, ToldIs
  <2>3. ReadBy(u) = ReadBy(t)
    BY <2>1 DEF ReadBy
  <2> QED BY <1>5, <2>1, <2>2, <2>3
<1>8. CASE BothConfirmed(d)
  <2>1. PICK t \in TaskRecord, u \in TaskRecord :
           /\ t = task[d] /\ u = task'[d] /\ t.phase = "wait" /\ u.phase = (IF t.sending THEN "send" ELSE "receive")
           /\ u.n = t.n /\ u.identity = t.identity
           /\ inbox[d] # << >> /\ inbox'[d] = Tail(inbox[d])
    <3>1. \E t \in TaskRecord, u \in TaskRecord, f \in Frame :
             /\ t = task[d] /\ u = task'[d] /\ Alike(u, t)
             /\ t.phase = "wait" /\ u.phase = (IF t.sending THEN "send" ELSE "receive")
             /\ u.n = t.n /\ u.identity = t.identity
             /\ f.op = "link" /\ f.identity = account[d]
             /\ inbox[d] # << >> /\ inbox'[d] = Tail(inbox[d])
             /\ t.sending => \A e \in Device \ {d} : inbox'[e] = Told(d, <<f>>)[e]
             /\ ~t.sending => \A e \in Device \ {d} : inbox'[e] = inbox[e]
      BY <1>t, <1>8, BothConfirmedIs
    <3> QED BY <3>1
  <2>2. u.phase = "receive" /\ u.identity = "none"
    BY <1>0, <1>2, <2>1 DEF TaskTrue
  <2>3. ReadBy(t) = 0 /\ ReadBy(u) = 1
    BY <2>1, <2>2 DEF ReadBy
  <2>4. ReadBy(u) = ReadBy(t) + 1
    BY <2>3
  <2> QED BY <1>5, <2>1, <2>4
<1>9. CASE SendRecord(d)
  BY <1>0, <1>2, <1>9 DEF SendRecord, At, TaskTrue
<1>10. CASE Receive(d)
  <2>1. PICK t \in TaskRecord, u \in TaskRecord :
           /\ t = task[d] /\ u = task'[d] /\ Alike(u, t) /\ u.n = t.n /\ t.phase = "receive"
           /\ inbox[d] # << >> /\ inbox'[d] = Tail(inbox[d])
           /\ \/ u.phase = "receive" /\ t.identity = "none" /\ u.identity # "none" /\ t.n = 0
              \/ u.phase \in {"staging", "installing"} /\ t.identity # "none" /\ u.identity = t.identity
    BY <1>10, ReceiveIs
  <2>2. t.n \in Nat
    BY DEF TaskRecord
  <2>3. CASE u.phase = "receive" /\ t.identity = "none" /\ u.identity # "none" /\ t.n = 0
    <3>1. ReadBy(t) = 1 /\ ReadBy(u) = 2 + 0
      BY <2>1, <2>3 DEF ReadBy
    <3>2. ReadBy(u) = ReadBy(t) + 1
      BY <3>1
    <3> QED BY <1>5, <2>1, <3>2
  <2>4. CASE u.phase \in {"staging", "installing"} /\ t.identity # "none" /\ u.identity = t.identity
    <3>1. ReadBy(t) = 2 + t.n /\ ReadBy(u) = 3 + t.n
      BY <2>1, <2>4 DEF ReadBy
    <3>2. ReadBy(u) = ReadBy(t) + 1
      BY <2>2, <3>1
    <3> QED BY <1>5, <2>1, <3>2
  <2> QED BY <2>1, <2>3, <2>4
<1> QED BY <1>6, <1>7, <1>8, <1>9, <1>10 DEF Calm

LEMMA StreamOfMeeting ==
  ASSUME PairingInv, Grows, NEW d \in Device, NEW p \in Device, Meet(d, p), NEW r \in Device,
         Beyond(r)', ~task'[r].sending
  PROVE  StreamOf(r)'
<1>0. Types /\ Single /\ Stream /\ \A x \in Device : TaskTrue(x) /\ Mail(x)
  BY DEF PairingInv, Local
<1>t. Types
  BY <1>0
<1>1. PICK t \in TaskRecord, u \in TaskRecord : t = task[d] /\ u = task[p]
  BY <1>t, MeetIs
<1>2. /\ d # p /\ t.phase = "listen" /\ u.phase = "connect" /\ u.id = t.id /\ Live(d)
      /\ task'[d] = [t EXCEPT !.phase = "verify"]
  BY <1>t, <1>1, MeetIs
<1>3. task'[p] = None \/ task'[p] = [u EXCEPT !.phase = "verify"]
  BY <1>t, <1>1, MeetIs
<1>4. \A x \in Device \ {d, p} : task'[x] = task[x] /\ inbox'[x] = inbox[x]
  <2>1. \A x \in Device \ {d, p} : Kept(x)
    BY <1>t, MeetIs
  <2>2. inbox' = inbox \/ \A x \in Device \ {p} : inbox'[x] = inbox[x]
    BY <1>t, MeetIs
  <2> QED BY <2>1, <2>2 DEF Kept
<1>5. \A x \in {d, p} : task'[x] # None => task'[x].phase = "verify" /\ task'[x].id = t.id
  BY <1>2, <1>3 DEF TaskRecord
<1>6. \A x \in Device : ~Joined(x, t.id)
  BY <1>0, <1>1, <1>2, NobodyYet
<1>7. CASE r \notin {d, p}
  <2>1. task'[r] = task[r] /\ inbox'[r] = inbox[r] /\ Beyond(r) /\ ~task[r].sending
    BY <1>4, <1>7 DEF Beyond, Live
  <2>2. PICK v \in TaskRecord : v = task[r] /\ v = task'[r]
    BY <1>t, <2>1, LiveIs DEF Beyond
  <2>3. v.id # t.id
    BY <1>6, <2>1, <2>2 DEF Joined, On
  <2>4. \A s \in Device : Beyond(s)' /\ task'[s].sending /\ task'[s].id = v.id =>
          /\ Beyond(s) /\ task[s].sending /\ task[s].id = v.id
          /\ WrittenBy(task'[s]) = WrittenBy(task[s])
    <3> SUFFICES ASSUME NEW s \in Device, Beyond(s)', task'[s].sending, task'[s].id = v.id
        PROVE /\ Beyond(s) /\ task[s].sending /\ task[s].id = v.id
              /\ WrittenBy(task'[s]) = WrittenBy(task[s])
      OBVIOUS
    <3>1. s \notin {d, p}
      BY <1>5, <2>3 DEF Beyond, Live
    <3>2. task'[s] = task[s]
      BY <1>4, <3>1
    <3> QED BY <3>2 DEF Beyond, Live
  <2>5. StreamOf(r)
    BY <1>0, <2>1 DEF Stream
  <2> QED BY <1>0, <2>1, <2>2, <2>4, <2>5, StreamRead
<1>8. CASE r \in {d, p}
  <2>1. PICK v : v = task'[r]
    OBVIOUS
  <2>2. v.phase = "verify" /\ v.id = t.id
    BY <1>5, <1>8, <2>1 DEF Beyond, Live
  <2>3. inbox'[r] = << >>
    <3>1. inbox[r] = << >>
      BY <1>0, <1>1, <1>2, <1>8, NoneIs DEF Mail
    <3>2. inbox' = inbox \/ (inbox'[p] = << >> /\ \A x \in Device \ {p} : inbox'[x] = inbox[x])
      BY <1>t, MeetIs
    <3> QED BY <3>1, <3>2
  <2>4. ReadBy(v) = 0
    BY <2>2 DEF ReadBy
  <2>5. ASSUME NEW s \in Device, Beyond(s)', task'[s].sending, task'[s].id = v.id
        PROVE  WrittenBy(task'[s]) = 0
    <3>1. s \in {d, p}
      <4> SUFFICES ASSUME s \notin {d, p} PROVE FALSE
        OBVIOUS
      <4>1. task'[s] = task[s]
        BY <1>4
      <4>2. Joined(s, t.id)
        BY <2>2, <2>5, <4>1 DEF Joined, On, Beyond, Live
      <4> QED BY <1>6, <4>2
    <3>2. task'[s].phase = "verify"
      BY <1>5, <2>5, <3>1 DEF Beyond, Live
    <3> QED BY <3>2 DEF WrittenBy
  <2>6. PICK q : q = inbox'[r]
    OBVIOUS
  <2>7. q = << >> /\ DOMAIN q = {} /\ Len(q) = 0
    BY <2>3, <2>6
  <2>8. \A s \in Device : Beyond(s)' /\ task'[s].sending /\ task'[s].id = v.id =>
          WrittenBy(task'[s]) = ReadBy(v) + Len(q)
    BY <2>4, <2>5, <2>7
  <2> QED BY <2>1, <2>6, <2>7, <2>8, StreamNext
<1> QED BY <1>7, <1>8

LEMMA StreamStep == PairingInv /\ Next => Stream'
<1> SUFFICES ASSUME PairingInv, Next, NEW r \in Device, Beyond(r)', ~task'[r].sending PROVE StreamOf(r)'
  BY DEF Stream
<1>1. Grows
  BY NextGrows
<1>2. ASSUME NEW d \in Device, Turn(d) PROVE StreamOf(r)'
  <2>1. CASE r = d
    BY <1>1, <1>2, <2>1, StreamOfOwn
  <2>2. CASE r # d
    BY <1>1, <1>2, <2>2, StreamOfOther
  <2> QED BY <2>1, <2>2
<1> QED BY <1>1, <1>2, NextIsTurn, StreamOfMeeting

-----------------------------------------------------------------------------
(* The theorems                                                            *)

LEMMA PairingInit == Init => PairingInv
<1> SUFFICES ASSUME Init PROVE PairingInv
  OBVIOUS
<1>0. \A d \in Device : /\ task[d] = None /\ active[d] = None /\ inbox[d] = << >> /\ queue[d] = << >> /\ via[d] = 0
                        /\ \A id \in Sessions : stage[d][id] = << >>
  BY DEF Init
<1>1. Types
  <2>1. account \in [Device -> Identity]
    BY PairingAssumption DEF Init, Identity
  <2>2. log \in [Device -> 0 .. MaxLog]
    <3>1. 0 \in 0 .. MaxLog /\ 1 \in 0 .. MaxLog
      BY PairingAssumption
    <3> QED BY <3>1 DEF Init
  <2>3. stage \in [Device -> [Sessions -> Seq(Record)]]
    <3>1. << >> \in Seq(Record)
      OBVIOUS
    <3> QED BY <3>1 DEF Init
  <2>4. active \in [Device -> ActiveRecord \union {None}] /\ task \in [Device -> TaskRecord \union {None}]
    BY DEF Init
  <2>5. epoch \in [Device -> 0 .. MaxCancel] /\ via \in [Device -> 0 .. MaxSession]
    <3>1. 0 \in 0 .. MaxCancel /\ 0 \in 0 .. MaxSession
      BY PairingAssumption
    <3> QED BY <3>1 DEF Init
  <2>6. queue \in [Device -> Seq(Order)] /\ inbox \in [Device -> Seq(Frame)]
    <3>1. << >> \in Seq(Order) /\ << >> \in Seq(Frame)
      OBVIOUS
    <3> QED BY <3>1 DEF Init
  <2>7. DOMAIN shown = {} /\ DOMAIN snaps = {} /\ agreed = {} /\ reported = {}
    BY DEF Init
  <2> QED BY <2>1, <2>2, <2>3, <2>4, <2>5, <2>6, <2>7 DEF Types
<1>2. Single
  BY DEF Single, Init
<1>3. Stream
  BY <1>0 DEF Stream, Beyond, Live
<1>4. Reported
  BY DEF Reported, Init
<1>5. NothingRevoked
  BY <1>0 DEF NothingRevoked
<1>6. ASSUME NEW d \in Device PROVE Local(d) /\ Mail(d)
  <2>1. TaskTrue(d) /\ ActiveTrue(d)
    BY <1>0 DEF TaskTrue, ActiveTrue
  <2>2. Requests(d) /\ Staged(d) /\ Mail(d)
    BY <1>0 DEF Requests, Staged, Mail
  <2>3. Installed(d)
    BY <1>0 DEF Installed, Init
  <2> QED BY <2>1, <2>2, <2>3 DEF Local
<1> QED BY <1>1, <1>2, <1>3, <1>4, <1>5, <1>6 DEF PairingInv

LEMMA PairingInvStep == PairingInv /\ [Next]_vars => PairingInv'
<1> SUFFICES ASSUME PairingInv, [Next]_vars PROVE PairingInv'
  OBVIOUS
<1>1. CASE Next
  <2>1. Types' /\ Single' /\ Stream' /\ Reported' /\ NothingRevoked'
    BY <1>1, TypesStep, SingleStep, StreamStep, ReportedStep, RevokedStep
  <2>2. \A e \in Device : Local(e)' /\ Mail(e)'
    BY <1>1, LocalStep, MailStep
  <2> QED BY <2>1, <2>2 DEF PairingInv
<1>2. CASE UNCHANGED vars
  <2> USE <1>2 DEF vars, stores, memory, history
  <2>1. Types'
    BY DEF PairingInv, Types
  <2>2. Single'
    BY DEF PairingInv, Single, Joined, Listens, Beyond, Live, On
  <2>3. Stream'
    BY DEF PairingInv, Stream, StreamOf, FrameIn, Vouched, Beyond, Live, On
  <2>4. Reported' /\ NothingRevoked'
    BY DEF PairingInv, Reported, NothingRevoked
  <2>5. ASSUME NEW e \in Device PROVE Local(e)' /\ Mail(e)'
    <3>1. Types /\ Local(e) /\ Mail(e)
      BY DEF PairingInv
    <3>2. Grows
      BY DEF Grows
    <3>3. Kept(e)
      BY DEF Kept
    <3>4. Mail(e)'
      BY <3>1 DEF Mail
    <3> QED BY <3>1, <3>2, <3>3, <3>4, OthersKeep
  <2> QED BY <2>1, <2>2, <2>3, <2>4, <2>5 DEF PairingInv
<1> QED BY <1>1, <1>2

LEMMA Whole == PairingInv => WholeOrNothing
<1> SUFFICES ASSUME PairingInv PROVE WholeOrNothing
  OBVIOUS
<1>0. Types /\ Single /\ Reported /\ \A d \in Device : Local(d)
  BY DEF PairingInv
<1>1. TypeOK
  <2>1. \A d \in Device : task[d] # None => task[d].phase \in TaskPhase
    <3> SUFFICES ASSUME NEW d \in Device, task[d] # None PROVE task[d].phase \in TaskPhase
      OBVIOUS
    <3>1. task[d] \in TaskRecord
      BY <1>0 DEF Types
    <3> QED BY <3>1 DEF TaskRecord
  <2>2. \A d \in Device : Live(d) => active[d] # None /\ On(d, active[d].id) /\ active[d].epoch = epoch[d]
    BY <1>0 DEF Local, TaskTrue, Live, On
  <2>3. \A d \in Device, id \in Sessions : Len(stage[d][id]) <= 1 + MaxLog
    <3> SUFFICES ASSUME NEW d \in Device, NEW id \in Sessions PROVE Len(stage[d][id]) <= 1 + MaxLog
      OBVIOUS
    <3>1. CASE stage[d][id] = << >>
      BY <3>1, PairingAssumption
    <3>2. CASE stage[d][id] # << >>
      BY <1>0, <3>2 DEF Local, Staged
    <3> QED BY <3>1, <3>2
  <2>4. /\ account \in [Device -> Holder \union {"none"}] /\ log \in [Device -> 0 .. MaxLog]
        /\ via \in [Device -> 0 .. MaxSession] /\ epoch \in [Device -> 0 .. MaxCancel]
        /\ DOMAIN shown \subseteq Sessions /\ DOMAIN snaps \subseteq DOMAIN shown
    BY <1>0 DEF Types, Identity
  <2> QED BY <2>1, <2>2, <2>3, <2>4 DEF TypeOK
<1>2. InstalledIsWhole
  <2>1. ASSUME NEW d \in Device, via[d] # 0
        PROVE  /\ <<d, via[d]>> \in agreed
               /\ \E s \in Device \ {d} : account[s] = account[d] /\ <<s, via[d]>> \in agreed
               /\ via[d] \in DOMAIN snaps /\ log[d] = snaps[via[d]]
               /\ \A e \in Device \ {d} : via[e] # via[d]
    <3>1. /\ Has(d) /\ Takes(d, via[d]) /\ <<d, via[d]>> \in agreed /\ Vouched(d, via[d], account[d])
          /\ via[d] \in DOMAIN snaps /\ log[d] = snaps[via[d]]
      BY <1>0, <2>1 DEF Local, Installed
    <3>2. ASSUME NEW e \in Device \ {d}, via[e] = via[d] PROVE FALSE
      <4>1. PICK id : id = via[d]
        OBVIOUS
      <4>2. Takes(e, id) /\ Takes(d, id) /\ Joined(d, id) /\ Joined(e, id)
        BY <1>0, <2>1, <3>1, <3>2, <4>1 DEF Local, Installed, Joined
      <4>3. id \in DOMAIN shown /\ ((shown[id].by = d) <=> (shown[id].by = e))
        BY <4>2 DEF Takes
      <4>4. \A x, y \in Device \ {shown[id].by} : Joined(x, id) /\ Joined(y, id) => x = y
        BY <1>0, <4>3 DEF Single
      <4> QED BY <4>2, <4>3, <4>4
    <3> QED BY <3>1, <3>2 DEF Vouched
  <2>2. reported \subseteq {via[d] : d \in Device}
    BY <1>0 DEF Reported
  <2> QED BY <2>1, <2>2 DEF InstalledIsWhole
<1>3. NothingLeftStaged
  <2> SUFFICES ASSUME NEW d \in Device, NEW id \in Sessions, stage[d][id] # << >>, ~(task[d] # None /\ On(d, id))
      PROVE \E i \in DOMAIN queue[d] : queue[d][i] = [op |-> "cleanup", id |-> id]
    BY DEF NothingLeftStaged
  <2>1. CleansUp(queue[d], id)
    BY <1>0 DEF Local, Staged
  <2>2. PICK i \in DOMAIN queue[d] : queue[d][i].op = "cleanup" /\ queue[d][i].id = id
    BY <2>1 DEF CleansUp
  <2>3. queue[d][i] \in Order
    BY <1>0 DEF Types
  <2>4. \A c \in Order : c.op = "cleanup" => c = [op |-> "cleanup", id |-> c.id]
    BY DEF Order
  <2>5. queue[d][i] = [op |-> "cleanup", id |-> id]
    BY <2>2, <2>3, <2>4
  <2> QED BY <2>5
<1> QED BY <1>1, <1>2, <1>3 DEF WholeOrNothing

LEMMA SpecInv == Spec => []PairingInv
BY PairingInit, PairingInvStep, PTL DEF Spec

(* However a pairing ends, with tasks that fail anywhere, restarts, and       *)
(* cancellations at any moment: an account is there whole, from the other     *)
(* device of a session that both users agreed to, with every message of its   *)
(* header, on one new device, or nothing of it is; a source that reports      *)
(* success is right; and nothing stays in link_stage but for a task that runs *)
(* or a PairingCleanup that waits.                                            *)
THEOREM WholeOrNothingHolds == Spec => []WholeOrNothing
BY SpecInv, Whole, PTL

LEMMA CancelStep == PairingInv /\ [Next]_vars => \A d \in Device : via'[d] # via[d] => <<d, via'[d]>> \notin revoked
<1> SUFFICES ASSUME PairingInv, [Next]_vars, NEW d \in Device, via'[d] # via[d] PROVE <<d, via'[d]>> \notin revoked
  OBVIOUS
<1>0. Types /\ NothingRevoked
  BY DEF PairingInv
<1>1. Install(d)
  <2>1. Next
    BY DEF vars, history
  <2>2. PICK e \in Device : Turn(e) \/ \E p \in Device : Meet(e, p)
    BY <2>1, NextIsTurn
  <2>3. Turn(e)
    BY <2>2 DEF Meet, history
  <2>4. e = d
    BY <1>0, <2>3, MineOnly DEF Kept
  <2> QED BY <2>3, <2>4 DEF Turn, Show, Scan, Begins, Refused, Confirm, Cancel, LateMail, Restart, StageRecord, CleanStage,
      Cancelled, Confirmed, BothConfirmed, Snapshot, SendRecord, Receive, SendInstalled, SourceDone,
      Fail, Dropped, history
<1>2. PICK c : c = Head(queue[d])
  OBVIOUS
<1>3. queue[d] # << >> /\ c.op = "install" /\ ValidReceiver(d, c.id) /\ via'[d] = c.id
  BY <1>0, <1>1, <1>2 DEF Install, Types
<1>4. active[d] # None /\ active[d].id = c.id /\ active[d].epoch = epoch[d]
  BY <1>3 DEF ValidReceiver
<1> QED BY <1>0, <1>3, <1>4 DEF NothingRevoked

(* A session that the user cancelled installs nothing afterwards, even if all *)
(* of it was received before and the core comes to it only now: Engine::submit *)
(* raises the epoch at once, and install_link_history asks for it last.       *)
THEOREM CancelIsKept == Spec => CancelHolds
<1>1. PairingInv /\ [Next]_vars => [\A d \in Device : via'[d] # via[d] => <<d, via'[d]>> \notin revoked]_vars
  BY CancelStep
<1> QED BY <1>1, SpecInv, PTL DEF Spec, CancelHolds
=============================================================================

------------------------------ MODULE VpnProofs ------------------------------
(* Proofs about the two ends of the VPN, for every set of nodes, commands,    *)
(* devices, keys, handlers and mishaps.  The client (module VpnClient):       *)
(* nothing the machine was changed by is forgotten, and a tunnel that is up   *)
(* is protected.  The control plane and its node (module Tunnel): every peer  *)
(* is accounted for, who has one may have it, and no unit of traffic is       *)
(* charged twice.                                                             *)
EXTENDS VpnClient, Tunnel, FiniteSetTheorems, TLAPS

-----------------------------------------------------------------------------
(* The plan of configure_networking. *)

\* The two groups of two effects stand together, whatever else is planned.
Good(s, p) ==
    /\ s \in Seq([kind : DOMAIN GroupOf, place : {p, Nowhere}])
    /\ \A i \in 1 .. Len(s) :
         \/ s[i].kind \in {"tcp", "block", "ipv6"}
         \/ s[i] = Effect("route", p)
         \/ s[i].kind = "udp" /\ i + 1 <= Len(s) /\ s[i + 1].kind = "tcp"
         \/ s[i].kind = "allow" /\ i + 1 <= Len(s) /\ s[i + 1].kind = "block"

LEMMA GoodTogether ==
    ASSUME NEW p, NEW s, NEW t, Good(s, p), Good(t, p)
    PROVE  Good(s \o t, p)
<1>. DEFINE E == [kind : DOMAIN GroupOf, place : {p, Nowhere}]
<1>1. s \in Seq(E) /\ t \in Seq(E)
  BY DEF Good
<1>. HIDE DEF E
<1>2. s \o t \in Seq(E) /\ Len(s \o t) = Len(s) + Len(t) /\ Len(s) \in Nat /\ Len(t) \in Nat
  BY <1>1
<1>3. ASSUME NEW i \in 1 .. Len(s)
      PROVE  (s \o t)[i] = s[i]
  BY <1>1, <1>2
<1>4. ASSUME NEW i \in 1 .. Len(t)
      PROVE  (s \o t)[Len(s) + i] = t[i]
  BY <1>1, <1>2
<1>5. ASSUME NEW i \in 1 .. Len(s \o t)
      PROVE  \/ (s \o t)[i].kind \in {"tcp", "block", "ipv6"}
             \/ (s \o t)[i] = Effect("route", p)
             \/ (s \o t)[i].kind = "udp" /\ i + 1 <= Len(s \o t) /\ (s \o t)[i + 1].kind = "tcp"
             \/ (s \o t)[i].kind = "allow" /\ i + 1 <= Len(s \o t) /\ (s \o t)[i + 1].kind = "block"
  <2>1. CASE i <= Len(s)
    <3>1. i \in 1 .. Len(s) /\ (s \o t)[i] = s[i] /\ i + 1 \in Nat
      BY <1>2, <1>3, <2>1
    <3>2. i + 1 <= Len(s) => (s \o t)[i + 1] = s[i + 1] /\ i + 1 <= Len(s \o t)
      BY <1>2, <1>3
    <3>. QED
      BY <3>1, <3>2 DEF Good
  <2>2. CASE i > Len(s)
    <3>0. PICK j : j = i - Len(s)
      OBVIOUS
    <3>1. j \in 1 .. Len(t) /\ i = Len(s) + j
      BY <1>2, <2>2, <3>0
    <3>2. (s \o t)[i] = t[j]
      BY <1>4, <3>1
    <3>3. j + 1 <= Len(t) => (s \o t)[i + 1] = t[j + 1] /\ i + 1 <= Len(s \o t)
      BY <1>2, <1>4, <3>1
    <3>. QED
      BY <3>1, <3>2, <3>3 DEF Good
  <2>. QED
    BY <1>2, <2>1, <2>2
<1>. QED
  BY <1>2, <1>5 DEF Good, E

LEMMA PlanIsGood ==
    ASSUME NEW p, NEW kill, NEW via, NEW known
    PROVE  Good(Plan(p, kill, via, known), p)
<1>0. \A k \in DOMAIN GroupOf, q \in {p, Nowhere} : Effect(k, q) \in [kind : DOMAIN GroupOf, place : {p, Nowhere}]
  BY DEF Effect
<1>a. {"udp", "tcp", "allow", "block", "ipv6", "route"} \subseteq DOMAIN GroupOf
  BY DEF GroupOf
<1>1. Good(<< >>, p)
  BY DEF Good
<1>2. Good(<<Effect("udp", Nowhere), Effect("tcp", Nowhere)>>, p)
  <2>1. <<Effect("udp", Nowhere), Effect("tcp", Nowhere)>> \in Seq([kind : DOMAIN GroupOf, place : {p, Nowhere}])
    BY <1>0, <1>a
  <2>. QED
    BY <2>1 DEF Good, Effect
<1>3. Good(<<Effect("allow", p), Effect("block", Nowhere)>>, p)
  <2>1. <<Effect("allow", p), Effect("block", Nowhere)>> \in Seq([kind : DOMAIN GroupOf, place : {p, Nowhere}])
    BY <1>0, <1>a
  <2>. QED
    BY <2>1 DEF Good, Effect
<1>4. Good(<<Effect("ipv6", Nowhere)>>, p)
  <2>1. <<Effect("ipv6", Nowhere)>> \in Seq([kind : DOMAIN GroupOf, place : {p, Nowhere}])
    BY <1>0, <1>a
  <2>. QED
    BY <2>1 DEF Good, Effect
<1>5. Good(<<Effect("route", p)>>, p)
  <2>1. <<Effect("route", p)>> \in Seq([kind : DOMAIN GroupOf, place : {p, Nowhere}])
    BY <1>0, <1>a
  <2>. QED
    BY <2>1 DEF Good
<1>. DEFINE A == IF "dns" \in known THEN <<Effect("udp", Nowhere), Effect("tcp", Nowhere)>> ELSE << >>
            B == IF kill /\ "kill" \in known THEN <<Effect("allow", p), Effect("block", Nowhere)>> ELSE << >>
            C == <<Effect("ipv6", Nowhere)>>
            D == IF via = 0 THEN <<Effect("route", p)>> ELSE << >>
<1>6. Good(A, p) /\ Good(B, p) /\ Good(C, p) /\ Good(D, p)
  BY <1>1, <1>2, <1>3, <1>4, <1>5
<1>7. Plan(p, kill, via, known) = A \o B \o C \o D
  BY DEF Plan
<1>. HIDE DEF A, B, C, D
<1>8. Good(A \o B, p)
  BY <1>6, GoodTogether
<1>9. Good(A \o B \o C, p)
  BY <1>6, <1>8, GoodTogether
<1>. QED
  BY <1>6, <1>7, <1>9, GoodTogether

\* What there is of a plan is remembered by its flags, but for the first effect
\* of the group that was cut short.
LEMMA MadeIsFlagged ==
    ASSUME NEW p, NEW plan, Good(plan, p), NEW n \in 0 .. Len(plan), NEW ipv6 \in BOOLEAN,
           NEW e \in Made(plan, n, ipv6)
    PROVE  e \in Orphan(plan, n) \/ Flagged(Flags(Made(plan, n, ipv6)), e)
<1>. DEFINE made == Made(plan, n, ipv6)
<1>0. Len(plan) \in Nat
  BY DEF Good
<1>1. PICK i \in 1 .. n : e = plan[i]
  BY DEF Made
<1>2. i \in 1 .. Len(plan) /\ n \in Nat
  BY <1>0
<1>3. ASSUME NEW x \in made, x.kind \in Closes
      PROVE  Flag(x) \in Flags(made)
  BY <1>3 DEF Flags
<1>4. CASE plan[i].kind \in {"tcp", "block", "ipv6"}
  <2>1. Flag(e) \in Flags(made) /\ e.kind # "route" /\ Flag(e).group = GroupOf[e.kind]
    BY <1>1, <1>3, <1>4 DEF Closes, Flag
  <2>. QED
    BY <2>1 DEF Flagged
<1>5. CASE plan[i] = Effect("route", p)
  <2>1. Flag(e) \in Flags(made) /\ Flag(e).group = "route" /\ e = Effect("route", Flag(e).place)
    BY <1>1, <1>3, <1>5 DEF Closes, Flag, Effect, GroupOf
  <2>. QED
    BY <2>1 DEF Flagged
<1>6. ASSUME NEW k, NEW l, <<k, l>> \in {<<"udp", "tcp">>, <<"allow", "block">>},
             plan[i].kind = k, i + 1 <= Len(plan), plan[i + 1].kind = l
      PROVE  e \in Orphan(plan, n) \/ Flagged(Flags(made), e)
  <2>1. CASE i = n
    BY <1>0, <1>1, <1>2, <1>6, <2>1 DEF Orphan
  <2>2. CASE i # n
    <3>1. i + 1 \in 1 .. n
      BY <1>0, <1>2, <2>2
    <3>2. plan[i + 1] \in made
      BY <1>6, <3>1 DEF Made
    <3>3. Flag(plan[i + 1]) \in Flags(made)
      BY <1>3, <1>6, <3>2 DEF Closes
    <3>4. Flag(plan[i + 1]).group = GroupOf[l] /\ GroupOf[l] = GroupOf[k] /\ k # "route"
      BY <1>6 DEF Flag, GroupOf
    <3>. QED
      BY <1>1, <1>6, <3>3, <3>4 DEF Flagged
  <2>. QED
    BY <2>1, <2>2
<1>7. CASE plan[i].kind = "udp" /\ i + 1 <= Len(plan) /\ plan[i + 1].kind = "tcp"
  BY <1>6, <1>7
<1>8. CASE plan[i].kind = "allow" /\ i + 1 <= Len(plan) /\ plan[i + 1].kind = "block"
  BY <1>6, <1>8
<1>9. \/ plan[i].kind \in {"tcp", "block", "ipv6"} \/ plan[i] = Effect("route", p)
      \/ plan[i].kind = "udp" /\ i + 1 <= Len(plan) /\ plan[i + 1].kind = "tcp"
      \/ plan[i].kind = "allow" /\ i + 1 <= Len(plan) /\ plan[i + 1].kind = "block"
  BY <1>2 DEF Good
<1>. QED
  BY <1>4, <1>5, <1>7, <1>8, <1>9

-----------------------------------------------------------------------------
(* The machine. *)

MachineInv == NothingForgotten /\ UpIsProtected

\* What cleanup_networking leaves was left by someone before, or it could not be
\* deleted.
LEMMA CleanedUp ==
    ASSUME NothingForgotten, NEW left, NEW e \in Cleaned(wg.flags, left)
    PROVE  e \in stranded \union half \union left
BY DEF NothingForgotten, Cleaned

LEMMA QuietMachine ==
    ASSUME MachineInv, UNCHANGED <<machine, wg, masking>>
    PROVE  MachineInv'
BY DEF MachineInv, NothingForgotten, UpIsProtected, machine, masking, Flagged, GroupOf, Effect

LEMMA RaiseKeepsMachine ==
    ASSUME MachineInv, NEW c, Raise(c)
    PROVE  MachineInv'
<1>. DEFINE p == tasks[c].place
<1>1. PICK left \in Stuck(wg.flags), plan \in Planned(c), ipv6 \in BestEffort :
         LET kept == Cleaned(wg.flags, left)  all == Made(plan, Len(plan), ipv6) IN
         \/ /\ os' = Brought(left, all)
            /\ wg' = [up |-> tasks[c].place, via |-> tasks[c].via,
                      asked |-> Range(plan), flags |-> Flags(all)]
            /\ stranded' = (stranded \union left) \intersect os'
            /\ half' = half
         \/ /\ os' = kept /\ wg' = Down /\ stranded' = (stranded \union left) \intersect os'
            /\ half' = half
         \/ \E n \in 0 .. Len(plan) :
            /\ os' = Undone(kept, Made(plan, n, ipv6), {}) /\ wg' = Down
            /\ stranded' = (stranded \union left) \intersect os'
            /\ half' = (half \union Orphan(plan, n)) \intersect os'
  BY DEF Raise
<1>2. Good(plan, p)
  BY PlanIsGood DEF Planned
<1>3. ipv6 \in BOOLEAN
  BY DEF BestEffort
<1>4. NothingForgotten /\ UpIsProtected
  BY DEF MachineInv
<1>5. UNCHANGED masking
  BY DEF Raise
<1>6. relays' \subseteq {relay'}
  BY <1>4, <1>5 DEF NothingForgotten, masking
<1>. DEFINE kept == Cleaned(wg.flags, left)
            all == Made(plan, Len(plan), ipv6)
<1>7. \A e \in kept : e \in stranded \union half \union left
  BY <1>4, CleanedUp
<1>8. Len(plan) \in Nat /\ DOMAIN plan = 1 .. Len(plan)
  BY <1>2 DEF Good
<1>9. ASSUME os' = kept \union all, half' = half, stranded' = (stranded \union left) \intersect os',
             wg'.asked = Range(plan), wg'.flags = Flags(all)
      PROVE  MachineInv'
  <2>1. ASSUME NEW e \in os' \ (stranded' \union half')
        PROVE  Flagged(wg'.flags, e)
    <3>1. e \in all
      BY <1>7, <1>9, <2>1
    <3>2. Orphan(plan, Len(plan)) = {}
      BY <1>8 DEF Orphan
    <3>3. Len(plan) \in 0 .. Len(plan)
      BY <1>8
    <3>. QED
      BY <1>2, <1>3, <1>9, <3>1, <3>2, <3>3, MadeIsFlagged
  <2>2. {e \in Range(plan) : e.kind # "ipv6"} \subseteq all
    BY <1>8 DEF Range, Made
  <2>. QED
    BY <1>6, <1>9, <2>1, <2>2 DEF MachineInv, NothingForgotten, UpIsProtected, Flagged, GroupOf, Effect
<1>10. ASSUME os' = kept, half' = half, stranded' = (stranded \union left) \intersect os', wg' = Down
       PROVE  MachineInv'
  <2>1. os' \subseteq stranded' \union half'
    BY <1>7, <1>10
  <2>. QED
    BY <1>6, <1>10, <2>1 DEF MachineInv, NothingForgotten, UpIsProtected, Down
<1>11. ASSUME NEW n \in 0 .. Len(plan), os' = Undone(kept, Made(plan, n, ipv6), {}), wg' = Down,
              stranded' = (stranded \union left) \intersect os',
              half' = (half \union Orphan(plan, n)) \intersect os'
       PROVE  MachineInv'
  <2>1. \A e \in Made(plan, n, ipv6) : e \in Orphan(plan, n) \/ Flagged(Flags(Made(plan, n, ipv6)), e)
    BY <1>2, <1>3, MadeIsFlagged
  <2>2. os' \subseteq stranded' \union half'
    BY <1>7, <1>11, <2>1 DEF Undone
  <2>. QED
    BY <1>6, <1>11, <2>2 DEF MachineInv, NothingForgotten, UpIsProtected, Down
<1>12. CASE os' = Brought(left, all) /\ half' = half /\ stranded' = (stranded \union left) \intersect os'
             /\ wg' = [up |-> tasks[c].place, via |-> tasks[c].via,
                       asked |-> Range(plan), flags |-> Flags(all)]
  <2>1. wg'.asked = Range(plan) /\ wg'.flags = Flags(all)
    BY <1>12
  <2>. QED
    BY <1>9, <1>12, <2>1 DEF Brought
<1>. QED
  BY <1>1, <1>10, <1>11, <1>12

LEMMA StepKeepsMachine ==
    ASSUME MachineInv, NEW c, ClientStep(c)
    PROVE  MachineInv'
<1>1. CASE Raise(c)
  BY <1>1, RaiseKeepsMachine
<1>2. CASE Lower(c)
  <2>1. PICK left \in Stuck(wg.flags) :
           /\ os' = Cleaned(wg.flags, left)
           /\ stranded' = (stranded \union left) \intersect os'
    BY <1>2 DEF Lower
  <2>2. wg' = Down /\ half' = half /\ relay' = relay /\ relays' = relays
    BY <1>2 DEF Lower, masking
  <2>3. os' \subseteq stranded' \union half'
    BY <2>1, <2>2, CleanedUp DEF MachineInv
  <2>. QED
    BY <2>2, <2>3 DEF MachineInv, NothingForgotten, UpIsProtected, Down
<1>3. CASE StartRelay(c)
  <2>1. UNCHANGED <<machine, wg>>
    BY <1>3 DEF StartRelay
  <2>2. relays' \subseteq {relay'}
    BY <1>3 DEF StartRelay, masking, MachineInv, NothingForgotten
  <2>. QED
    BY <2>1, <2>2
       DEF MachineInv, NothingForgotten, UpIsProtected, machine, Flagged, GroupOf, Effect
<1>4. CASE Abort(c)
  <2>1. UNCHANGED <<machine, wg>>
    BY <1>4 DEF Abort
  <2>2. relays' \subseteq {relay'}
    BY <1>4 DEF Abort, MachineInv, NothingForgotten
  <2>. QED
    BY <2>1, <2>2
       DEF MachineInv, NothingForgotten, UpIsProtected, machine, Flagged, GroupOf, Effect
<1>5. CASE Code(c) \/ Auth(c) \/ Welcome(c) \/ Call(c) \/ KeyPair(c) \/ SetOn(c)
           \/ SetOff(c) \/ Forget(c) \/ Show(c)
  BY <1>5, QuietMachine
     DEF Code, Auth, Welcome, Call, KeyPair, SetOn, SetOff, Forget, Show, Quietly
<1>. QED
  BY <1>1, <1>2, <1>3, <1>4, <1>5 DEF ClientStep

LEMMA NextKeepsMachine ==
    ASSUME MachineInv, [ClientNext]_clientVars
    PROVE  MachineInv'
<1>1. CASE UNCHANGED clientVars
  BY <1>1, QuietMachine DEF clientVars, machine, masking
<1>2. ASSUME NEW c, NEW op, NEW p, NEW at, Give(c, op, p, at)
      PROVE  MachineInv'
  BY <1>2, QuietMachine DEF Give
<1>3. ASSUME NEW kill, NEW mask, SetSettings(kill, mask)
      PROVE  MachineInv'
  BY <1>3, QuietMachine DEF SetSettings
<1>4. CASE Quit
  BY <1>4 DEF Quit, MachineInv, NothingForgotten, UpIsProtected, Down
<1>5. CASE RevokedElsewhere
  BY <1>5, QuietMachine DEF RevokedElsewhere
<1>. QED
  BY <1>1, <1>2, <1>3, <1>4, <1>5, StepKeepsMachine
     DEF ClientNext, EnrollCode, SignIn, Ask, Disconnect, Connect, TrayToggle

LEMMA MachineInvariant == ClientSpec => []MachineInv
<1>1. ClientInit => MachineInv
  BY DEF ClientInit, MachineInv, NothingForgotten, UpIsProtected, Down
<1>. QED
  BY <1>1, NextKeepsMachine, PTL DEF ClientSpec

\* Whatever fails in the middle and whichever commands mix, what the machine was
\* changed by is in a flag that will remove it, unless a deletion failed, the
\* process ended, or a group was cut short; and one relay runs at most.
THEOREM NothingForgottenHolds == ClientSpec => []NothingForgotten
BY MachineInvariant, PTL DEF MachineInv

\* A tunnel that is up has all the rules and routes it was brought up with.
THEOREM UpIsProtectedHolds == ClientSpec => []UpIsProtected
BY MachineInvariant, PTL DEF MachineInv

\* Together: what was changed on the machine will be undone, and stays while it is up.
THEOREM MachineKeptHolds == ClientSpec => []MachineKept
BY NothingForgottenHolds, UpIsProtectedHolds, PTL DEF MachineKept

-----------------------------------------------------------------------------
(* The parts agree. A command changes the tunnel, the status and what is      *)
(* shown in steps, so that each step has its own account of what agrees; and  *)
(* as long as nothing mixed, one command at most is in the middle of it.      *)

Phases == {"code", "auth", "welcome", "call", "keys", "relay", "raise", "on",
           "lower", "abort", "off", "forget", "show"}
\* Nothing of what is shown has changed yet.
Early == Phases \ {"on", "abort", "off", "forget", "show"}

Command == [op : ClientOps, at : Phases, place : Place \union {Nowhere}, dev : Nat \ {0}, pair : Nat,
            again : BOOLEAN, kill : BOOLEAN, via : Nat]

ClientTypes ==
    /\ key \in Nat \ {0} /\ token \in Nat /\ pairs \in [Place -> Nat]
    /\ enrolled \subseteq Nat \ {0} /\ session \in BOOLEAN
    /\ settings \in [kill : BOOLEAN, mask : BOOLEAN]
    /\ \A c \in DOMAIN tasks : tasks[c] \in Command

\* Which commands come to which step.
Knows(t) ==
    /\ t.at = "code" => t.op = "enroll"
    /\ t.at \in {"keys", "relay", "raise", "on"} => t.op \in {"connect", "toggle"}
    /\ t.at \in {"lower", "abort", "off", "show"} => t.op \in TunnelOps
    /\ t.at = "forget" => t.op = "sign_out"
    /\ t.op \in {"connect", "toggle"} /\ t.at \in {"auth", "call", "keys"} => t.place \in Place

Apart ==
    \A c, d \in DOMAIN tasks :
      c # d => /\ ~(tasks[c].op \in TunnelOps /\ tasks[d].op \in TunnelOps)
               /\ tasks[c].op # "sign_out" /\ tasks[d].op # "sign_out"

\* The command that made a new device key.
Renewed(t) == t.op = "sign_out" /\ t.at = "show"

OneKey ==
    /\ "linked" \notin events /\ token \in {0, key}
    /\ \A p \in Place : pairs[p] \in {0, key}
    /\ \A c \in DOMAIN tasks :
         ~Renewed(tasks[c]) => tasks[c].dev = key /\ tasks[c].pair \in {0, key}

StatusTrue ==
    /\ (\A c \in DOMAIN tasks : tasks[c].at \notin {"on", "abort", "off"}) /\ "lost" \notin events
         => status = wg.up
    /\ \A c \in DOMAIN tasks :
         /\ tasks[c].at = "on" => wg.up = tasks[c].place
         /\ tasks[c].at \in {"abort", "off", "forget"} => wg = Down
         /\ tasks[c].at = "forget" => status = Nowhere /\ tasks[c].place = Nowhere
         /\ tasks[c].at = "show" => status = tasks[c].place

Seen ==
    (\A c \in DOMAIN tasks : tasks[c].at \notin {"forget", "show"})
      => shown = [place |-> status, session |-> session]

SignedOut ==
    ~session => /\ status = Nowhere /\ wg = Down
                /\ \A c \in DOMAIN tasks : tasks[c].op \notin {"connect", "toggle"}

AllKnow == \A c \in DOMAIN tasks : Knows(tasks[c])
Unmixed == Apart /\ OneKey /\ StatusTrue /\ Seen /\ SignedOut
PartsInv == ClientTypes /\ AllKnow /\ ("mixed" \notin events => Unmixed)

\* A command that ends.
LEMMA OverIs ==
    ASSUME NEW c \in DOMAIN tasks
    PROVE  DOMAIN Over(c) = DOMAIN tasks \ {c} /\ \A d \in DOMAIN tasks \ {c} : Over(c)[d] = tasks[d]
BY DEF Over, Restrict

\* Requests, settings and preparations change nothing that is shown.
LEMMA EarlySteps ==
    ASSUME Unmixed, UNCHANGED <<view, wg, session>>, "lost" \in events' <=> "lost" \in events,
           DOMAIN tasks' \subseteq DOMAIN tasks,
           \A d \in DOMAIN tasks \ DOMAIN tasks' : tasks[d].at \in Early,
           \A d \in DOMAIN tasks' :
             /\ tasks'[d].op = tasks[d].op /\ tasks'[d].place = tasks[d].place
             /\ tasks'[d].at = tasks[d].at \/ {tasks[d].at, tasks'[d].at} \subseteq Early
    PROVE  Apart' /\ StatusTrue' /\ Seen' /\ SignedOut'
<1>1. Apart'
  BY DEF Unmixed, Apart, TunnelOps
<1>2. StatusTrue'
  <2>1. (\A c \in DOMAIN tasks' : tasks'[c].at \notin {"on", "abort", "off"})
           => \A c \in DOMAIN tasks : tasks[c].at \notin {"on", "abort", "off"}
    BY DEF Early
  <2>2. \A c \in DOMAIN tasks' : tasks'[c].at \in {"on", "abort", "off", "forget", "show"}
           => tasks[c].at = tasks'[c].at
    BY DEF Early
  <2>. QED
    BY <2>1, <2>2 DEF Unmixed, StatusTrue, view, Down
<1>3. Seen'
  <2>1. (\A c \in DOMAIN tasks' : tasks'[c].at \notin {"forget", "show"})
           => \A c \in DOMAIN tasks : tasks[c].at \notin {"forget", "show"}
    BY DEF Early
  <2>. QED
    BY <2>1 DEF Unmixed, Seen, view
<1>4. SignedOut'
  BY DEF Unmixed, SignedOut, view, Down
<1>. QED
  BY <1>1, <1>2, <1>3, <1>4

\* A new command.
LEMMA GiveAgrees ==
    ASSUME PartsInv, NEW c, NEW op, NEW p \in Place \union {Nowhere}, NEW at, Give(c, op, p, at),
           at \in {"code", "auth", "call", "keys", "lower"},
           at = "code" => op = "enroll", at = "lower" => op \in TunnelOps,
           at = "keys" => op \in {"connect", "toggle"},
           op \in {"connect", "toggle"} => session /\ (at # "lower" => p \in Place)
    PROVE  PartsInv'
<1>. DEFINE t == [New(op, p) EXCEPT !.at = at]
<1>0. op \in ClientOps
  BY VpnClientAssumption DEF Give
<1>1. /\ c \notin DOMAIN tasks /\ tasks' = Put(tasks, c, t)
      /\ events' = events \union (IF Mixes(op) THEN {"mixed"} ELSE {})
      /\ UNCHANGED <<settings, key, pairs, token, session, enrolled, status, shown, wg>>
  BY DEF Give, login, view
<1>2. DOMAIN tasks' = DOMAIN tasks \union {c} /\ tasks'[c] = t /\ \A d \in DOMAIN tasks : tasks'[d] = tasks[d]
  <2>. HIDE DEF t
  <2>. QED
    BY <1>1 DEF Put
<1>3. ClientTypes'
  <2>1. t \in Command
    BY <1>0 DEF PartsInv, ClientTypes, Command, Phases, New
  <2>. QED
    BY <1>1, <1>2, <2>1 DEF PartsInv, ClientTypes
<1>4. AllKnow'
  <2>1. Knows(t)
    BY DEF Knows, New
  <2>2. \A d \in DOMAIN tasks' : Knows(tasks'[d])
    BY <1>2, <2>1 DEF PartsInv, AllKnow
  <2>. QED
    BY <2>2 DEF AllKnow, Knows, TunnelOps
<1>5. ASSUME "mixed" \notin events'
      PROVE  Unmixed'
  <2>1. ~Mixes(op) /\ Unmixed /\ events' = events
    BY <1>1, <1>5 DEF PartsInv
  <2>a. /\ tasks'[c].at = at /\ tasks'[c].op = op /\ tasks'[c].dev = key /\ tasks'[c].pair = 0
        /\ UNCHANGED <<status, wg, shown, session, token, pairs, key>>
    BY <1>1, <1>2 DEF New
  <2>2. Apart'
    <3>1. \A d \in DOMAIN tasks : /\ ~(op \in TunnelOps /\ tasks[d].op \in TunnelOps)
                                  /\ op # "sign_out" /\ tasks[d].op # "sign_out"
      BY <2>1 DEF Mixes
    <3>. HIDE DEF t
    <3>. QED
      BY <1>2, <2>1, <2>a, <3>1 DEF Unmixed, Apart, TunnelOps
  <2>3. OneKey'
    BY <1>2, <2>1, <2>a DEF Unmixed, OneKey, Renewed
  <2>4. StatusTrue'
    BY <1>2, <2>1, <2>a DEF Unmixed, StatusTrue, Down
  <2>5. Seen'
    BY <1>2, <2>1, <2>a DEF Unmixed, Seen
  <2>6. SignedOut'
    BY <1>2, <2>1, <2>a DEF Unmixed, SignedOut, Down
  <2>. QED
    BY <2>2, <2>3, <2>4, <2>5, <2>6 DEF Unmixed
<1>. QED
  BY <1>3, <1>4, <1>5 DEF PartsInv

\* The record of command c after a step, the others being as they were.
Moved(c, t) ==
    /\ DOMAIN tasks' = DOMAIN tasks /\ tasks'[c] = t
    /\ \A d \in DOMAIN tasks \ {c} : tasks'[d] = tasks[d]
Leaves(c) ==
    /\ DOMAIN tasks' = DOMAIN tasks \ {c}
    /\ \A d \in DOMAIN tasks \ {c} : tasks'[d] = tasks[d]

LEMMA TypesKept ==
    ASSUME ClientTypes, AllKnow, NEW c \in DOMAIN tasks, NEW t,
           Leaves(c) \/ (Moved(c, t) /\ t \in Command /\ Knows(t)),
           key' \in Nat \ {0}, token' \in Nat, pairs' \in [Place -> Nat],
           enrolled' \subseteq Nat \ {0}, session' \in BOOLEAN, settings' = settings
    PROVE  ClientTypes' /\ AllKnow'
<1>1. \A d \in DOMAIN tasks' : tasks'[d] \in Command /\ Knows(tasks'[d])
  BY DEF ClientTypes, AllKnow, Moved, Leaves
<1>2. ClientTypes'
  BY <1>1 DEF ClientTypes
<1>3. AllKnow'
  BY <1>1 DEF AllKnow, Knows, TunnelOps
<1>. QED
  BY <1>2, <1>3

LEMMA ApartKept ==
    ASSUME Apart, NEW c \in DOMAIN tasks, NEW t, Leaves(c) \/ (Moved(c, t) /\ t.op = tasks[c].op)
    PROVE  Apart'
<1>1. \A d \in DOMAIN tasks' : d \in DOMAIN tasks /\ tasks'[d].op = tasks[d].op
  BY DEF Moved, Leaves
<1>. QED
  BY <1>1 DEF Apart, TunnelOps

LEMMA OneKeyKept ==
    ASSUME OneKey, NEW c \in DOMAIN tasks, NEW t,
           Leaves(c) \/ (Moved(c, t) /\ t.dev = key /\ t.pair \in {0, key}),
           key' = key, "linked" \notin events', token' \in {0, key}, \A p \in Place : pairs'[p] \in {0, key}
    PROVE  OneKey'
BY DEF OneKey, Moved, Leaves, Renewed

\* A step before anything is shown.
LEMMA EarlyStep ==
    ASSUME PartsInv, NEW c \in DOMAIN tasks, NEW t, tasks[c].at \in Early,
           UNCHANGED <<view, wg, session, key, settings>>,
           events' \ {"linked"} = events \ {"linked"},
           Leaves(c) \/ (Moved(c, t) /\ t \in Command /\ Knows(t) /\ t.at \in Early
                        /\ t.op = tasks[c].op /\ t.place = tasks[c].place),
           token' \in Nat, pairs' \in [Place -> Nat], enrolled' \subseteq Nat \ {0},
           Unmixed => /\ "linked" \notin events' /\ token' \in {0, key}
                      /\ \A p \in Place : pairs'[p] \in {0, key}
                      /\ Moved(c, t) => t.dev = key /\ t.pair \in {0, key}
    PROVE  PartsInv'
<1>1. ClientTypes /\ AllKnow
  BY DEF PartsInv
<1>2. key' \in Nat \ {0} /\ session' \in BOOLEAN
  BY <1>1 DEF ClientTypes
<1>3. ClientTypes' /\ AllKnow'
  BY <1>1, <1>2, TypesKept
<1>4. ASSUME "mixed" \notin events'
      PROVE  Unmixed'
  <2>1. Unmixed
    BY <1>4 DEF PartsInv
  <2>2. OneKey'
    <3>1. OneKey
      BY <2>1 DEF Unmixed
    <3>. QED
      BY <2>1, <3>1, OneKeyKept
  <2>3. DOMAIN tasks' \subseteq DOMAIN tasks
    BY DEF Moved, Leaves
  <2>4. \A d \in DOMAIN tasks \ DOMAIN tasks' : tasks[d].at \in Early
    BY DEF Moved, Leaves
  <2>5. \A d \in DOMAIN tasks' :
             /\ tasks'[d].op = tasks[d].op /\ tasks'[d].place = tasks[d].place
             /\ tasks'[d].at = tasks[d].at \/ {tasks[d].at, tasks'[d].at} \subseteq Early
    BY DEF Moved, Leaves
  <2>6. "lost" \in events' <=> "lost" \in events
    OBVIOUS
  <2>7. Apart' /\ StatusTrue' /\ Seen' /\ SignedOut'
    BY <2>1, <2>3, <2>4, <2>5, <2>6, EarlySteps
  <2>. QED
    BY <2>2, <2>7 DEF Unmixed
<1>. QED
  BY <1>3, <1>4 DEF PartsInv

\* What a command that is not yet shown has for its key.
LEMMA EarlyKey ==
    ASSUME Unmixed, NEW c \in DOMAIN tasks, tasks[c].at # "show"
    PROVE  /\ tasks[c].dev = key /\ tasks[c].pair \in {0, key}
           /\ token \in {0, key} /\ "linked" \notin events /\ \A p \in Place : pairs[p] \in {0, key}
BY DEF Unmixed, OneKey, Renewed

LEMMA Goes ==
    ASSUME NEW c \in DOMAIN tasks, tasks[c] \in Command, NEW at \in Phases
    PROVE  LET t == [tasks[c] EXCEPT !.at = at] IN
           /\ t \in Command /\ t.at = at /\ t.op = tasks[c].op /\ t.place = tasks[c].place
           /\ t.dev = tasks[c].dev /\ t.pair = tasks[c].pair
           /\ DOMAIN Go(c, at) = DOMAIN tasks /\ Go(c, at)[c] = t
           /\ \A d \in DOMAIN tasks \ {c} : Go(c, at)[d] = tasks[d]
BY DEF Go, Command

\* A command that ends, or goes on to another early step.
EarlyMove(c) ==
    \/ Leaves(c)
    \/ \E t \in Command :
         /\ Moved(c, t) /\ Knows(t) /\ t.at \in Early
         /\ t.op = tasks[c].op /\ t.place = tasks[c].place
         /\ t.dev = tasks[c].dev /\ t.pair = tasks[c].pair

LEMMA RequestAgrees ==
    ASSUME PartsInv, NEW c \in DOMAIN tasks, tasks[c].at \in {"code", "auth", "call"}, EarlyMove(c),
           UNCHANGED <<view, wg, session, key, settings, pairs>>,
           events' \ {"linked"} = events \ {"linked"}, Unmixed => "linked" \notin events',
           token' \in {token, tasks[c].dev}, enrolled' \subseteq enrolled \union {tasks[c].dev}
    PROVE  PartsInv'
<1>1. ClientTypes /\ tasks[c] \in Command
  BY DEF PartsInv, ClientTypes
<1>2. /\ tasks[c].at \in Early /\ token' \in Nat /\ pairs' \in [Place -> Nat]
      /\ enrolled' \subseteq Nat \ {0}
  BY <1>1 DEF ClientTypes, Command, Early, Phases
<1>3. Unmixed => /\ "linked" \notin events' /\ token' \in {0, key}
                 /\ \A p \in Place : pairs'[p] \in {0, key}
                 /\ tasks[c].dev = key /\ tasks[c].pair \in {0, key}
  BY EarlyKey
<1>4. CASE Leaves(c)
  BY <1>2, <1>3, <1>4, EarlyStep DEF Leaves, Moved
<1>5. ASSUME NEW t \in Command, Moved(c, t), Knows(t), t.at \in Early, t.op = tasks[c].op,
             t.place = tasks[c].place, t.dev = tasks[c].dev, t.pair = tasks[c].pair
      PROVE  PartsInv'
  BY <1>2, <1>3, <1>5, EarlyStep
<1>. QED
  BY <1>4, <1>5 DEF EarlyMove

\* The way a request fails.
LEMMA FailedIs ==
    ASSUME ClientTypes, AllKnow, NEW c \in DOMAIN tasks, tasks[c].at \in {"code", "auth", "call"},
           tasks' = Failed(c)
    PROVE  EarlyMove(c)
<1>1. tasks[c] \in Command
  BY DEF ClientTypes
<1>2. CASE tasks[c].op = "sign_out"
  <2>1. PICK t : t = [tasks[c] EXCEPT !.at = "lower"]
    OBVIOUS
  <2>2. "lower" \in Phases
    BY DEF Phases
  <2>3. /\ t \in Command /\ t.at = "lower" /\ t.op = tasks[c].op /\ t.place = tasks[c].place
        /\ t.dev = tasks[c].dev /\ t.pair = tasks[c].pair /\ Moved(c, t)
    BY <1>1, <1>2, <2>1, <2>2, Goes DEF Moved, Failed
  <2>4. Knows(t) /\ t.at \in Early
    BY <1>2, <2>3 DEF Knows, TunnelOps, Early, Phases
  <2>. QED
    BY <2>3, <2>4 DEF EarlyMove
<1>3. CASE tasks[c].op # "sign_out"
  BY <1>3, OverIs DEF Failed, Leaves, EarlyMove
<1>. QED
  BY <1>2, <1>3

\* The way a signature succeeds.
LEMMA SignedInIs ==
    ASSUME ClientTypes, AllKnow, NEW c \in DOMAIN tasks, tasks[c].at \in {"code", "auth"},
           tasks' = SignedIn(c)
    PROVE  EarlyMove(c)
<1>1. tasks[c] \in Command /\ Knows(tasks[c])
  BY DEF ClientTypes, AllKnow
<1>2. PICK at : at = IF tasks[c].op \in {"enroll", "sign_in"} THEN "welcome" ELSE "call"
  OBVIOUS
<1>3. PICK t : t = [tasks[c] EXCEPT !.at = at]
  OBVIOUS
<1>4. at \in Phases /\ tasks' = Go(c, at)
  BY <1>2 DEF Phases, SignedIn
<1>5. /\ t \in Command /\ t.at = at /\ t.op = tasks[c].op /\ t.place = tasks[c].place
      /\ t.dev = tasks[c].dev /\ t.pair = tasks[c].pair /\ Moved(c, t)
  BY <1>1, <1>3, <1>4, Goes DEF Moved
<1>6. Knows(t) /\ t.at \in Early
  BY <1>1, <1>2, <1>5 DEF Knows, Early, Phases
<1>. QED
  BY <1>5, <1>6 DEF EarlyMove

LEMMA CodeAgrees ==
    ASSUME PartsInv, NEW c \in DOMAIN tasks, Code(c)
    PROVE  PartsInv'
<1>1. ClientTypes /\ AllKnow /\ tasks[c].at = "code"
  BY DEF PartsInv, Code
<1>2. /\ UNCHANGED <<view, wg, session, key, settings, pairs, events>>
      /\ token' \in {token, tasks[c].dev} /\ enrolled' \subseteq enrolled \union {tasks[c].dev}
      /\ tasks' \in {SignedIn(c), Failed(c)}
  BY DEF Code, Quietly
<1>3. EarlyMove(c)
  BY <1>1, <1>2, FailedIs, SignedInIs
<1>4. Unmixed => "linked" \notin events'
  BY <1>2 DEF Unmixed, OneKey
<1>. QED
  BY <1>1, <1>2, <1>3, <1>4, RequestAgrees

LEMMA AuthAgrees ==
    ASSUME PartsInv, NEW c \in DOMAIN tasks, Auth(c)
    PROVE  PartsInv'
<1>1. ClientTypes /\ AllKnow /\ tasks[c].at = "auth"
  BY DEF PartsInv, Auth
<1>2. /\ UNCHANGED <<view, wg, session, key, settings, pairs, events, enrolled>>
      /\ token' \in {token, tasks[c].dev}
      /\ tasks' \in {SignedIn(c), Failed(c)}
  BY DEF Auth, Quietly
<1>3. EarlyMove(c)
  BY <1>1, <1>2, FailedIs, SignedInIs
<1>4. Unmixed => "linked" \notin events'
  BY <1>2 DEF Unmixed, OneKey
<1>. QED
  BY <1>1, <1>2, <1>3, <1>4, RequestAgrees

\* The way the answer to a request is taken.
LEMMA AnsweredIs ==
    ASSUME ClientTypes, AllKnow, NEW c \in DOMAIN tasks, tasks[c].at = "call", Answered(c)
    PROVE  EarlyMove(c)
<1>1. tasks[c] \in Command /\ Knows(tasks[c])
  BY DEF ClientTypes, AllKnow
<1>2. CASE tasks[c].op = "sign_out"
  <2>1. tasks' = Failed(c)
    BY <1>2 DEF Answered, Failed
  <2>. QED
    BY <2>1, FailedIs
<1>3. CASE tasks[c].op \in {"connect", "toggle"}
  <2>1. PICK at : at = IF tasks[c].pair = 0 THEN "keys" ELSE "relay"
    OBVIOUS
  <2>2. PICK t : t = [tasks[c] EXCEPT !.at = at, !.again = FALSE]
    OBVIOUS
  <2>3. tasks' = [Go(c, at) EXCEPT ![c].again = FALSE]
    BY <1>3, <2>1 DEF Answered
  <2>4. at \in Phases
    BY <2>1 DEF Phases
  <2>5. /\ t \in Command /\ t.at = at /\ t.op = tasks[c].op /\ t.place = tasks[c].place
        /\ t.dev = tasks[c].dev /\ t.pair = tasks[c].pair
    BY <1>1, <2>2, <2>4 DEF Command
  <2>6. Moved(c, t)
    BY <1>1, <2>2, <2>3 DEF Moved, Go, Command
  <2>7. Knows(t) /\ t.at \in Early
    BY <1>1, <1>3, <2>1, <2>5 DEF Knows, Early, Phases
  <2>. QED
    BY <2>5, <2>6, <2>7 DEF EarlyMove
<1>4. CASE tasks[c].op \notin {"sign_out", "connect", "toggle"}
  BY <1>4, OverIs DEF Answered, Leaves, EarlyMove
<1>. QED
  BY <1>2, <1>3, <1>4

LEMMA CallAgrees ==
    ASSUME PartsInv, NEW c \in DOMAIN tasks, Call(c)
    PROVE  PartsInv'
<1>1. ClientTypes /\ AllKnow /\ tasks[c].at = "call"
  BY DEF PartsInv, Call
<1>2. /\ UNCHANGED <<view, wg, session, key, settings, pairs, token>>
      /\ enrolled' \subseteq enrolled
      /\ events' \subseteq events \union {"linked"} /\ events \subseteq events'
      /\ "linked" \in events' => \/ "linked" \in events
                                 \/ token \in enrolled /\ tasks[c].pair \notin {0, token}
  BY DEF Call, Served
<1>3. EarlyMove(c)
  <2>1. CASE Answered(c)
    BY <1>1, <2>1, AnsweredIs
  <2>2. CASE tasks' = Failed(c)
    BY <1>1, <2>2, FailedIs
  <2>3. CASE tasks' = [Go(c, "auth") EXCEPT ![c].again = TRUE]
    <3>1. tasks[c] \in Command /\ Knows(tasks[c])
      BY <1>1 DEF ClientTypes, AllKnow
    <3>2. PICK t : t = [tasks[c] EXCEPT !.at = "auth", !.again = TRUE]
      OBVIOUS
    <3>3. /\ t \in Command /\ t.at = "auth" /\ t.op = tasks[c].op /\ t.place = tasks[c].place
          /\ t.dev = tasks[c].dev /\ t.pair = tasks[c].pair
      BY <3>1, <3>2 DEF Command, Phases
    <3>4. Moved(c, t)
      BY <2>3, <3>1, <3>2 DEF Moved, Go, Command
    <3>5. Knows(t) /\ t.at \in Early
      BY <1>1, <3>1, <3>3 DEF Knows, Early, Phases
    <3>. QED
      BY <3>3, <3>4, <3>5 DEF EarlyMove
  <2>. QED
    BY <2>1, <2>2, <2>3 DEF Call
<1>4. ASSUME Unmixed
      PROVE  "linked" \notin events'
  <2>1. token \in {0, key} /\ tasks[c].pair \in {0, key} /\ "linked" \notin events
    BY <1>1, <1>4, EarlyKey
  <2>2. token \in enrolled => token # 0
    BY <1>1 DEF ClientTypes
  <2>. QED
    BY <1>2, <2>1, <2>2
<1>5. /\ events' \ {"linked"} = events \ {"linked"} /\ token' \in {token, tasks[c].dev}
      /\ enrolled' \subseteq enrolled \union {tasks[c].dev}
  BY <1>2
<1>. QED
  BY <1>1, <1>2, <1>3, <1>4, <1>5, RequestAgrees

LEMMA KeyPairAgrees ==
    ASSUME PartsInv, NEW c \in DOMAIN tasks, KeyPair(c)
    PROVE  PartsInv'
<1>1. ClientTypes /\ AllKnow /\ tasks[c].at = "keys"
  BY DEF PartsInv, KeyPair
<1>2. tasks[c] \in Command /\ Knows(tasks[c])
  BY <1>1 DEF ClientTypes, AllKnow
<1>3. PICK p : p = tasks[c].place
  OBVIOUS
<1>4. p \in Place
  BY <1>1, <1>2, <1>3 DEF Knows
<1>5. PICK n : n = IF pairs[p] = 0 THEN key ELSE pairs[p]
  OBVIOUS
<1>6. PICK at : at = Request
  OBVIOUS
<1>7. pairs' = [pairs EXCEPT ![p] = n] /\ pairs'[p] = n
  BY <1>1, <1>3, <1>4, <1>5 DEF KeyPair, ClientTypes
<1>8. /\ tasks' = [Go(c, at) EXCEPT ![c].pair = n, ![c].dev = key]
      /\ UNCHANGED <<settings, key, token, session, enrolled, view, wg, events>>
  BY <1>3, <1>6, <1>7 DEF KeyPair
<1>9. PICK t : t = [tasks[c] EXCEPT !.at = at, !.pair = n, !.dev = key]
  OBVIOUS
<1>10. at \in {"auth", "call"} /\ n \in Nat /\ key \in Nat \ {0}
  BY <1>1, <1>4, <1>5, <1>6 DEF Request, ClientTypes
<1>11. /\ t \in Command /\ t.at = at /\ t.op = tasks[c].op /\ t.place = tasks[c].place
       /\ t.dev = key /\ t.pair = n
  BY <1>2, <1>9, <1>10 DEF Command, Phases
<1>12. Moved(c, t)
  BY <1>2, <1>8, <1>9 DEF Moved, Go, Command
<1>13. Knows(t) /\ t.at \in Early /\ tasks[c].at \in Early
  BY <1>1, <1>2, <1>10, <1>11 DEF Knows, Early, Phases
<1>14. token' \in Nat /\ pairs' \in [Place -> Nat] /\ enrolled' \subseteq Nat \ {0}
  BY <1>1, <1>7, <1>8, <1>10 DEF ClientTypes
<1>15. ASSUME Unmixed
       PROVE  /\ "linked" \notin events' /\ token' \in {0, key} /\ n \in {0, key}
              /\ \A q \in Place : pairs'[q] \in {0, key}
  <2>1. token \in {0, key} /\ "linked" \notin events /\ \A q \in Place : pairs[q] \in {0, key}
    BY <1>1, <1>15, EarlyKey
  <2>. QED
    BY <1>1, <1>4, <1>5, <1>7, <1>8, <2>1 DEF ClientTypes
<1>16. events' \ {"linked"} = events \ {"linked"}
  BY <1>8
<1>17. UNCHANGED <<view, wg, session, key, settings>>
  BY <1>8
<1>. QED
  BY <1>11, <1>12, <1>13, <1>14, <1>15, <1>16, <1>17, EarlyStep

LEMMA StartRelayAgrees ==
    ASSUME PartsInv, NEW c \in DOMAIN tasks, StartRelay(c)
    PROVE  PartsInv'
<1>1. ClientTypes /\ AllKnow /\ tasks[c].at = "relay"
  BY DEF PartsInv, StartRelay
<1>2. tasks[c] \in Command /\ Knows(tasks[c])
  BY <1>1 DEF ClientTypes, AllKnow
<1>3. /\ UNCHANGED <<settings, key, pairs, token, session, enrolled, view, wg, events>>
      /\ \/ tasks' = [Go(c, "raise") EXCEPT ![c].kill = settings.kill]
         \/ \E r \in 1 .. MaxRelays : tasks' = [Go(c, "raise") EXCEPT ![c].kill = settings.kill, ![c].via = r]
  BY DEF StartRelay, login
<1>4. settings.kill \in BOOLEAN
  BY <1>1 DEF ClientTypes
<1>5. ASSUME NEW r \in Nat,
             \/ tasks' = [Go(c, "raise") EXCEPT ![c].kill = settings.kill] /\ r = tasks[c].via
             \/ tasks' = [Go(c, "raise") EXCEPT ![c].kill = settings.kill, ![c].via = r]
      PROVE  PartsInv'
  <2>1. PICK t : t = [tasks[c] EXCEPT !.at = "raise", !.kill = settings.kill, !.via = r]
    OBVIOUS
  <2>2. /\ t \in Command /\ t.at = "raise" /\ t.op = tasks[c].op /\ t.place = tasks[c].place
        /\ t.dev = tasks[c].dev /\ t.pair = tasks[c].pair
    BY <1>2, <1>4, <2>1 DEF Command, Phases
  <2>3. Moved(c, t)
    <3>1. CASE tasks' = [Go(c, "raise") EXCEPT ![c].kill = settings.kill] /\ r = tasks[c].via
      <4>1. [tasks[c] EXCEPT !.at = "raise", !.kill = settings.kill, !.via = tasks[c].via]
              = [tasks[c] EXCEPT !.at = "raise", !.kill = settings.kill]
        BY <1>2 DEF Command
      <4>. QED
        BY <1>2, <2>1, <3>1, <4>1 DEF Moved, Go, Command
    <3>2. CASE tasks' = [Go(c, "raise") EXCEPT ![c].kill = settings.kill, ![c].via = r]
      BY <1>2, <2>1, <3>2 DEF Moved, Go, Command
    <3>. QED
      BY <1>5, <3>1, <3>2
  <2>4. Knows(t) /\ t.at \in Early /\ tasks[c].at \in Early
    BY <1>1, <1>2, <2>2 DEF Knows, Early, Phases
  <2>5. token' \in Nat /\ pairs' \in [Place -> Nat] /\ enrolled' \subseteq Nat \ {0}
    BY <1>1, <1>3 DEF ClientTypes
  <2>6. Unmixed => /\ "linked" \notin events' /\ token' \in {0, key}
                   /\ \A q \in Place : pairs'[q] \in {0, key}
                   /\ tasks[c].dev = key /\ tasks[c].pair \in {0, key}
    BY <1>1, <1>3, EarlyKey
  <2>7. events' \ {"linked"} = events \ {"linked"}
    BY <1>3
  <2>8. UNCHANGED <<view, wg, session, key, settings>>
    BY <1>3
  <2>. QED
    BY <2>2, <2>3, <2>4, <2>5, <2>6, <2>7, <2>8, EarlyStep
<1>6. tasks[c].via \in Nat /\ 1 .. MaxRelays \subseteq Nat
  BY <1>2, VpnClientAssumption DEF Command
<1>. QED
  BY <1>3, <1>5, <1>6

\* While one command changes the tunnel, no other is anywhere near it.
LEMMA OthersWait ==
    ASSUME Unmixed, AllKnow, NEW c \in DOMAIN tasks, tasks[c].op \in TunnelOps,
           NEW d \in DOMAIN tasks \ {c}
    PROVE  /\ tasks[d].op \notin TunnelOps
           /\ tasks[d].at \notin {"on", "abort", "off", "forget", "show"}
<1>1. tasks[d].op \notin TunnelOps
  BY DEF Unmixed, Apart
<1>2. Knows(tasks[d])
  BY DEF AllKnow
<1>. QED
  BY <1>1, <1>2 DEF Knows, TunnelOps

\* A step of a command that changes the tunnel or what is shown of it.
LEMMA LateStep ==
    ASSUME PartsInv, NEW c \in DOMAIN tasks, NEW t, tasks[c].op \in TunnelOps,
           \/ Leaves(c)
           \/ /\ tasks[c].at # "show" /\ Moved(c, t) /\ t \in Command /\ Knows(t)
              /\ t.op = tasks[c].op /\ t.dev = tasks[c].dev /\ t.pair = tasks[c].pair,
           UNCHANGED <<key, pairs, token, enrolled, session, settings>>,
           events' \ {"lost"} = events \ {"lost"},
           Unmixed =>
             /\ (Moved(c, t) => t.at \notin {"on", "abort", "off"}) /\ "lost" \notin events' => status' = wg'.up
             /\ Moved(c, t) => /\ t.at = "on" => wg'.up = t.place
                               /\ t.at \in {"abort", "off", "forget"} => wg' = Down
                               /\ t.at = "forget" => status' = Nowhere /\ t.place = Nowhere
                               /\ t.at = "show" => status' = t.place
             /\ (Moved(c, t) => t.at \notin {"forget", "show"}) => shown' = [place |-> status', session |-> session']
             /\ ~session => status' = Nowhere /\ wg' = Down
    PROVE  PartsInv'
<1>1. ClientTypes /\ AllKnow
  BY DEF PartsInv
<1>2. /\ key' \in Nat \ {0} /\ session' \in BOOLEAN /\ token' \in Nat /\ pairs' \in [Place -> Nat]
      /\ enrolled' \subseteq Nat \ {0}
  BY <1>1 DEF ClientTypes
<1>3. ClientTypes' /\ AllKnow'
  BY <1>1, <1>2, TypesKept
<1>4. ASSUME "mixed" \notin events'
      PROVE  Unmixed'
  <2>1. Unmixed
    BY <1>4 DEF PartsInv
  <2>2. Apart'
    BY <2>1, ApartKept DEF Unmixed
  <2>3. OneKey'
    <3>1. OneKey /\ token \in {0, key} /\ "linked" \notin events' /\ \A p \in Place : pairs'[p] \in {0, key}
      BY <2>1 DEF Unmixed, OneKey
    <3>2. tasks[c].at # "show" => tasks[c].dev = key /\ tasks[c].pair \in {0, key}
      BY <2>1, EarlyKey
    <3>. QED
      BY <3>1, <3>2, OneKeyKept
  <2>4. \A d \in DOMAIN tasks \ {c} : /\ tasks[d].op \notin TunnelOps
                                      /\ tasks[d].at \notin {"on", "abort", "off", "forget", "show"}
    BY <1>1, <2>1, OthersWait
  <2>5. \A d \in DOMAIN tasks' : d # c => d \in DOMAIN tasks \ {c} /\ tasks'[d] = tasks[d]
    BY DEF Moved, Leaves
  <2>6. c \in DOMAIN tasks' => Moved(c, t) /\ tasks'[c] = t /\ t.op = tasks[c].op
    BY DEF Moved, Leaves
  <2>7. Moved(c, t) => c \in DOMAIN tasks'
    BY DEF Moved
  <2>8. StatusTrue'
    <3>1. ASSUME \A d \in DOMAIN tasks' : tasks'[d].at \notin {"on", "abort", "off"}, "lost" \notin events'
          PROVE  status' = wg'.up
      BY <2>1, <2>6, <2>7, <3>1
    <3>2. ASSUME NEW d \in DOMAIN tasks'
          PROVE  /\ tasks'[d].at = "on" => wg'.up = tasks'[d].place
                 /\ tasks'[d].at \in {"abort", "off", "forget"} => wg' = Down
                 /\ tasks'[d].at = "forget" => status' = Nowhere /\ tasks'[d].place = Nowhere
                 /\ tasks'[d].at = "show" => status' = tasks'[d].place
      BY <2>1, <2>4, <2>5, <2>6, <3>2
    <3>. QED
      BY <3>1, <3>2 DEF StatusTrue, Down
  <2>9. Seen'
    BY <2>1, <2>6, <2>7 DEF Seen
  <2>10. SignedOut'
    <3>1. ASSUME ~session
          PROVE  status' = Nowhere /\ wg' = Down /\ \A d \in DOMAIN tasks' : tasks'[d].op \notin {"connect", "toggle"}
      BY <2>1, <2>4, <2>5, <2>6, <3>1 DEF Unmixed, SignedOut
    <3>. QED
      BY <3>1 DEF SignedOut, Down
  <2>. QED
    BY <2>2, <2>3, <2>8, <2>9, <2>10 DEF Unmixed
<1>. QED
  BY <1>3, <1>4 DEF PartsInv

LEMMA RaiseAgrees ==
    ASSUME PartsInv, NEW c \in DOMAIN tasks, Raise(c)
    PROVE  PartsInv'
<1>1. ClientTypes /\ AllKnow /\ tasks[c].at = "raise" /\ tasks[c] \in Command
  BY DEF PartsInv, ClientTypes, Raise
<1>2. tasks[c].op \in {"connect", "toggle"}
  BY <1>1 DEF AllKnow, Knows
<1>3. UNCHANGED <<key, pairs, token, enrolled, session, settings, status, shown>>
  BY DEF Raise, login, view
<1>4. \/ wg'.up = tasks[c].place /\ tasks' = Go(c, "on") /\ events' = events
      \/ wg' = Down /\ tasks' = Over(c) /\ events' = Lost
  BY DEF Raise
<1>5. PICK t : t = [tasks[c] EXCEPT !.at = "on"]
  OBVIOUS
<1>6. "on" \in Phases
  BY DEF Phases
<1>7. /\ t \in Command /\ t.at = "on" /\ t.op = tasks[c].op /\ t.place = tasks[c].place
      /\ t.dev = tasks[c].dev /\ t.pair = tasks[c].pair
      /\ tasks' = Go(c, "on") => Moved(c, t)
  BY <1>1, <1>5, <1>6, Goes DEF Moved
<1>8. Knows(t)
  BY <1>2, <1>7 DEF Knows
<1>9. Unmixed => session
  BY <1>2 DEF Unmixed, SignedOut
<1>10. Unmixed => shown' = [place |-> status', session |-> session']
  <2>. SUFFICES ASSUME Unmixed
                PROVE  shown = [place |-> status, session |-> session]
    BY <1>3
  <2>1. \A d \in DOMAIN tasks : tasks[d].at \notin {"forget", "show"}
    BY <1>1, <1>2, OthersWait DEF TunnelOps
  <2>. QED
    BY <2>1 DEF Unmixed, Seen
<1>11. CASE wg'.up = tasks[c].place /\ tasks' = Go(c, "on") /\ events' = events
  <2>1. Moved(c, t)
    BY <1>7, <1>11
  <2>2. events' \ {"lost"} = events \ {"lost"}
    BY <1>11
  <2>. QED
    BY <1>1, <1>2, <1>3, <1>7, <1>8, <1>9, <1>10, <1>11, <2>1, <2>2, LateStep DEF TunnelOps
<1>12. CASE wg' = Down /\ tasks' = Over(c) /\ events' = Lost
  <2>1. Leaves(c) /\ ~Moved(c, t)
    BY <1>12, OverIs DEF Leaves, Moved
  <2>2. events' \ {"lost"} = events \ {"lost"} /\ ("lost" \notin events' => status = Nowhere)
    BY <1>12 DEF Lost
  <2>3. "lost" \notin events' => status' = wg'.up
    BY <1>3, <1>12, <2>2 DEF Down
  <2>. QED
    BY <1>1, <1>2, <1>3, <1>9, <1>10, <1>12, <2>1, <2>2, <2>3, LateStep DEF TunnelOps
<1>. QED
  BY <1>4, <1>11, <1>12

LEMMA SetOnAgrees ==
    ASSUME PartsInv, NEW c \in DOMAIN tasks, SetOn(c)
    PROVE  PartsInv'
<1>1. ClientTypes /\ AllKnow /\ tasks[c].at = "on" /\ tasks[c] \in Command
  BY DEF PartsInv, ClientTypes, SetOn
<1>2. tasks[c].op \in {"connect", "toggle"}
  BY <1>1 DEF AllKnow, Knows
<1>3. /\ UNCHANGED <<key, pairs, token, enrolled, session, settings, wg>>
      /\ status' = tasks[c].place /\ events' = events \ {"lost"} /\ tasks' = Go(c, "show")
  BY DEF SetOn, login
<1>4. PICK t : t = [tasks[c] EXCEPT !.at = "show"]
  OBVIOUS
<1>5. "show" \in Phases
  BY DEF Phases
<1>6. /\ t \in Command /\ t.at = "show" /\ t.op = tasks[c].op /\ t.place = tasks[c].place
      /\ t.dev = tasks[c].dev /\ t.pair = tasks[c].pair /\ Moved(c, t)
  BY <1>1, <1>3, <1>4, <1>5, Goes DEF Moved
<1>7. Knows(t)
  BY <1>2, <1>6 DEF Knows, TunnelOps
<1>8. Unmixed => session /\ wg.up = tasks[c].place
  BY <1>1, <1>2 DEF Unmixed, SignedOut, StatusTrue
<1>9. events' \ {"lost"} = events \ {"lost"} /\ tasks[c].op \in TunnelOps
  BY <1>2, <1>3 DEF TunnelOps
<1>. QED
  BY <1>1, <1>3, <1>6, <1>7, <1>8, <1>9, LateStep

LEMMA LowerAgrees ==
    ASSUME PartsInv, NEW c \in DOMAIN tasks, Lower(c)
    PROVE  PartsInv'
<1>1. ClientTypes /\ AllKnow /\ tasks[c].at = "lower" /\ tasks[c] \in Command
  BY DEF PartsInv, ClientTypes, Lower
<1>2. tasks[c].op \in TunnelOps
  BY <1>1 DEF AllKnow, Knows
<1>3. /\ UNCHANGED <<key, pairs, token, enrolled, session, settings, status, shown, events>>
      /\ wg' = Down /\ tasks' = Go(c, "abort")
  BY DEF Lower, login, view
<1>4. PICK t : t = [tasks[c] EXCEPT !.at = "abort"]
  OBVIOUS
<1>5. "abort" \in Phases
  BY DEF Phases
<1>6. /\ t \in Command /\ t.at = "abort" /\ t.op = tasks[c].op /\ t.place = tasks[c].place
      /\ t.dev = tasks[c].dev /\ t.pair = tasks[c].pair /\ Moved(c, t)
  BY <1>1, <1>3, <1>4, <1>5, Goes DEF Moved
<1>7. Knows(t)
  BY <1>2, <1>6 DEF Knows
<1>8. ASSUME Unmixed
      PROVE  /\ shown' = [place |-> status', session |-> session']
             /\ ~session => status' = Nowhere
  <2>1. \A d \in DOMAIN tasks : tasks[d].at \notin {"forget", "show"}
    BY <1>1, <1>2, <1>8, OthersWait
  <2>. QED
    BY <1>3, <1>8, <2>1 DEF Unmixed, Seen, SignedOut
<1>9. events' \ {"lost"} = events \ {"lost"}
  BY <1>3
<1>. QED
  BY <1>1, <1>2, <1>3, <1>6, <1>7, <1>8, <1>9, LateStep

LEMMA AbortAgrees ==
    ASSUME PartsInv, NEW c \in DOMAIN tasks, Abort(c)
    PROVE  PartsInv'
<1>1. ClientTypes /\ AllKnow /\ tasks[c].at = "abort" /\ tasks[c] \in Command
  BY DEF PartsInv, ClientTypes, Abort
<1>2. tasks[c].op \in TunnelOps
  BY <1>1 DEF AllKnow, Knows
<1>3. /\ UNCHANGED <<key, pairs, token, enrolled, session, settings, status, shown, wg, events>>
      /\ tasks' = Go(c, "off")
  BY DEF Abort, login, view
<1>4. PICK t : t = [tasks[c] EXCEPT !.at = "off"]
  OBVIOUS
<1>5. "off" \in Phases
  BY DEF Phases
<1>6. /\ t \in Command /\ t.at = "off" /\ t.op = tasks[c].op /\ t.place = tasks[c].place
      /\ t.dev = tasks[c].dev /\ t.pair = tasks[c].pair /\ Moved(c, t)
  BY <1>1, <1>3, <1>4, <1>5, Goes DEF Moved
<1>7. Knows(t)
  BY <1>2, <1>6 DEF Knows
<1>8. ASSUME Unmixed
      PROVE  /\ shown' = [place |-> status', session |-> session']
             /\ ~session => status' = Nowhere
             /\ wg' = Down
  <2>1. \A d \in DOMAIN tasks : tasks[d].at \notin {"forget", "show"}
    BY <1>1, <1>2, <1>8, OthersWait
  <2>. QED
    BY <1>1, <1>3, <1>8, <2>1 DEF Unmixed, Seen, SignedOut, StatusTrue
<1>9. events' \ {"lost"} = events \ {"lost"}
  BY <1>3
<1>. QED
  BY <1>1, <1>2, <1>3, <1>6, <1>7, <1>8, <1>9, LateStep

LEMMA SetOffAgrees ==
    ASSUME PartsInv, NEW c \in DOMAIN tasks, SetOff(c)
    PROVE  PartsInv'
<1>1. ClientTypes /\ AllKnow /\ tasks[c].at = "off" /\ tasks[c] \in Command
  BY DEF PartsInv, ClientTypes, SetOff
<1>2. tasks[c].op \in TunnelOps
  BY <1>1 DEF AllKnow, Knows
<1>3. PICK at : at = IF tasks[c].op = "sign_out" THEN "forget" ELSE "show"
  OBVIOUS
<1>4. /\ UNCHANGED <<key, pairs, token, enrolled, session, settings, wg>>
      /\ status' = Nowhere /\ events' = events \ {"lost"}
      /\ tasks' = [Go(c, at) EXCEPT ![c].place = Nowhere]
  BY <1>3 DEF SetOff, login
<1>5. PICK t : t = [tasks[c] EXCEPT !.at = at, !.place = Nowhere]
  OBVIOUS
<1>6. /\ t \in Command /\ t.at = at /\ t.op = tasks[c].op /\ t.place = Nowhere
      /\ t.dev = tasks[c].dev /\ t.pair = tasks[c].pair
  BY <1>1, <1>3, <1>5 DEF Command, Phases
<1>7. Moved(c, t)
  BY <1>1, <1>4, <1>5 DEF Moved, Go, Command
<1>8. Knows(t)
  BY <1>2, <1>3, <1>6 DEF Knows
<1>9. Unmixed => wg' = Down
  BY <1>1, <1>4 DEF Unmixed, StatusTrue
<1>10. events' \ {"lost"} = events \ {"lost"} /\ (wg' = Down => wg'.up = Nowhere)
  BY <1>4 DEF Down
<1>11. t.at \in {"forget", "show"}
  BY <1>3, <1>6
<1>. QED
  BY <1>1, <1>2, <1>4, <1>6, <1>7, <1>8, <1>9, <1>10, <1>11, LateStep

LEMMA ShowAgrees ==
    ASSUME PartsInv, NEW c \in DOMAIN tasks, Show(c)
    PROVE  PartsInv'
<1>1. ClientTypes /\ AllKnow /\ tasks[c].at = "show"
  BY DEF PartsInv, Show
<1>2. tasks[c].op \in TunnelOps
  BY <1>1 DEF AllKnow, Knows
<1>3. /\ UNCHANGED <<key, pairs, token, enrolled, session, settings, wg, status, events>>
      /\ tasks' = Over(c) /\ shown' = [place |-> tasks[c].place, session |-> session]
  BY DEF Show, login
<1>4. Leaves(c)
  BY <1>3, OverIs DEF Leaves
<1>5. \A t : ~Moved(c, t)
  BY <1>4 DEF Leaves, Moved
<1>6. ASSUME Unmixed
      PROVE  /\ "lost" \notin events => status = wg.up
             /\ status = tasks[c].place
             /\ ~session => status = Nowhere /\ wg = Down
  <2>1. \A d \in DOMAIN tasks : tasks[d].at \notin {"on", "abort", "off"}
    BY <1>1, <1>2, <1>6, OthersWait
  <2>. QED
    BY <1>1, <1>6, <2>1 DEF Unmixed, StatusTrue, SignedOut
<1>7. events' \ {"lost"} = events \ {"lost"}
  BY <1>3
<1>. QED
  BY <1>2, <1>3, <1>4, <1>5, <1>6, <1>7, LateStep

\* A session begins while other commands go on.
LEMMA WelcomeAgrees ==
    ASSUME PartsInv, NEW c \in DOMAIN tasks, Welcome(c)
    PROVE  PartsInv'
<1>1. ClientTypes /\ AllKnow /\ tasks[c].at = "welcome"
  BY DEF PartsInv, Welcome
<1>2. /\ UNCHANGED <<key, pairs, token, enrolled, settings, wg, status, events>>
      /\ tasks' = Over(c) /\ session' = TRUE /\ shown' = [place |-> status, session |-> TRUE]
  BY DEF Welcome
<1>3. Leaves(c)
  BY <1>2, OverIs DEF Leaves
<1>4. ClientTypes' /\ AllKnow'
  BY <1>1, <1>2, <1>3, TypesKept DEF ClientTypes
<1>5. ASSUME "mixed" \notin events'
      PROVE  Unmixed'
  <2>1. Unmixed
    BY <1>2, <1>5 DEF PartsInv
  <2>2. Apart'
    BY <1>3, <2>1, ApartKept DEF Unmixed
  <2>3. OneKey'
    BY <1>2, <1>3, <2>1, OneKeyKept DEF Unmixed, OneKey
  <2>4. StatusTrue'
    BY <1>1, <1>2, <1>3, <2>1 DEF Unmixed, StatusTrue, Leaves, Down
  <2>5. Seen'
    BY <1>2 DEF Seen
  <2>6. SignedOut'
    BY <1>2 DEF SignedOut
  <2>. QED
    BY <2>2, <2>3, <2>4, <2>5, <2>6 DEF Unmixed
<1>. QED
  BY <1>4, <1>5 DEF PartsInv

\* The one that signs out is alone when the key is renewed.
LEMMA ForgetAgrees ==
    ASSUME PartsInv, NEW c \in DOMAIN tasks, Forget(c)
    PROVE  PartsInv'
<1>1. ClientTypes /\ AllKnow /\ tasks[c].at = "forget" /\ tasks[c] \in Command
  BY DEF PartsInv, ClientTypes, Forget
<1>2. tasks[c].op = "sign_out"
  BY <1>1 DEF AllKnow, Knows
<1>3. /\ UNCHANGED <<enrolled, settings, wg, status, shown, events>>
      /\ tasks' = Go(c, "show") /\ token' = 0 /\ pairs' = [p \in Place |-> 0]
      /\ key' = key + 1 /\ session' = FALSE
  BY DEF Forget, view
<1>4. PICK t : t = [tasks[c] EXCEPT !.at = "show"]
  OBVIOUS
<1>5. "show" \in Phases
  BY DEF Phases
<1>6. /\ t \in Command /\ t.at = "show" /\ t.op = tasks[c].op /\ t.place = tasks[c].place /\ Moved(c, t)
  BY <1>1, <1>3, <1>4, <1>5, Goes DEF Moved
<1>7. Knows(t)
  BY <1>2, <1>6 DEF Knows, TunnelOps
<1>8. ClientTypes' /\ AllKnow'
  <2>1. key' \in Nat \ {0} /\ token' \in Nat /\ pairs' \in [Place -> Nat]
    BY <1>1, <1>3 DEF ClientTypes
  <2>2. enrolled' \subseteq Nat \ {0} /\ session' \in BOOLEAN /\ settings' = settings
    BY <1>1, <1>3 DEF ClientTypes
  <2>. QED
    BY <1>1, <1>6, <1>7, <2>1, <2>2, TypesKept
<1>9. ASSUME "mixed" \notin events'
      PROVE  Unmixed'
  <2>1. Unmixed
    BY <1>3, <1>9 DEF PartsInv
  <2>2. DOMAIN tasks = {c}
    BY <1>2, <2>1 DEF Unmixed, Apart
  <2>3. DOMAIN tasks' = {c} /\ tasks'[c] = t
    BY <1>6, <2>2 DEF Moved
  <2>4. status = Nowhere /\ wg = Down /\ tasks[c].place = Nowhere
    BY <1>1, <2>1 DEF Unmixed, StatusTrue
  <2>5. Apart'
    BY <2>3 DEF Apart
  <2>6. OneKey'
    BY <1>2, <1>3, <1>6, <2>1, <2>3 DEF Unmixed, OneKey, Renewed
  <2>7. StatusTrue'
    BY <1>3, <1>6, <2>3, <2>4 DEF StatusTrue, Down
  <2>8. Seen'
    BY <1>6, <2>3 DEF Seen
  <2>9. SignedOut'
    BY <1>2, <1>3, <1>6, <2>3, <2>4 DEF SignedOut, Down
  <2>. QED
    BY <2>5, <2>6, <2>7, <2>8, <2>9 DEF Unmixed
<1>. QED
  BY <1>8, <1>9 DEF PartsInv

LEMMA QuitAgrees ==
    ASSUME PartsInv, Quit
    PROVE  PartsInv'
<1>1. /\ UNCHANGED <<settings, key, pairs, enrolled>> /\ tasks' = << >> /\ wg' = Down
      /\ token' = 0 /\ session' = FALSE /\ status' = Nowhere
      /\ shown' = [place |-> Nowhere, session |-> FALSE] /\ events' = events \ {"lost"}
  BY DEF Quit
<1>2. DOMAIN << >> = {}
  OBVIOUS
<1>3. DOMAIN tasks' = {}
  BY <1>1, <1>2
<1>4. ClientTypes' /\ AllKnow'
  BY <1>1, <1>3 DEF PartsInv, ClientTypes, AllKnow
<1>5. ASSUME "mixed" \notin events'
      PROVE  Unmixed'
  <2>1. Unmixed
    BY <1>1, <1>5 DEF PartsInv
  <2>2. OneKey'
    BY <1>1, <1>3, <2>1 DEF Unmixed, OneKey
  <2>3. Apart' /\ StatusTrue' /\ Seen' /\ SignedOut'
    BY <1>1, <1>3 DEF Apart, StatusTrue, Seen, SignedOut, Down
  <2>. QED
    BY <2>2, <2>3 DEF Unmixed
<1>. QED
  BY <1>4, <1>5 DEF PartsInv

\* A step that no command takes.
LEMMA OutsideAgrees ==
    ASSUME PartsInv, UNCHANGED <<key, pairs, token, session, view, wg, tasks, events>>,
           enrolled' \subseteq enrolled, settings' \in [kill : BOOLEAN, mask : BOOLEAN]
    PROVE  PartsInv'
<1>1. ClientTypes' /\ AllKnow'
  BY DEF PartsInv, ClientTypes, AllKnow, Knows, TunnelOps
<1>2. Unmixed => Unmixed'
  BY DEF Unmixed, Apart, OneKey, Renewed, StatusTrue, Seen, SignedOut, view, Down, TunnelOps
<1>. QED
  BY <1>1, <1>2 DEF PartsInv

LEMMA NextAgrees ==
    ASSUME PartsInv, [ClientNext]_clientVars
    PROVE  PartsInv'
<1>0. settings \in [kill : BOOLEAN, mask : BOOLEAN] /\ AllKnow
  BY DEF PartsInv, ClientTypes
<1>1. CASE UNCHANGED clientVars
  BY <1>0, <1>1, OutsideAgrees DEF clientVars, view
<1>2. ASSUME NEW c \in Task, EnrollCode(c) \/ SignIn(c) \/ Disconnect(c) \/ \E op \in Offered : Ask(c, op)
      PROVE  PartsInv'
  <2>1. CASE EnrollCode(c)
    BY <2>1, GiveAgrees DEF EnrollCode
  <2>2. CASE SignIn(c)
    BY <2>2, GiveAgrees DEF SignIn
  <2>3. CASE Disconnect(c)
    BY <2>3, GiveAgrees DEF Disconnect, TunnelOps
  <2>4. ASSUME NEW op, Ask(c, op)
        PROVE  PartsInv'
    <3>1. PICK at : at = Request
      OBVIOUS
    <3>2. at \in {"auth", "call"} /\ op \notin {"connect", "toggle"} /\ Give(c, op, Nowhere, at)
      BY <2>4, <3>1 DEF Request, Ask
    <3>. QED
      BY <3>2, GiveAgrees
  <2>. QED
    BY <1>2, <2>1, <2>2, <2>3, <2>4
<1>3. ASSUME NEW c \in Task, NEW p \in Place, Connect(c, p) \/ TrayToggle(c, p)
      PROVE  PartsInv'
  <2>1. PICK first : first = IF catalogue THEN "keys" ELSE Request
    OBVIOUS
  <2>2. first \in {"keys", "auth", "call"}
    BY <2>1 DEF Request
  <2>3. CASE Connect(c, p)
    <3>1. session /\ Give(c, "connect", p, first)
      BY <2>1, <2>3 DEF Connect
    <3>. QED
      BY <2>2, <3>1, GiveAgrees
  <2>4. CASE TrayToggle(c, p)
    <3>1. session /\ (Give(c, "toggle", p, "keys") \/ Give(c, "toggle", Nowhere, "lower"))
      BY <2>4 DEF TrayToggle
    <3>. QED
      BY <3>1, GiveAgrees DEF TunnelOps
  <2>. QED
    BY <1>3, <2>3, <2>4
<1>4. ASSUME NEW kill \in BOOLEAN, NEW mask \in BOOLEAN, SetSettings(kill, mask)
      PROVE  PartsInv'
  BY <1>4, OutsideAgrees DEF SetSettings, login
<1>5. ASSUME NEW c \in DOMAIN tasks, ClientStep(c)
      PROVE  PartsInv'
  BY <1>5, CodeAgrees, AuthAgrees, WelcomeAgrees, CallAgrees, KeyPairAgrees, StartRelayAgrees,
     RaiseAgrees, SetOnAgrees, LowerAgrees, AbortAgrees, SetOffAgrees, ForgetAgrees, ShowAgrees
     DEF ClientStep
<1>6. CASE Quit
  BY <1>6, QuitAgrees
<1>7. CASE RevokedElsewhere
  BY <1>0, <1>7, OutsideAgrees DEF RevokedElsewhere
<1>. QED
  BY <1>1, <1>2, <1>3, <1>4, <1>5, <1>6, <1>7 DEF ClientNext

\* As long as no two commands changed the tunnel at once, and none ran beside a
\* sign-out, the parts agree between commands, and no pair was registered for two
\* device keys.
THEOREM PartsAgreeHolds == ClientSpec => []PartsAgree
<1>0. DOMAIN << >> = {}
  OBVIOUS
<1>1. ASSUME ClientInit
      PROVE  PartsInv
  <2>1. DOMAIN tasks = {}
    BY <1>0, <1>1 DEF ClientInit
  <2>4. key = 1 /\ token = 0 /\ pairs = [p \in Place |-> 0] /\ session = FALSE /\ enrolled = {}
    BY <1>1 DEF ClientInit
  <2>5. settings \in [kill : BOOLEAN, mask : BOOLEAN]
    BY <1>1 DEF ClientInit
  <2>6. pairs \in [Place -> Nat]
    BY <2>4
  <2>2. AllKnow
    BY <2>1 DEF AllKnow
  <2>7. key \in Nat \ {0} /\ token \in Nat /\ enrolled \subseteq Nat \ {0}
    BY <2>4
  <2>10. session \in BOOLEAN
    BY <2>4, Zenon
  <2>8. \A c \in DOMAIN tasks : tasks[c] \in Command
    BY <2>1
  <2>9. ClientTypes
    BY <2>5, <2>6, <2>7, <2>8, <2>10 DEF ClientTypes
  <2>3. Unmixed
    BY <1>1, <2>1 DEF ClientInit, Unmixed, Apart, OneKey, StatusTrue, Seen, SignedOut, Down
  <2>. QED
    BY <2>2, <2>3, <2>9 DEF PartsInv
<1>2. ASSUME PartsInv
      PROVE  PartsAgree
  <2>. SUFFICES ASSUME "mixed" \notin events
                PROVE  /\ "linked" \notin events
                       /\ tasks = << >> =>
                            /\ "lost" \notin events => status = wg.up
                            /\ shown = [place |-> status, session |-> session]
                            /\ ~session => status = Nowhere /\ wg = Down
                            /\ token \in {0, key}
                            /\ \A p \in Place : pairs[p] \in {0, key}
    BY DEF PartsAgree
  <2>1. OneKey /\ StatusTrue /\ Seen /\ SignedOut
    BY <1>2 DEF PartsInv, Unmixed
  <2>2. tasks = << >> => DOMAIN tasks = {}
    BY <1>0
  <2>. QED
    BY <2>1, <2>2 DEF OneKey, StatusTrue, Seen, SignedOut
<1>. QED
  BY <1>1, <1>2, NextAgrees, PTL DEF ClientSpec

-----------------------------------------------------------------------------
(***************************************************************************)
(* The control plane and its node (module Tunnel): what a row, a session    *)
(* and a call say of the peers.                                             *)
(***************************************************************************)
\* A peer that is not at the node any more, or whose loss is excused.
Missing(p, st, ex) == p \notin DOMAIN st \/ p \in ex

\* What the rows, a session or a call may still remember of the node later on.
Later(st, np, ex, st2, np2, ex2) ==
  /\ np <= np2 /\ ex \subseteq ex2
  /\ \A p \in DOMAIN st2 : p < np => p \in DOMAIN st /\ st2[p] = st[p]

\* A row as it is, or as a session loaded it: its peer has its key at the node.
RowTrue(r, st, np, ex) ==
  /\ r \in Row /\ r.peer < np
  /\ r.peer \in DOMAIN st => st[r.peer] = r.key \/ r.peer \in ex

\* The operation and the arguments of a call at each line.
WithRow == {"replace", "set", "save", "add", "retry", "again", "store",
            "poll", "count", "mark", "off", "remove", "gone"}
Adding == {"add", "retry", "again", "store"}
OnLine(x) ==
  /\ DOMAIN x = {"op", "dev", "at", "key", "todo", "row", "got", "seen", "mine"}
  /\ x.at \in {"bind", "rebind"} => x.op = "enroll" /\ x.dev \in Device
  /\ x.at = "load" => x.op \in {"register", "drop"} /\ x.dev \in Device
  /\ x.at = "insert" => x.op = "register" /\ x.dev \in Device
  /\ x.at \in {"replace", "set"} => x.op = "register"
  /\ x.op = "register" => x.key \in Key
  /\ x.op \in {"register", "drop"} => x.todo = {}
  /\ x.at \in {"flush", "each"} => x.op = "toggle" \/ (x.op = "revoke" /\ x.dev \in Device)
  /\ x.at = "finish" => x.op \in {"toggle", "page"}
  /\ x.at \in WithRow => x.row \in DOMAIN x.mine
  /\ x.todo \subseteq DOMAIN x.mine

\* A session changes a peer only to none, when the node has lost it, and a key
\* only just before it saves it, and where no peer is known.
Changed(x, i, st, ex) ==
  /\ x.mine[i].peer # x.seen[i].peer => x.mine[i].peer = 0 /\ Missing(x.seen[i].peer, st, ex)
  /\ x.mine[i].key # x.seen[i].key => x.at = "save" /\ i = x.row /\ x.mine[i].peer = 0

Session(x, ids, st, np, ex) ==
  /\ DOMAIN x.seen = DOMAIN x.mine /\ DOMAIN x.mine \subseteq ids
  /\ \A i \in DOMAIN x.mine :
       RowTrue(x.seen[i], st, np, ex) /\ RowTrue(x.mine[i], st, np, ex) /\ Changed(x, i, st, ex)

\* A call that is adding a peer, from the row it saved to the row that names it.
AddTrue(x, st, np, ex) ==
  /\ x.got \in {0} \union Peer /\ (x.got # 0 <=> x.at = "store")
  /\ x.at = "set" /\ x.mine[x.row].peer # 0 => x.mine[x.row].key = x.key
  /\ x.at \in Adding => x.mine[x.row] = x.seen[x.row]
  /\ x.at \in {"again", "store"} => Missing(x.seen[x.row].peer, st, ex)
  /\ x.at = "store" => x.got < np /\ (x.got \in DOMAIN st => st[x.got] = x.seen[x.row].key)

CallTrue(x, ids, st, np, ex) == OnLine(x) /\ Session(x, ids, st, np, ex) /\ AddTrue(x, st, np, ex)

CallsTrue(cs, ids, st, np, ex) ==
  DOMAIN cs \subseteq Slot /\ \A c \in DOMAIN cs : CallTrue(cs[c], ids, st, np, ex)

RowsTrue(ro, st, np, ex) ==
  /\ \E n \in Nat : DOMAIN ro = 1 .. n
  /\ \A i \in DOMAIN ro : RowTrue(ro[i], st, np, ex)
  /\ \A i, j \in DOMAIN ro : ro[i].key = ro[j].key => i = j

NodeTrue(st, np, ex) ==
  /\ np \in Nat \ {0} /\ ex \subseteq Peer
  /\ \A p \in DOMAIN st : p \in Peer /\ p < np /\ st[p] \in Key
  /\ \A p, q \in DOMAIN st : st[p] = st[q] => p = q

\* Every peer of the node is accounted for.
Accounted(ro, st, ex, cs) ==
  \A p \in DOMAIN st : \/ \E i \in DOMAIN ro : ro[i].peer = p
                       \/ \E c \in DOMAIN cs : cs[c].got = p
                       \/ p \in ex

LockTrue(lo, cs) == lo # None => lo \in DOMAIN cs /\ cs[lo].at = "each"

Plainly ==
  /\ account \in [active : BOOLEAN, expired : BOOLEAN]
  /\ device \in [Device -> {"none", "active", "revoked"}]
  /\ live \subseteq Key /\ raw \in [Key -> Nat]

TunnelInv ==
  /\ Plainly /\ LockTrue(lock, calls) /\ NodeTrue(store, nextPeer, excused)
  /\ RowsTrue(rows, store, nextPeer, excused)
  /\ CallsTrue(calls, DOMAIN rows, store, nextPeer, excused)
  /\ Accounted(rows, store, excused, calls)

-----------------------------------------------------------------------------
(* What stays true while others work.                                         *)
LEMMA RowStays ==
  ASSUME NEW st, NEW np \in Nat, NEW ex, NEW st2, NEW np2 \in Nat, NEW ex2,
         Later(st, np, ex, st2, np2, ex2), NEW r, RowTrue(r, st, np, ex)
  PROVE  RowTrue(r, st2, np2, ex2)
<1>1. r.peer \in Nat
  BY TunnelAssumption DEF RowTrue, Row, Peer
<1>. QED
  BY <1>1 DEF RowTrue, Later

LEMMA CallStays ==
  ASSUME NEW st, NEW np \in Nat, NEW ex, NEW st2, NEW np2 \in Nat, NEW ex2,
         Later(st, np, ex, st2, np2, ex2),
         NEW ids, NEW ids2, ids \subseteq ids2, NEW x, CallTrue(x, ids, st, np, ex)
  PROVE  CallTrue(x, ids2, st2, np2, ex2)
<1>1. ASSUME NEW p \in Nat, p < np, Missing(p, st, ex) PROVE Missing(p, st2, ex2)
  BY <1>1 DEF Missing, Later
<1>2. ASSUME NEW i \in DOMAIN x.mine
      PROVE  /\ RowTrue(x.seen[i], st2, np2, ex2) /\ RowTrue(x.mine[i], st2, np2, ex2)
             /\ Changed(x, i, st2, ex2) /\ x.seen[i].peer \in Nat /\ x.seen[i].peer < np
  <2>1. RowTrue(x.seen[i], st, np, ex) /\ RowTrue(x.mine[i], st, np, ex) /\ Changed(x, i, st, ex)
    BY DEF CallTrue, Session
  <2>2. x.seen[i].peer \in Nat /\ x.seen[i].peer < np
    BY <2>1, TunnelAssumption DEF RowTrue, Row, Peer
  <2>3. RowTrue(x.seen[i], st2, np2, ex2) /\ RowTrue(x.mine[i], st2, np2, ex2)
    BY <2>1, RowStays
  <2>. QED
    BY <1>1, <2>1, <2>2, <2>3 DEF Changed
<1>3. Session(x, ids2, st2, np2, ex2)
  BY <1>2 DEF CallTrue, Session
<1>4. AddTrue(x, st2, np2, ex2)
  <2>1. x.at \in {"again", "store"} => Missing(x.seen[x.row].peer, st2, ex2)
    <3>1. x.at \in {"again", "store"} => x.row \in DOMAIN x.mine /\ Missing(x.seen[x.row].peer, st, ex)
      BY DEF CallTrue, OnLine, WithRow, AddTrue
    <3>. QED
      BY <1>1, <1>2, <3>1
  <2>2. x.at = "store" => x.got < np2 /\ (x.got \in DOMAIN st2 => st2[x.got] = x.seen[x.row].key)
    <3>1. x.got \in Nat
      BY TunnelAssumption DEF CallTrue, AddTrue, Peer
    <3>. QED
      BY <3>1 DEF CallTrue, AddTrue, Later
  <2>. QED
    BY <2>1, <2>2 DEF CallTrue, AddTrue
<1>. QED
  BY <1>3, <1>4 DEF CallTrue

\* One call moves, or begins, or ends.
OneMoves(c) ==
  /\ DOMAIN calls' \subseteq DOMAIN calls \union {c}
  /\ DOMAIN calls \ {c} \subseteq DOMAIN calls'
  /\ \A e \in DOMAIN calls' \ {c} : calls'[e] = calls[e]

LEMMA CallsStay ==
  ASSUME TunnelInv, NEW c \in Slot, OneMoves(c),
         Later(store, nextPeer, excused, store', nextPeer', excused'), nextPeer' \in Nat,
         DOMAIN rows \subseteq DOMAIN rows',
         c \in DOMAIN calls' => CallTrue(calls'[c], DOMAIN rows', store', nextPeer', excused')
  PROVE  CallsTrue(calls', DOMAIN rows', store', nextPeer', excused')
<1>1. nextPeer \in Nat
  BY DEF TunnelInv, NodeTrue
<1>2. ASSUME NEW e \in DOMAIN calls', e # c
      PROVE  CallTrue(calls'[e], DOMAIN rows', store', nextPeer', excused')
  <2>1. e \in DOMAIN calls /\ calls'[e] = calls[e]
    BY <1>2 DEF OneMoves
  <2>2. CallTrue(calls[e], DOMAIN rows, store, nextPeer, excused)
    BY <2>1 DEF TunnelInv, CallsTrue
  <2>. QED
    BY <1>1, <2>1, <2>2, CallStays
<1>3. DOMAIN calls' \subseteq Slot
  BY DEF OneMoves, TunnelInv, CallsTrue
<1>. QED
  BY <1>2, <1>3 DEF CallsTrue

\* What a commit makes of a row.
LEMMA MergedIs ==
  ASSUME TunnelInv, NEW c \in DOMAIN calls, NEW i \in DOMAIN calls[c].mine
  PROVE  /\ Merged(c, i) \in Row
         /\ \A col \in Columns : Merged(c, i)[col] =
              IF calls[c].mine[i][col] # calls[c].seen[i][col] THEN calls[c].mine[i][col] ELSE rows[i][col]
         /\ Merged(c, i).peer = IF calls[c].mine[i].peer # calls[c].seen[i].peer
                                THEN calls[c].mine[i].peer ELSE rows[i].peer
         /\ Merged(c, i).key = IF calls[c].mine[i].key # calls[c].seen[i].key
                               THEN calls[c].mine[i].key ELSE rows[i].key
<1>1. calls[c].mine[i] \in Row /\ rows[i] \in Row
  BY DEF TunnelInv, CallsTrue, CallTrue, Session, RowTrue, RowsTrue
<1>2. PICK r : r = Merged(c, i)
  OBVIOUS
<1>3. /\ DOMAIN r = Columns /\ r = [col \in DOMAIN r |-> r[col]]
      /\ \A col \in Columns : r[col] =
           IF calls[c].mine[i][col] # calls[c].seen[i][col] THEN calls[c].mine[i][col] ELSE rows[i][col]
  BY <1>2 DEF Merged
<1>4. r.dev \in Device /\ r.key \in Key /\ r.peer \in {0} \union Peer
  BY <1>1, <1>3 DEF Row, Columns
<1>5. r.active \in BOOLEAN /\ r.used \in Nat /\ r.last \in Nat /\ r.bonus \in 0 .. MaxBonus
  BY <1>1, <1>3 DEF Row, Columns
<1>6. r \in Row
  BY <1>3, <1>4, <1>5 DEF Row, Columns
<1>. QED
  BY <1>2, <1>3, <1>6 DEF Columns

-----------------------------------------------------------------------------
(* What a step has to show.                                                   *)
LEMMA WholeIs ==
  ASSUME TunnelInv, NEW c \in Slot, OneMoves(c), Plainly', LockTrue(lock', calls'),
         NodeTrue(store', nextPeer', excused'),
         Later(store, nextPeer, excused, store', nextPeer', excused'),
         RowsTrue(rows', store', nextPeer', excused'), DOMAIN rows \subseteq DOMAIN rows',
         c \in DOMAIN calls' => CallTrue(calls'[c], DOMAIN rows', store', nextPeer', excused'),
         \A p \in DOMAIN store' : \/ p \in DOMAIN store \/ p \in excused'
                                  \/ c \in DOMAIN calls' /\ calls'[c].got = p,
         \A p \in DOMAIN store', i \in DOMAIN rows : rows[i].peer = p =>
            p \in excused' \/ \E j \in DOMAIN rows' : rows'[j].peer = p,
         \A p \in DOMAIN store' : c \in DOMAIN calls /\ calls[c].got = p =>
            \/ p \in excused' \/ \E j \in DOMAIN rows' : rows'[j].peer = p
            \/ c \in DOMAIN calls' /\ calls'[c].got = p
  PROVE  TunnelInv'
<1>1. CallsTrue(calls', DOMAIN rows', store', nextPeer', excused')
  BY CallsStay DEF NodeTrue
<1>2. ASSUME NEW p \in DOMAIN store'
      PROVE  \/ \E i \in DOMAIN rows' : rows'[i].peer = p
             \/ \E e \in DOMAIN calls' : calls'[e].got = p
             \/ p \in excused'
  <2>1. CASE p \in DOMAIN store
    <3>1. \/ \E i \in DOMAIN rows : rows[i].peer = p
          \/ \E e \in DOMAIN calls : calls[e].got = p
          \/ p \in excused
      BY <2>1 DEF TunnelInv, Accounted
    <3>2. CASE \E e \in DOMAIN calls : calls[e].got = p
      <4>1. PICK e \in DOMAIN calls : calls[e].got = p
        BY <3>2
      <4>2. CASE e = c
        BY <4>1, <4>2
      <4>3. CASE e # c
        BY <4>1, <4>3 DEF OneMoves
      <4>. QED
        BY <4>2, <4>3
    <3>. QED
      BY <3>1, <3>2 DEF Later
  <2>. QED
    BY <2>1
<1>3. Accounted(rows', store', excused', calls')
  BY <1>2 DEF Accounted
<1>. QED
  BY <1>1, <1>3 DEF TunnelInv

\* A step that leaves the rows and the peers alone.
LEMMA QuietIs ==
  ASSUME TunnelInv, NEW c \in Slot, OneMoves(c), Plainly', LockTrue(lock', calls'),
         UNCHANGED <<rows, store, nextPeer, excused>>,
         c \in DOMAIN calls' => CallTrue(calls'[c], DOMAIN rows, store, nextPeer, excused),
         c \in DOMAIN calls => calls[c].got = 0
  PROVE  TunnelInv'
<1>1. nextPeer \in Nat /\ 0 \notin DOMAIN store
  BY DEF TunnelInv, NodeTrue, Peer
<1>2. Later(store, nextPeer, excused, store', nextPeer', excused')
  BY <1>1 DEF Later
<1>. QED
  BY <1>1, <1>2, WholeIs DEF TunnelInv

\* A node from which a peer was removed, or not.
LEMMA RemovedIs ==
  ASSUME TunnelInv, NEW p, RemovePeer(p)
  PROVE  /\ nextPeer' = nextPeer /\ NodeTrue(store', nextPeer', excused')
         /\ Later(store, nextPeer, excused, store', nextPeer', excused')
         /\ live' \subseteq Key /\ raw' \in [Key -> Nat]
         /\ DOMAIN store' \subseteq DOMAIN store /\ \A q \in DOMAIN store' : store'[q] = store[q]
         /\ Missing(p, store', excused')
<1>1. NodeTrue(store, nextPeer, excused) /\ live \subseteq Key /\ raw \in [Key -> Nat]
  BY DEF TunnelInv, Plainly
<1>2. CASE UNCHANGED <<node, excused>> /\ p \notin DOMAIN store
  BY <1>1, <1>2 DEF node, NodeTrue, Later, Missing
<1>3. CASE p \in DOMAIN store /\ Trouble(p) /\ UNCHANGED node
  <2>1. p \in Peer
    BY <1>1, <1>3 DEF NodeTrue
  <2>. QED
    BY <1>1, <1>3, <2>1 DEF node, NodeTrue, Later, Missing, Trouble
<1>4. CASE /\ p \in DOMAIN store /\ store' = Restrict(store, DOMAIN store \ {p})
           /\ nextPeer' = nextPeer /\ excused' = excused
           /\ Sync(store') \/ UNCHANGED <<live, raw>>
  <2>1. /\ DOMAIN store' = DOMAIN store \ {p}
        /\ \A q \in DOMAIN store' : store'[q] = store[q]
    BY <1>4 DEF Restrict
  <2>2. Keys(store') \subseteq Key
    BY <1>1, <2>1 DEF Keys, NodeTrue
  <2>3. live' \subseteq Key /\ raw' \in [Key -> Nat]
    BY <1>1, <1>4, <2>2 DEF Sync
  <2>. QED
    BY <1>1, <1>4, <2>1, <2>3 DEF NodeTrue, Later, Missing
<1>. QED
  BY <1>2, <1>3, <1>4 DEF RemovePeer, Sync

\* The call goes on at a line, or ends there.
GoesOn(c, at, got) ==
  calls' = IF at = "end" THEN Ended(c) ELSE [calls EXCEPT ![c].at = at, ![c].got = got]

\* A node to which a key was added, or not.
LEMMA AddedIs ==
  ASSUME TunnelInv, NEW c \in DOMAIN calls, NEW k \in Key, NEW then, NEW else, AddPeer(c, k, then, else)
  PROVE  /\ NodeTrue(store', nextPeer', excused') /\ nextPeer \in Nat \ {0}
         /\ Later(store, nextPeer, excused, store', nextPeer', excused')
         /\ live' \subseteq Key /\ raw' \in [Key -> Nat]
         /\ \/ /\ GoesOn(c, else, 0)
               /\ \A p \in DOMAIN store' : p \in DOMAIN store \/ p \in excused'
            \/ /\ GoesOn(c, then, nextPeer) /\ nextPeer' = nextPeer + 1 /\ excused' = excused
               /\ k \notin Keys(store) /\ nextPeer \in Peer
               /\ DOMAIN store' = DOMAIN store \union {nextPeer} /\ store'[nextPeer] = k
<1>1. NodeTrue(store, nextPeer, excused) /\ live \subseteq Key /\ raw \in [Key -> Nat]
      /\ nextPeer \in Nat \ {0}
  BY DEF TunnelInv, Plainly, NodeTrue
<1>2. CASE UNCHANGED <<node, excused>> /\ GoesOn(c, else, 0)
  BY <1>1, <1>2 DEF node, NodeTrue, Later
<1>3. CASE /\ k \notin Keys(store) /\ nextPeer <= MaxPeer
           /\ store' = Put(store, nextPeer, k) /\ nextPeer' = nextPeer + 1
           /\ Sync(store') \/ UNCHANGED <<live, raw>>
           /\ \/ GoesOn(c, then, nextPeer) /\ excused' = excused
              \/ GoesOn(c, else, 0) /\ Trouble(nextPeer)
  <2>1. nextPeer \notin DOMAIN store /\ nextPeer \in Peer
    BY <1>1, <1>3, TunnelAssumption DEF NodeTrue, Peer
  <2>2. /\ DOMAIN store' = DOMAIN store \union {nextPeer} /\ store'[nextPeer] = k
        /\ \A q \in DOMAIN store : store'[q] = store[q]
    BY <1>3, <2>1 DEF Put
  <2>3. \A q \in DOMAIN store : store[q] # k
    BY <1>3 DEF Keys
  <2>4. excused' \subseteq Peer /\ excused \subseteq excused'
    BY <1>1, <1>3, <2>1 DEF Trouble, NodeTrue
  <2>5. NodeTrue(store', nextPeer', excused')
    <3>1. \A p \in DOMAIN store' : p \in Peer /\ p < nextPeer' /\ store'[p] \in Key
      BY <1>1, <1>3, <2>1, <2>2, TunnelAssumption DEF NodeTrue, Peer
    <3>2. \A p, q \in DOMAIN store' : store'[p] = store'[q] => p = q
      BY <1>1, <2>2, <2>3 DEF NodeTrue
    <3>. QED
      BY <1>1, <1>3, <2>4, <3>1, <3>2 DEF NodeTrue
  <2>6. Later(store, nextPeer, excused, store', nextPeer', excused')
    BY <1>1, <1>3, <2>2, <2>4 DEF Later
  <2>7. live' \subseteq Key /\ raw' \in [Key -> Nat]
    <3>1. Keys(store') \subseteq Key
      BY <2>5 DEF Keys, NodeTrue
    <3>. QED
      BY <1>1, <1>3, <3>1 DEF Sync
  <2>8. GoesOn(c, else, 0) => \A p \in DOMAIN store' : p \in DOMAIN store \/ p \in excused' \/ excused' = excused
    BY <1>3, <2>2 DEF Trouble
  <2>9. \/ GoesOn(c, else, 0) /\ (\A p \in DOMAIN store' : p \in DOMAIN store \/ p \in excused')
        \/ GoesOn(c, then, nextPeer) /\ excused' = excused
    BY <1>3, <2>2 DEF Trouble
  <2>. QED
    BY <1>1, <1>3, <2>1, <2>2, <2>5, <2>6, <2>7, <2>9
<1>. QED
  BY <1>2, <1>3 DEF AddPeer, GoesOn, Sync, node

-----------------------------------------------------------------------------
(* How a call goes on.                                                        *)

\* The same call, at a line.
SameCall(x, y, at) ==
  /\ DOMAIN y = DOMAIN x /\ y.op = x.op /\ y.dev = x.dev /\ y.key = x.key /\ y.row = x.row
  /\ y.at = at

LEMMA CallIs ==
  ASSUME TunnelInv, NEW c \in DOMAIN calls
  PROVE  /\ CallTrue(calls[c], DOMAIN rows, store, nextPeer, excused) /\ c \in Slot
         /\ OnLine(calls[c]) /\ AddTrue(calls[c], store, nextPeer, excused)
         /\ DOMAIN calls[c].seen = DOMAIN calls[c].mine /\ DOMAIN calls[c].mine \subseteq DOMAIN rows
         /\ \A i \in DOMAIN calls[c].mine :
              /\ RowTrue(calls[c].seen[i], store, nextPeer, excused)
              /\ RowTrue(calls[c].mine[i], store, nextPeer, excused)
              /\ Changed(calls[c], i, store, excused)
BY DEF TunnelInv, CallsTrue, CallTrue, Session

LEMMA EndedIs ==
  ASSUME TunnelInv, NEW c \in DOMAIN calls, calls' = Ended(c)
  PROVE  OneMoves(c) /\ c \notin DOMAIN calls' /\ DOMAIN calls' = DOMAIN calls \ {c}
BY DEF Ended, Restrict, OneMoves

LEMMA ToIs ==
  ASSUME TunnelInv, NEW c \in DOMAIN calls, NEW at, calls' = To(c, at)
  PROVE  /\ OneMoves(c) /\ DOMAIN calls' = DOMAIN calls /\ SameCall(calls[c], calls'[c], at)
         /\ calls'[c].todo = calls[c].todo /\ calls'[c].got = calls[c].got
         /\ calls'[c].seen = calls[c].seen /\ calls'[c].mine = calls[c].mine
<1>1. OnLine(calls[c])
  BY CallIs
<1>2. DOMAIN calls' = DOMAIN calls /\ OneMoves(c)
  BY DEF To, OneMoves
<1>3. calls'[c] = [calls[c] EXCEPT !.at = at]
  BY DEF To
<1>4. PICK x : x = calls[c]
  OBVIOUS
<1>5. PICK y : y = calls'[c]
  OBVIOUS
<1>6. y = [x EXCEPT !.at = at]
  BY <1>3, <1>4, <1>5
<1>7. /\ SameCall(x, y, at) /\ y.todo = x.todo /\ y.got = x.got
      /\ y.seen = x.seen /\ y.mine = x.mine
  BY <1>1, <1>4, <1>6 DEF OnLine, SameCall
<1>. QED
  BY <1>2, <1>4, <1>5, <1>7

LEMMA ChangeIs ==
  ASSUME TunnelInv, NEW c \in DOMAIN calls, NEW i \in DOMAIN calls[c].mine, NEW row, NEW at,
         calls' = Change(c, i, row, at)
  PROVE  /\ OneMoves(c) /\ DOMAIN calls' = DOMAIN calls /\ SameCall(calls[c], calls'[c], at)
         /\ calls'[c].todo = calls[c].todo /\ calls'[c].got = calls[c].got
         /\ calls'[c].seen = calls[c].seen /\ DOMAIN calls'[c].mine = DOMAIN calls[c].mine
         /\ calls'[c].mine[i] = row
         /\ \A j \in DOMAIN calls[c].mine : j # i => calls'[c].mine[j] = calls[c].mine[j]
<1>1. OnLine(calls[c])
  BY CallIs
<1>2. DOMAIN calls' = DOMAIN calls /\ OneMoves(c)
  BY DEF Change, OneMoves
<1>3. calls'[c] = [calls[c] EXCEPT !.mine[i] = row, !.at = at]
  BY DEF Change
<1>4. PICK x : x = calls[c]
  OBVIOUS
<1>5. PICK y : y = calls'[c]
  OBVIOUS
<1>6. y = [x EXCEPT !.mine = [x.mine EXCEPT ![i] = row], !.at = at]
  BY <1>3, <1>4, <1>5
<1>7. /\ SameCall(x, y, at) /\ y.todo = x.todo /\ y.got = x.got
      /\ y.seen = x.seen /\ y.mine = [x.mine EXCEPT ![i] = row]
  BY <1>1, <1>4, <1>6 DEF OnLine, SameCall
<1>8. i \in DOMAIN x.mine
  BY <1>4
<1>9. DOMAIN y.mine = DOMAIN x.mine /\ y.mine[i] = row /\ \A j \in DOMAIN x.mine : j # i => y.mine[j] = x.mine[j]
  BY <1>7, <1>8
<1>. QED
  BY <1>2, <1>4, <1>5, <1>7, <1>9

\* A session that changed one of its rows.
LEMMA ChangeTrue ==
  ASSUME TunnelInv, NEW c \in DOMAIN calls, NEW i \in DOMAIN calls[c].mine, NEW row, NEW at,
         calls' = Change(c, i, row, at),
         NEW st, NEW np \in Nat, NEW ex, Later(store, nextPeer, excused, st, np, ex),
         RowTrue(row, st, np, ex),
         row.peer # calls[c].seen[i].peer => row.peer = 0 /\ Missing(calls[c].seen[i].peer, st, ex),
         row.key # calls[c].seen[i].key => at = "save" /\ i = calls[c].row /\ row.peer = 0,
         calls[c].at \in WithRow \ (Adding \union {"save"}),
         at \in {"set", "save", "count", "next", "off", "gone"},
         at = "set" => calls[c].op = "register" /\ i = calls[c].row /\ row.peer = 0
  PROVE  CallTrue(calls'[c], DOMAIN rows, st, np, ex)
<1>1. PICK x : x = calls[c]
  OBVIOUS
<1>2. PICK y : y = calls'[c]
  OBVIOUS
<1>3. /\ SameCall(x, y, at) /\ y.todo = x.todo /\ y.got = x.got /\ y.seen = x.seen
      /\ DOMAIN y.mine = DOMAIN x.mine /\ y.mine[i] = row
      /\ \A j \in DOMAIN x.mine : j # i => y.mine[j] = x.mine[j]
  BY <1>1, <1>2, ChangeIs
<1>4. CallTrue(x, DOMAIN rows, st, np, ex)
  <2>1. CallTrue(x, DOMAIN rows, store, nextPeer, excused) /\ nextPeer \in Nat
    BY <1>1, CallIs DEF TunnelInv, NodeTrue
  <2>. QED
    BY <2>1, CallStays
<1>5. x.at \in WithRow \ (Adding \union {"save"})
  BY <1>1
<1>6. OnLine(y)
  BY <1>1, <1>3, <1>4, <1>5 DEF CallTrue, OnLine, SameCall, WithRow
<1>7. ASSUME NEW j \in DOMAIN y.mine
      PROVE  RowTrue(y.seen[j], st, np, ex) /\ RowTrue(y.mine[j], st, np, ex) /\ Changed(y, j, st, ex)
  <2>1. RowTrue(x.seen[j], st, np, ex) /\ RowTrue(x.mine[j], st, np, ex) /\ Changed(x, j, st, ex)
    BY <1>3, <1>4 DEF CallTrue, Session
  <2>2. CASE j = i
    <3>1. y.mine[j] = row /\ y.seen[j] = x.seen[i] /\ y.row = x.row /\ y.at = at
      BY <1>3, <2>2 DEF SameCall
    <3>. QED
      BY <1>1, <2>1, <2>2, <3>1 DEF Changed
  <2>3. CASE j # i
    <3>1. y.mine[j] = x.mine[j] /\ y.seen[j] = x.seen[j]
      BY <1>3, <2>3
    <3>. QED
      BY <1>5, <2>1, <3>1 DEF Changed
  <2>. QED
    BY <2>2, <2>3
<1>8. Session(y, DOMAIN rows, st, np, ex)
  BY <1>3, <1>4, <1>7 DEF CallTrue, Session
<1>9. AddTrue(y, st, np, ex)
  BY <1>1, <1>3, <1>4, <1>5 DEF CallTrue, AddTrue, SameCall, Adding
<1>. QED
  BY <1>2, <1>6, <1>8, <1>9 DEF CallTrue

\* What a commit leaves of the rows, when no key was changed.
LEMMA CommitIs ==
  ASSUME TunnelInv, NEW c \in DOMAIN calls, calls[c].at # "save",
         rows' = Written(c), excused' = excused \union Overwritten(c)
  PROVE  /\ DOMAIN rows' = DOMAIN rows /\ RowsTrue(rows', store, nextPeer, excused')
         /\ NodeTrue(store, nextPeer, excused')
         /\ Later(store, nextPeer, excused, store, nextPeer, excused')
         /\ \A i \in DOMAIN rows : rows[i].peer \in DOMAIN store =>
               rows[i].peer \in excused' \/ rows'[i].peer = rows[i].peer
<1>1. /\ RowsTrue(rows, store, nextPeer, excused) /\ NodeTrue(store, nextPeer, excused)
      /\ nextPeer \in Nat \ {0} /\ 0 \notin DOMAIN store
  BY DEF TunnelInv, NodeTrue, Peer
<1>2. DOMAIN rows' = DOMAIN rows
  BY DEF Written
<1>3. ASSUME NEW i \in DOMAIN rows
      PROVE  /\ rows'[i] \in Row /\ rows'[i].key = rows[i].key
             /\ rows'[i].peer = rows[i].peer \/ rows'[i].peer = 0
             /\ rows[i].peer \in DOMAIN store => rows[i].peer \in excused' \/ rows'[i].peer = rows[i].peer
  <2>1. RowTrue(rows[i], store, nextPeer, excused)
    BY <1>1 DEF RowsTrue
  <2>2. CASE i \notin DOMAIN calls[c].mine
    BY <2>1, <2>2 DEF Written, RowTrue
  <2>3. CASE i \in DOMAIN calls[c].mine
    <3>1. rows'[i] = Merged(c, i)
      BY <2>3 DEF Written
    <3>2. Changed(calls[c], i, store, excused)
      BY <2>3, CallIs
    <3>3. rows'[i] \in Row /\ rows'[i].key = rows[i].key
      BY <2>3, <3>1, <3>2, MergedIs DEF Changed
    <3>4. CASE calls[c].mine[i].peer = calls[c].seen[i].peer
      BY <2>3, <3>1, <3>3, <3>4, MergedIs
    <3>5. CASE calls[c].mine[i].peer # calls[c].seen[i].peer
      <4>1. rows'[i].peer = 0 /\ Missing(calls[c].seen[i].peer, store, excused)
        BY <2>3, <3>1, <3>2, <3>5, MergedIs DEF Changed
      <4>2. ASSUME rows[i].peer # calls[c].seen[i].peer, rows[i].peer # 0
            PROVE  rows[i].peer \in Overwritten(c)
        BY <2>3, <3>5, <4>2 DEF Overwritten
      <4>. QED
        BY <1>1, <3>3, <4>1, <4>2 DEF Missing
    <3>. QED
      BY <3>4, <3>5
  <2>. QED
    BY <2>2, <2>3
<1>4. Overwritten(c) \subseteq Peer
  <2>1. \A i \in DOMAIN rows : rows[i].peer \in {0} \union Peer
    BY <1>1 DEF RowsTrue, RowTrue, Row
  <2>2. DOMAIN calls[c].mine \subseteq DOMAIN rows
    BY CallIs
  <2>. QED
    BY <2>1, <2>2 DEF Overwritten
<1>5. NodeTrue(store, nextPeer, excused') /\ Later(store, nextPeer, excused, store, nextPeer, excused')
  BY <1>1, <1>4 DEF NodeTrue, Later
<1>6. RowsTrue(rows', store, nextPeer, excused')
  <2>1. ASSUME NEW i \in DOMAIN rows'
        PROVE  RowTrue(rows'[i], store, nextPeer, excused')
    <3>1. RowTrue(rows[i], store, nextPeer, excused)
      BY <1>1, <1>2 DEF RowsTrue
    <3>. QED
      BY <1>1, <1>2, <1>3, <3>1 DEF RowTrue
  <2>2. \A i, j \in DOMAIN rows' : rows'[i].key = rows'[j].key => i = j
    BY <1>1, <1>2, <1>3 DEF RowsTrue
  <2>. QED
    BY <1>1, <1>2, <2>1, <2>2 DEF RowsTrue
<1>. QED
  BY <1>2, <1>3, <1>5, <1>6

LEMMA CommittedTrue ==
  ASSUME TunnelInv, NEW c \in DOMAIN calls, NEW at, calls' = Committed(c, at), NEW ex,
         Later(store, nextPeer, excused, store, nextPeer, ex),
         calls[c].at \in {"count", "off", "gone"}, at \in {"mark", "next", "remove"}
  PROVE  /\ CallTrue(calls'[c], DOMAIN rows, store, nextPeer, ex)
         /\ OneMoves(c) /\ DOMAIN calls' = DOMAIN calls /\ SameCall(calls[c], calls'[c], at)
         /\ calls'[c].mine = calls[c].mine /\ calls'[c].seen = calls[c].mine
         /\ calls'[c].todo = calls[c].todo
<1>1. PICK x : x = calls[c]
  OBVIOUS
<1>2. PICK y : y = calls'[c]
  OBVIOUS
<1>3. CallTrue(x, DOMAIN rows, store, nextPeer, ex)
  <2>1. CallTrue(x, DOMAIN rows, store, nextPeer, excused) /\ nextPeer \in Nat
    BY <1>1, CallIs DEF TunnelInv, NodeTrue
  <2>. QED
    BY <2>1, CallStays
<1>4. DOMAIN calls' = DOMAIN calls /\ OneMoves(c) /\ calls'[c] = [calls[c] EXCEPT !.seen = calls[c].mine, !.at = at]
  BY DEF Committed, OneMoves
<1>5. y = [x EXCEPT !.seen = x.mine, !.at = at]
  BY <1>1, <1>2, <1>4
<1>6. SameCall(x, y, at) /\ y.todo = x.todo /\ y.got = x.got /\ y.mine = x.mine /\ y.seen = x.mine
  BY <1>3, <1>5 DEF CallTrue, OnLine, SameCall
<1>7. x.at \in {"count", "off", "gone"}
  BY <1>1
<1>8. OnLine(y)
  BY <1>3, <1>6, <1>7 DEF CallTrue, OnLine, SameCall, WithRow
<1>9. Session(y, DOMAIN rows, store, nextPeer, ex)
  BY <1>3, <1>6 DEF CallTrue, Session, Changed
<1>10. AddTrue(y, store, nextPeer, ex)
  BY <1>3, <1>6, <1>7 DEF CallTrue, AddTrue, SameCall, Adding
<1>. QED
  BY <1>1, <1>2, <1>4, <1>6, <1>8, <1>9, <1>10 DEF CallTrue

LEMMA LockStays ==
  ASSUME TunnelInv, NEW c, OneMoves(c), c \in DOMAIN calls => calls[c].at # "each", lock' = lock
  PROVE  LockTrue(lock', calls')
BY DEF TunnelInv, LockTrue, OneMoves

\* A call that ends and has done nothing.
LEMMA NothingDone ==
  ASSUME TunnelInv, NEW c \in DOMAIN calls, calls' = Ended(c), calls[c].at \notin {"each", "store"},
         Plainly', UNCHANGED <<rows, lock, store, nextPeer, excused>>
  PROVE  TunnelInv'
<1>1. OneMoves(c) /\ c \notin DOMAIN calls' /\ c \in Slot /\ calls[c].got = 0
  BY EndedIs, CallIs DEF AddTrue
<1>2. LockTrue(lock', calls')
  BY <1>1, LockStays
<1>. QED
  BY <1>1, <1>2, QuietIs

\* A call that goes on and has changed only itself.
LEMMA OnlyItself ==
  ASSUME TunnelInv, NEW c \in Slot, OneMoves(c), c \in DOMAIN calls => calls[c].at \notin {"each", "store"},
         c \in DOMAIN calls' => CallTrue(calls'[c], DOMAIN rows, store, nextPeer, excused),
         Plainly', UNCHANGED <<rows, lock, store, nextPeer, excused>>
  PROVE  TunnelInv'
<1>1. LockTrue(lock', calls')
  BY LockStays
<1>2. c \in DOMAIN calls => calls[c].got = 0
  BY CallIs DEF AddTrue
<1>. QED
  BY <1>1, <1>2, QuietIs

LEMMA StepEnrollSave ==
  ASSUME TunnelInv, NEW c \in DOMAIN calls, EnrollSave(c)
  PROVE  TunnelInv'
<1>1. calls[c].dev \in Device
  BY CallIs DEF EnrollSave, OnLine
<1>2. Plainly'
  BY <1>1 DEF EnrollSave, TunnelInv, Plainly, node
<1>. QED
  BY <1>2, NothingDone DEF EnrollSave, node

LEMMA LoadedIs ==
  ASSUME NEW ids
  PROVE  DOMAIN Loaded(ids) = ids /\ \A i \in ids : Loaded(ids)[i] = rows[i]
BY DEF Loaded, Restrict

\* The line at which a call goes on with the row it has loaded.
AtOf(c, i) == IF calls[c].op = "drop" THEN IF rows[i].peer # 0 THEN "remove" ELSE "gone"
              ELSE IF rows[i].peer # 0 /\ rows[i].key # calls[c].key THEN "replace" ELSE "set"
LoadsRow(c, i) ==
  /\ RowsOf(calls[c].dev) = {i}
  /\ ~\E j \in DOMAIN rows \ {i} : rows[j].key = calls[c].key
  /\ calls' = [calls EXCEPT ![c].seen = Loaded({i}), ![c].row = i, ![c].at = AtOf(c, i),
                            ![c].mine = IF AtOf(c, i) \in {"gone", "remove"}
                                        THEN Only(i, [rows[i] EXCEPT !.active = FALSE]) ELSE Loaded({i})]

LEMMA LoadRowIs ==
  ASSUME NEW c, LoadRow(c)
  PROVE  /\ calls[c].at = "load" /\ UNCHANGED <<database, node, begun, history>>
         /\ \/ calls' = Ended(c)
            \/ RowsOf(calls[c].dev) = {} /\ calls[c].op = "register" /\ calls' = To(c, "insert")
            \/ \E i : LoadsRow(c, i)
<1>1. CASE Fail(c)
  BY <1>1 DEF LoadRow, Fail
<1>2. CASE RowsOf(calls[c].dev) = {} /\ calls[c].op = "register" /\ calls' = To(c, "insert")
           /\ UNCHANGED <<database, node, begun, history>>
  BY <1>2 DEF LoadRow
<1>3. ASSUME NEW i \in RowsOf(calls[c].dev), RowsOf(calls[c].dev) = {i},
             ~\E j \in DOMAIN rows \ RowsOf(calls[c].dev) : rows[j].key = calls[c].key,
             NEW at, at = AtOf(c, i),
             calls' = [calls EXCEPT
                   ![c].seen = Loaded(RowsOf(calls[c].dev)), ![c].row = i, ![c].at = at,
                   ![c].mine = IF at \in {"gone", "remove"}
                               THEN Only(i, [rows[i] EXCEPT !.active = FALSE]) ELSE Loaded(RowsOf(calls[c].dev))]
      PROVE  LoadsRow(c, i)
  BY <1>3 DEF LoadsRow
<1>4. CASE /\ UNCHANGED <<database, node, begun, history>>
           /\ \E i \in RowsOf(calls[c].dev) :
             /\ RowsOf(calls[c].dev) = {i}
             /\ ~\E j \in DOMAIN rows \ RowsOf(calls[c].dev) : rows[j].key = calls[c].key
             /\ LET at == IF calls[c].op = "drop"
                          THEN IF rows[i].peer # 0 THEN "remove" ELSE "gone"
                          ELSE IF rows[i].peer # 0 /\ rows[i].key # calls[c].key THEN "replace" ELSE "set" IN
                calls' = [calls EXCEPT
                   ![c].seen = Loaded(RowsOf(calls[c].dev)), ![c].row = i, ![c].at = at,
                   ![c].mine = IF at \in {"gone", "remove"}
                               THEN Only(i, [rows[i] EXCEPT !.active = FALSE]) ELSE Loaded(RowsOf(calls[c].dev))]
  <2>1. \E i : LoadsRow(c, i)
    BY <1>3, <1>4, ZenonT(60) DEF AtOf
  <2>. QED
    BY <1>4, <2>1 DEF LoadRow
<1>. QED
  BY <1>1, <1>2, <1>4 DEF LoadRow

LEMMA LoadsRowIs ==
  ASSUME TunnelInv, NEW c \in DOMAIN calls, NEW i, LoadsRow(c, i)
  PROVE  /\ OneMoves(c) /\ DOMAIN calls' = DOMAIN calls
         /\ DOMAIN calls'[c] = DOMAIN calls[c] /\ calls'[c].op = calls[c].op
         /\ calls'[c].dev = calls[c].dev /\ calls'[c].key = calls[c].key /\ calls'[c].row = i
         /\ calls'[c].at = AtOf(c, i) /\ calls'[c].todo = calls[c].todo /\ calls'[c].got = calls[c].got
         /\ i \in DOMAIN rows /\ rows[i].dev = calls[c].dev
         /\ DOMAIN calls'[c].seen = {i} /\ calls'[c].seen[i] = rows[i]
         /\ DOMAIN calls'[c].mine = {i}
         /\ calls'[c].mine[i] = IF AtOf(c, i) \in {"gone", "remove"}
                                THEN [rows[i] EXCEPT !.active = FALSE] ELSE rows[i]
<1>1. PICK x, y : x = calls[c] /\ y = calls'[c]
  OBVIOUS
<1>2. PICK mine : mine = IF AtOf(c, i) \in {"gone", "remove"}
                         THEN Only(i, [rows[i] EXCEPT !.active = FALSE]) ELSE Loaded({i})
  OBVIOUS
<1>3. /\ OneMoves(c) /\ DOMAIN calls' = DOMAIN calls
      /\ y = [x EXCEPT !.seen = Loaded({i}), !.row = i, !.at = AtOf(c, i), !.mine = mine]
  BY <1>1, <1>2 DEF LoadsRow, OneMoves
<1>4. OnLine(x)
  BY <1>1, CallIs
<1>5. /\ DOMAIN y = DOMAIN x /\ y.op = x.op /\ y.dev = x.dev /\ y.key = x.key /\ y.row = i
      /\ y.at = AtOf(c, i) /\ y.todo = x.todo /\ y.got = x.got /\ y.seen = Loaded({i}) /\ y.mine = mine
  BY <1>3, <1>4 DEF OnLine
<1>6. i \in DOMAIN rows /\ rows[i].dev = x.dev
  BY <1>1 DEF LoadsRow, RowsOf
<1>7. DOMAIN Loaded({i}) = {i} /\ Loaded({i})[i] = rows[i]
  BY LoadedIs
<1>8. /\ DOMAIN Only(i, [rows[i] EXCEPT !.active = FALSE]) = {i}
      /\ Only(i, [rows[i] EXCEPT !.active = FALSE])[i] = [rows[i] EXCEPT !.active = FALSE]
  BY DEF Only
<1>9. DOMAIN mine = {i} /\ mine[i] = IF AtOf(c, i) \in {"gone", "remove"}
                                     THEN [rows[i] EXCEPT !.active = FALSE] ELSE rows[i]
  <2>1. CASE AtOf(c, i) \in {"gone", "remove"}
    BY <1>2, <1>8, <2>1
  <2>2. CASE AtOf(c, i) \notin {"gone", "remove"}
    BY <1>2, <1>7, <2>2
  <2>. QED
    BY <2>1, <2>2
<1>. QED
  BY <1>1, <1>3, <1>5, <1>6, <1>7, <1>9

LEMMA StepLoadRow ==
  ASSUME TunnelInv, NEW c \in DOMAIN calls, LoadRow(c)
  PROVE  TunnelInv'
<1>1. /\ calls[c].at = "load" /\ UNCHANGED <<account, device, live, raw, rows, lock, store, nextPeer, excused>>
      /\ \/ calls' = Ended(c)
         \/ RowsOf(calls[c].dev) = {} /\ calls[c].op = "register" /\ calls' = To(c, "insert")
         \/ \E i : LoadsRow(c, i)
  BY LoadRowIs DEF database, node, history
<1>2. Plainly'
  BY <1>1 DEF TunnelInv, Plainly
<1>3. CASE calls' = Ended(c)
  BY <1>1, <1>2, <1>3, NothingDone
<1>4. PICK x : x = calls[c]
  OBVIOUS
<1>5. /\ CallTrue(x, DOMAIN rows, store, nextPeer, excused) /\ c \in Slot
      /\ x.op \in {"register", "drop"} /\ x.at = "load" /\ x.got = 0 /\ x.dev \in Device
      /\ x.op = "register" => x.key \in Key
  BY <1>1, <1>4, CallIs DEF OnLine, AddTrue
<1>6. CASE calls' = To(c, "insert") /\ calls[c].op = "register"
  <2>1. PICK y : y = calls'[c]
    OBVIOUS
  <2>2. /\ OneMoves(c) /\ SameCall(x, y, "insert") /\ y.todo = x.todo /\ y.got = x.got
        /\ y.seen = x.seen /\ y.mine = x.mine
    BY <1>4, <1>6, <2>1, ToIs
  <2>3. CallTrue(y, DOMAIN rows, store, nextPeer, excused)
    BY <1>4, <1>5, <1>6, <2>2 DEF CallTrue, OnLine, Session, Changed, AddTrue, SameCall, WithRow, Adding
  <2>. QED
    BY <1>1, <1>2, <1>5, <2>1, <2>2, <2>3, OnlyItself
<1>7. ASSUME NEW i, LoadsRow(c, i)
      PROVE  TunnelInv'
  <2>1. PICK y, at : y = calls'[c] /\ at = AtOf(c, i)
    OBVIOUS
  <2>2. /\ OneMoves(c) /\ DOMAIN y = DOMAIN x /\ y.op = x.op /\ y.dev = x.dev /\ y.key = x.key
        /\ y.row = i /\ y.at = at /\ y.todo = x.todo /\ y.got = x.got
        /\ i \in DOMAIN rows /\ DOMAIN y.seen = {i} /\ y.seen[i] = rows[i] /\ DOMAIN y.mine = {i}
        /\ y.mine[i] = IF at \in {"gone", "remove"} THEN [rows[i] EXCEPT !.active = FALSE] ELSE rows[i]
    BY <1>4, <1>7, <2>1, LoadsRowIs
  <2>3. RowTrue(rows[i], store, nextPeer, excused) /\ rows[i] \in Row
    BY <2>2 DEF TunnelInv, RowsTrue, RowTrue
  <2>4. /\ at \in {"gone", "remove", "replace", "set"} /\ (at \in {"replace", "set"} => x.op = "register")
        /\ at = "set" /\ rows[i].peer # 0 => rows[i].key = x.key
    BY <1>4, <1>5, <2>1 DEF AtOf
  <2>5. /\ y.mine[i].peer = rows[i].peer /\ y.mine[i].key = rows[i].key
        /\ RowTrue(y.mine[i], store, nextPeer, excused)
    BY <2>2, <2>3 DEF RowTrue, Row
  <2>6. Session(y, DOMAIN rows, store, nextPeer, excused)
    BY <2>2, <2>3, <2>5 DEF Session, Changed
  <2>7. OnLine(y)
    BY <1>5, <2>2, <2>4 DEF CallTrue, OnLine, WithRow
  <2>8. AddTrue(y, store, nextPeer, excused)
    BY <1>5, <2>2, <2>4, <2>5 DEF CallTrue, AddTrue, Adding
  <2>9. CallTrue(y, DOMAIN rows, store, nextPeer, excused)
    BY <2>6, <2>7, <2>8 DEF CallTrue
  <2>. QED
    BY <1>1, <1>2, <1>5, <2>1, <2>2, <2>9, OnlyItself
<1>. QED
  BY <1>1, <1>3, <1>6, <1>7

LEMMA StepInsert ==
  ASSUME TunnelInv, NEW c \in DOMAIN calls, Insert(c)
  PROVE  TunnelInv'
<1>1. /\ calls[c].at = "insert" /\ UNCHANGED <<account, device, live, raw, lock, store, nextPeer, excused>>
  BY DEF Insert, Fail, database, node, history
<1>2. Plainly'
  BY <1>1 DEF TunnelInv, Plainly
<1>3. CASE Fail(c)
  BY <1>1, <1>2, <1>3, NothingDone DEF Fail, database
<1>4. PICK x : x = calls[c]
  OBVIOUS
<1>5. /\ CallTrue(x, DOMAIN rows, store, nextPeer, excused) /\ c \in Slot
      /\ x.op = "register" /\ x.at = "insert" /\ x.got = 0 /\ x.dev \in Device
      /\ x.key \in Key /\ x.todo = {}
  BY <1>1, <1>4, CallIs DEF OnLine, AddTrue
<1>6. ASSUME NEW i, i = Cardinality(DOMAIN rows) + 1, NEW new, new = NewRow(x.dev, x.key),
             ~\E j \in DOMAIN rows : rows[j].key = x.key,
             rows' = Put(rows, i, new),
             calls' = [calls EXCEPT ![c].row = i, ![c].at = "add",
                                    ![c].seen = Only(i, new), ![c].mine = Only(i, new)]
      PROVE  TunnelInv'
  <2>1. PICK n \in Nat : DOMAIN rows = 1 .. n
    BY DEF TunnelInv, RowsTrue
  <2>2. i = n + 1 /\ i \notin DOMAIN rows
    BY <1>6, <2>1, FS_Interval
  <2>3. /\ DOMAIN rows' = 1 .. (n + 1) /\ DOMAIN rows \subseteq DOMAIN rows' /\ i \in DOMAIN rows'
        /\ rows'[i] = new /\ \A j \in DOMAIN rows : rows'[j] = rows[j]
    BY <1>6, <2>1, <2>2 DEF Put
  <2>4. /\ NodeTrue(store, nextPeer, excused) /\ RowsTrue(rows, store, nextPeer, excused)
        /\ 0 \notin DOMAIN store /\ nextPeer \in Nat \ {0}
    BY DEF TunnelInv, NodeTrue, Peer
  <2>5. RowTrue(new, store, nextPeer, excused) /\ new.key = x.key /\ new.peer = 0
    BY <1>5, <1>6, <2>4, TunnelAssumption DEF NewRow, RowTrue, Row, Peer
  <2>6. RowsTrue(rows', store, nextPeer, excused)
    <3>1. \A j \in DOMAIN rows' : j = i \/ j \in DOMAIN rows
      BY <2>1, <2>2, <2>3
    <3>2. \A j \in DOMAIN rows' : RowTrue(rows'[j], store, nextPeer, excused)
      BY <2>3, <2>4, <2>5, <3>1 DEF RowsTrue
    <3>3. \A j, k \in DOMAIN rows' : rows'[j].key = rows'[k].key => j = k
      BY <1>6, <2>3, <2>4, <2>5, <3>1 DEF RowsTrue
    <3>. QED
      BY <2>1, <2>3, <3>2, <3>3 DEF RowsTrue
  <2>7. PICK y : y = calls'[c]
    OBVIOUS
  <2>8. OneMoves(c) /\ y = [x EXCEPT !.row = i, !.at = "add", !.seen = Only(i, new), !.mine = Only(i, new)]
    BY <1>4, <1>6, <2>7 DEF OneMoves
  <2>9. /\ DOMAIN y = DOMAIN x /\ y.op = x.op /\ y.dev = x.dev /\ y.key = x.key /\ y.row = i
        /\ y.at = "add" /\ y.todo = x.todo /\ y.got = x.got /\ y.seen = Only(i, new) /\ y.mine = Only(i, new)
    BY <1>5, <2>8 DEF CallTrue, OnLine
  <2>10. DOMAIN y.mine = {i} /\ DOMAIN y.seen = {i} /\ y.mine[i] = new /\ y.seen[i] = new
    BY <2>9 DEF Only
  <2>11. OnLine(y) /\ AddTrue(y, store, nextPeer, excused)
    BY <1>5, <2>9, <2>10 DEF CallTrue, OnLine, AddTrue, WithRow, Adding
  <2>12. Session(y, DOMAIN rows', store, nextPeer, excused)
    BY <2>3, <2>5, <2>10 DEF Session, Changed
  <2>13. CallTrue(calls'[c], DOMAIN rows', store, nextPeer, excused)
    BY <2>7, <2>11, <2>12 DEF CallTrue
  <2>14. LockTrue(lock', calls')
    BY <1>1, <2>8, LockStays
  <2>15. Later(store, nextPeer, excused, store, nextPeer, excused)
    BY <2>4 DEF Later
  <2>16. \A p \in DOMAIN store : calls[c].got # p
    BY <1>4, <1>5, <2>4
  <2>. QED
    BY <1>1, <1>2, <1>5, <2>3, <2>4, <2>6, <2>8, <2>13, <2>14, <2>15, <2>16, WholeIs
<1>7. CASE /\ ~\E j \in DOMAIN rows : rows[j].key = calls[c].key
           /\ rows' = Put(rows, Cardinality(DOMAIN rows) + 1, NewRow(calls[c].dev, calls[c].key))
           /\ calls' = [calls EXCEPT ![c].row = Cardinality(DOMAIN rows) + 1, ![c].at = "add",
                            ![c].seen = Only(Cardinality(DOMAIN rows) + 1, NewRow(calls[c].dev, calls[c].key)),
                            ![c].mine = Only(Cardinality(DOMAIN rows) + 1, NewRow(calls[c].dev, calls[c].key))]
  BY <1>4, <1>6, <1>7
<1>. QED
  BY <1>1, <1>3, <1>7 DEF Insert

\* A call at a line with a row has it, and the row is as the table says.
LEMMA RowIs ==
  ASSUME TunnelInv, NEW c \in DOMAIN calls, calls[c].at \in WithRow
  PROVE  /\ calls[c].row \in DOMAIN calls[c].mine /\ calls[c].row \in DOMAIN rows
         /\ calls[c].mine[calls[c].row] \in Row
         /\ RowTrue(calls[c].mine[calls[c].row], store, nextPeer, excused)
         /\ RowTrue(calls[c].seen[calls[c].row], store, nextPeer, excused)
         /\ Changed(calls[c], calls[c].row, store, excused)
BY CallIs DEF OnLine, RowTrue

\* A row that is handled with another activity, or without its peer.
LEMMA RowWithout ==
  ASSUME NEW st, NEW np \in Nat \ {0}, NEW ex, 0 \notin DOMAIN st, NEW r, RowTrue(r, st, np, ex)
  PROVE  /\ RowTrue([r EXCEPT !.peer = 0], st, np, ex)
         /\ [r EXCEPT !.peer = 0].peer = 0 /\ [r EXCEPT !.peer = 0].key = r.key
BY DEF RowTrue, Row

\* The peer of the row is removed from the node, and from the row.
LEMMA PeerGone ==
  ASSUME TunnelInv, NEW c \in DOMAIN calls, NEW at,
         calls[c].at \in {"replace", "remove"}, at \in {"set", "gone"}, at = "set" => calls[c].op = "register",
         RemovePeer(calls[c].mine[calls[c].row].peer),
         calls' = Change(c, calls[c].row, [calls[c].mine[calls[c].row] EXCEPT !.peer = 0], at),
         UNCHANGED <<account, device, rows, lock>>
  PROVE  TunnelInv'
<1>. DEFINE i == calls[c].row
            row == [calls[c].mine[i] EXCEPT !.peer = 0]
<1>1. /\ i \in DOMAIN calls[c].mine /\ RowTrue(calls[c].mine[i], store, nextPeer, excused)
      /\ Changed(calls[c], i, store, excused) /\ calls[c].got = 0 /\ c \in Slot
  BY RowIs, CallIs DEF WithRow, AddTrue
<1>2. /\ nextPeer' = nextPeer /\ NodeTrue(store', nextPeer', excused')
      /\ Later(store, nextPeer, excused, store', nextPeer', excused')
      /\ live' \subseteq Key /\ raw' \in [Key -> Nat]
      /\ DOMAIN store' \subseteq DOMAIN store
      /\ Missing(calls[c].mine[i].peer, store', excused')
  BY RemovedIs
<1>3. nextPeer \in Nat \ {0} /\ 0 \notin DOMAIN store /\ 0 \notin DOMAIN store'
  BY <1>2 DEF TunnelInv, NodeTrue, Peer
<1>4. RowTrue(row, store, nextPeer, excused) /\ row.peer = 0 /\ row.key = calls[c].mine[i].key
  BY <1>1, <1>3, RowWithout
<1>5. RowTrue(row, store', nextPeer', excused')
  BY <1>2, <1>3, <1>4, RowStays
<1>6. calls[c].seen[i].peer # 0 => Missing(calls[c].seen[i].peer, store', excused')
  BY <1>1, <1>2, <1>3 DEF Changed, Missing, Later
<1>7. row.key = calls[c].seen[i].key
  BY <1>1, <1>4 DEF Changed
<1>8. calls' = Change(c, i, row, at)
  OBVIOUS
<1>. HIDE DEF i, row
<1>9. CallTrue(calls'[c], DOMAIN rows, store', nextPeer', excused')
  <2>1. row.peer # calls[c].seen[i].peer => row.peer = 0 /\ Missing(calls[c].seen[i].peer, store', excused')
    BY <1>4, <1>6
  <2>2. i = calls[c].row
    BY DEF i
  <2>. QED
    BY <1>1, <1>2, <1>3, <1>4, <1>5, <1>7, <1>8, <2>1, <2>2, ChangeTrue DEF WithRow, Adding
<1>10. OneMoves(c) /\ DOMAIN calls' = DOMAIN calls
  BY <1>1, <1>8, ChangeIs
<1>11. Plainly' /\ LockTrue(lock', calls')
  BY <1>2, <1>10, LockStays DEF TunnelInv, Plainly
<1>12. RowsTrue(rows', store', nextPeer', excused')
  <2>1. RowsTrue(rows, store, nextPeer, excused)
    BY DEF TunnelInv
  <2>2. \A j \in DOMAIN rows : RowTrue(rows[j], store', nextPeer', excused')
    BY <1>2, <1>3, <2>1, RowStays DEF RowsTrue
  <2>. QED
    BY <2>1, <2>2 DEF RowsTrue
<1>13. \A p \in DOMAIN store' : p \in DOMAIN store /\ calls[c].got # p
  BY <1>1, <1>2, <1>3
<1>. QED
  BY <1>1, <1>2, <1>9, <1>10, <1>11, <1>12, <1>13, WholeIs

LEMMA StepReplace ==
  ASSUME TunnelInv, NEW c \in DOMAIN calls, Replace(c)
  PROVE  TunnelInv'
<1>1. calls[c].op = "register"
  BY CallIs DEF Replace, OnLine
<1>. QED
  BY <1>1, PeerGone DEF Replace, database

LEMMA StepRemove ==
  ASSUME TunnelInv, NEW c \in DOMAIN calls, Remove(c)
  PROVE  TunnelInv'
BY PeerGone DEF Remove, database

LEMMA StepSet ==
  ASSUME TunnelInv, NEW c \in DOMAIN calls, Set(c)
  PROVE  TunnelInv'
<1>1. /\ calls[c].at = "set" /\ UNCHANGED <<account, device, live, raw, rows, lock, store, nextPeer, excused>>
  BY DEF Set, database, node
<1>2. Plainly'
  BY <1>1 DEF TunnelInv, Plainly
<1>3. CASE calls' = Ended(c)
  BY <1>1, <1>2, <1>3, NothingDone
<1>4. ASSUME NEW i, i = calls[c].row, NEW row, row = [calls[c].mine[i] EXCEPT !.key = calls[c].key, !.active = TRUE],
             calls' = Change(c, i, row, "save")
      PROVE  TunnelInv'
  <2>1. /\ i \in DOMAIN calls[c].mine /\ calls[c].mine[i] \in Row /\ calls[c].op = "register" /\ calls[c].key \in Key
        /\ RowTrue(calls[c].mine[i], store, nextPeer, excused)
        /\ Changed(calls[c], i, store, excused) /\ calls[c].got = 0 /\ c \in Slot
        /\ calls[c].mine[i].peer # 0 => calls[c].mine[i].key = calls[c].key
    BY <1>1, <1>4, RowIs, CallIs DEF WithRow, AddTrue, OnLine
  <2>2. nextPeer \in Nat /\ 0 \notin DOMAIN store /\ Later(store, nextPeer, excused, store, nextPeer, excused)
    BY DEF TunnelInv, NodeTrue, Peer, Later
  <2>3. row \in Row /\ row.peer = calls[c].mine[i].peer /\ row.key = calls[c].key
    BY <1>4, <2>1 DEF Row
  <2>4. RowTrue(row, store, nextPeer, excused)
    BY <2>1, <2>2, <2>3 DEF RowTrue
  <2>5. /\ row.peer # calls[c].seen[i].peer => row.peer = 0 /\ Missing(calls[c].seen[i].peer, store, excused)
        /\ row.key # calls[c].seen[i].key => i = calls[c].row /\ row.peer = 0
    BY <1>1, <1>4, <2>1, <2>3 DEF Changed
  <2>6. CallTrue(calls'[c], DOMAIN rows, store, nextPeer, excused)
    BY <1>1, <1>4, <2>1, <2>2, <2>4, <2>5, ChangeTrue, ZenonT(60) DEF WithRow, Adding
  <2>7. OneMoves(c)
    BY <1>4, <2>1, ChangeIs
  <2>. QED
    BY <1>1, <1>2, <2>1, <2>6, <2>7, OnlyItself
<1>. QED
  BY <1>1, <1>3, <1>4 DEF Set

\* A session that has saved row i.
SavedRow(x, y, i, row) ==
  /\ SameCall(x, y, "add") /\ y.todo = x.todo /\ y.got = x.got
  /\ DOMAIN y.mine = DOMAIN x.mine /\ DOMAIN y.seen = DOMAIN x.mine
  /\ y.mine[i] = row /\ y.seen[i] = row
  /\ \A j \in DOMAIN x.mine : j # i => y.mine[j] = x.mine[j] /\ y.seen[j] = x.seen[j]

LEMMA SavedIs ==
  ASSUME TunnelInv, NEW c \in DOMAIN calls, NEW i \in DOMAIN calls[c].mine, NEW row,
         calls' = [calls EXCEPT ![c].seen[i] = row, ![c].mine[i] = row, ![c].at = "add"]
  PROVE  OneMoves(c) /\ DOMAIN calls' = DOMAIN calls /\ SavedRow(calls[c], calls'[c], i, row)
<1>1. PICK x, y : x = calls[c] /\ y = calls'[c]
  OBVIOUS
<1>2. /\ OneMoves(c) /\ DOMAIN calls' = DOMAIN calls
      /\ y = [x EXCEPT !.seen = [x.seen EXCEPT ![i] = row], !.mine = [x.mine EXCEPT ![i] = row], !.at = "add"]
  BY <1>1 DEF OneMoves
<1>3. OnLine(x) /\ DOMAIN x.seen = DOMAIN x.mine /\ i \in DOMAIN x.mine
  BY <1>1, CallIs
<1>4. /\ SameCall(x, y, "add") /\ y.todo = x.todo /\ y.got = x.got
      /\ y.seen = [x.seen EXCEPT ![i] = row] /\ y.mine = [x.mine EXCEPT ![i] = row]
  BY <1>2, <1>3 DEF OnLine, SameCall
<1>5. SavedRow(x, y, i, row)
  BY <1>3, <1>4 DEF SavedRow
<1>. QED
  BY <1>1, <1>2, <1>5

LEMMA StepSave ==
  ASSUME TunnelInv, NEW c \in DOMAIN calls, Save(c)
  PROVE  TunnelInv'
<1>1. /\ calls[c].at = "save" /\ UNCHANGED <<account, device, live, raw, lock, store, nextPeer>>
  BY DEF Save, Fail, Unchanged, database, node
<1>2. Plainly'
  BY <1>1 DEF TunnelInv, Plainly
<1>3. CASE Fail(c)
  BY <1>1, <1>2, <1>3, NothingDone DEF Fail, database, history
<1>4. ASSUME NEW i, i = calls[c].row, NEW row, row = Merged(c, i),
             ~\E j \in DOMAIN rows \ {i} : rows[j].key = row.key,
             rows' = [rows EXCEPT ![i] = row],
             excused' = excused \union Overwritten(c)
                          \union (IF row.key # rows[i].key /\ row.peer # calls[c].seen[i].peer
                                  THEN {row.peer} \ {0} ELSE {}),
             \/ calls' = Ended(c)
             \/ calls' = [calls EXCEPT ![c].seen[i] = row, ![c].mine[i] = row, ![c].at = "add"]
      PROVE  TunnelInv'
  <2>1. PICK x : x = calls[c]
    OBVIOUS
  <2>2. /\ x.at = "save" /\ i \in DOMAIN x.mine /\ i \in DOMAIN rows /\ x.row = i /\ x.got = 0
        /\ CallTrue(x, DOMAIN rows, store, nextPeer, excused)
        /\ Changed(x, i, store, excused) /\ c \in Slot
        /\ RowTrue(x.seen[i], store, nextPeer, excused) /\ RowTrue(x.mine[i], store, nextPeer, excused)
    BY <1>1, <1>4, <2>1, RowIs, CallIs DEF WithRow, AddTrue
  <2>3. /\ NodeTrue(store, nextPeer, excused) /\ RowsTrue(rows, store, nextPeer, excused)
        /\ 0 \notin DOMAIN store /\ nextPeer \in Nat \ {0}
    BY DEF TunnelInv, NodeTrue, Peer
  <2>4. /\ row \in Row
        /\ row.peer = IF x.mine[i].peer # x.seen[i].peer THEN x.mine[i].peer ELSE rows[i].peer
        /\ row.key = IF x.mine[i].key # x.seen[i].key THEN x.mine[i].key ELSE rows[i].key
    BY <1>4, <2>1, <2>2, MergedIs
  <2>5. RowTrue(rows[i], store, nextPeer, excused) /\ rows[i].peer \in {0} \union Peer
    BY <2>2, <2>3 DEF RowsTrue, RowTrue, Row
  <2>6. excused' \subseteq Peer /\ excused \subseteq excused' /\ Overwritten(c) \subseteq excused'
    <3>1. \A j \in DOMAIN rows : rows[j].peer \in {0} \union Peer
      BY <2>3 DEF RowsTrue, RowTrue, Row
    <3>2. DOMAIN calls[c].mine \subseteq DOMAIN rows
      BY CallIs
    <3>3. Overwritten(c) \subseteq Peer
      BY <3>1, <3>2 DEF Overwritten
    <3>4. row.peer \in {0} \union Peer
      BY <2>4 DEF Row
    <3>. QED
      BY <1>4, <2>3, <3>3, <3>4 DEF NodeTrue
  <2>7. NodeTrue(store, nextPeer, excused') /\ Later(store, nextPeer, excused, store, nextPeer, excused')
    BY <2>3, <2>6 DEF NodeTrue, Later
  <2>8. RowTrue(row, store, nextPeer, excused')
    <3>1. row.peer < nextPeer
      BY <2>2, <2>4, <2>5 DEF RowTrue
    <3>2. CASE row.peer = 0
      BY <2>3, <2>4, <3>1, <3>2 DEF RowTrue
    <3>3. CASE row.peer # 0
      <4>1. x.mine[i].peer = x.seen[i].peer /\ row.peer = rows[i].peer
        BY <2>2, <2>4, <3>3 DEF Changed
      <4>2. CASE row.key = rows[i].key
        BY <2>4, <2>5, <2>6, <3>1, <4>1, <4>2 DEF RowTrue
      <4>3. CASE row.key # rows[i].key
        <5>1. x.mine[i].peer = 0
          BY <2>2, <2>4, <4>3 DEF Changed
        <5>2. row.peer # calls[c].seen[i].peer
          BY <2>1, <3>3, <4>1, <5>1
        <5>3. row.peer \in excused'
          BY <1>4, <3>3, <4>3, <5>2
        <5>. QED
          BY <2>4, <3>1, <5>3 DEF RowTrue
      <4>. QED
        BY <4>2, <4>3
    <3>. QED
      BY <3>2, <3>3
  <2>9. DOMAIN rows' = DOMAIN rows /\ rows'[i] = row /\ \A j \in DOMAIN rows : j # i => rows'[j] = rows[j]
    BY <1>4, <2>2
  <2>10. RowsTrue(rows', store, nextPeer, excused')
    <3>1. ASSUME NEW j \in DOMAIN rows'
          PROVE  RowTrue(rows'[j], store, nextPeer, excused')
      <4>1. j # i => RowTrue(rows[j], store, nextPeer, excused')
        BY <2>3, <2>7, <2>9, RowStays DEF RowsTrue
      <4>. QED
        BY <2>8, <2>9, <4>1
    <3>2. \A j, k \in DOMAIN rows' : rows'[j].key = rows'[k].key => j = k
      BY <1>4, <2>3, <2>9 DEF RowsTrue
    <3>. QED
      BY <2>3, <2>9, <3>1, <3>2 DEF RowsTrue
  <2>11. rows[i].peer \in DOMAIN store => rows[i].peer \in excused' \/ rows'[i].peer = rows[i].peer
    <3>1. CASE x.mine[i].peer = x.seen[i].peer
      BY <2>4, <2>9, <3>1
    <3>2. CASE x.mine[i].peer # x.seen[i].peer
      <4>1. Missing(x.seen[i].peer, store, excused)
        BY <2>2, <3>2 DEF Changed
      <4>2. ASSUME rows[i].peer # x.seen[i].peer, rows[i].peer # 0
            PROVE  rows[i].peer \in Overwritten(c)
        BY <2>1, <2>2, <3>2, <4>2 DEF Overwritten
      <4>. QED
        BY <2>3, <2>6, <4>1, <4>2 DEF Missing
    <3>. QED
      BY <3>1, <3>2
  <2>12. OneMoves(c) /\ (c \in DOMAIN calls' => CallTrue(calls'[c], DOMAIN rows, store, nextPeer, excused'))
    <3>1. CASE calls' = Ended(c)
      BY <3>1, EndedIs
    <3>2. CASE calls' = [calls EXCEPT ![c].seen[i] = row, ![c].mine[i] = row, ![c].at = "add"]
      <4>1. PICK y : y = calls'[c]
        OBVIOUS
      <4>2. OneMoves(c) /\ SavedRow(x, y, i, row)
        <5>1. i \in DOMAIN calls[c].mine
          BY <2>1, <2>2
        <5>2. OneMoves(c) /\ SavedRow(calls[c], calls'[c], i, row)
          BY <3>2, <5>1, SavedIs, ZenonT(30)
        <5>. QED
          BY <2>1, <4>1, <5>2, ZenonT(20)
      <4>3. CallTrue(x, DOMAIN rows, store, nextPeer, excused')
        BY <2>2, <2>3, <2>7, CallStays
      <4>4. /\ DOMAIN y = DOMAIN x /\ y.op = x.op /\ y.dev = x.dev /\ y.key = x.key /\ y.row = i
            /\ y.at = "add" /\ y.todo = x.todo /\ y.got = x.got
        BY <2>2, <4>2 DEF SavedRow, SameCall
      <4>5. /\ DOMAIN y.mine = DOMAIN x.mine /\ DOMAIN y.seen = DOMAIN x.mine
            /\ y.mine[i] = row /\ y.seen[i] = row
            /\ \A j \in DOMAIN x.mine : j # i => y.mine[j] = x.mine[j] /\ y.seen[j] = x.seen[j]
        BY <4>2 DEF SavedRow
      <4>7. OnLine(y)
        BY <2>2, <4>4, <4>5 DEF CallTrue, OnLine, WithRow
      <4>8. AddTrue(y, store, nextPeer, excused')
        BY <2>2, <4>3, <4>4, <4>5 DEF CallTrue, AddTrue, Adding
      <4>9. ASSUME NEW j \in DOMAIN y.mine
            PROVE  /\ RowTrue(y.seen[j], store, nextPeer, excused') /\ RowTrue(y.mine[j], store, nextPeer, excused')
                   /\ Changed(y, j, store, excused')
        <5>1. CASE j = i
          BY <2>8, <4>5, <5>1 DEF Changed
        <5>2. CASE j # i
          <6>1. RowTrue(x.seen[j], store, nextPeer, excused') /\ RowTrue(x.mine[j], store, nextPeer, excused')
                /\ Changed(x, j, store, excused')
            BY <4>3, <4>5 DEF CallTrue, Session
          <6>2. y.mine[j] = x.mine[j] /\ y.seen[j] = x.seen[j]
            BY <4>5, <5>2
          <6>. QED
            BY <2>2, <5>2, <6>1, <6>2 DEF Changed
        <5>. QED
          BY <5>1, <5>2
      <4>10. Session(y, DOMAIN rows, store, nextPeer, excused')
        BY <4>3, <4>5, <4>9 DEF CallTrue, Session
      <4>. QED
        BY <4>1, <4>2, <4>7, <4>8, <4>10 DEF CallTrue
    <3>. QED
      BY <1>4, <3>1, <3>2
  <2>13. LockTrue(lock', calls')
    BY <1>1, <2>12, LockStays
  <2>14. \A p \in DOMAIN store : calls[c].got # p
    BY <2>1, <2>2, <2>3
  <2>15. \A p \in DOMAIN store, j \in DOMAIN rows : rows[j].peer = p =>
            p \in excused' \/ \E k \in DOMAIN rows' : rows'[k].peer = p
    BY <2>9, <2>11
  <2>. QED
    BY <1>1, <1>2, <2>2, <2>7, <2>9, <2>10, <2>12, <2>13, <2>14, <2>15, WholeIs
<1>5. CASE /\ ~\E j \in DOMAIN rows \ {calls[c].row} : rows[j].key = Merged(c, calls[c].row).key
           /\ rows' = [rows EXCEPT ![calls[c].row] = Merged(c, calls[c].row)]
           /\ excused' = excused \union Overwritten(c)
                          \union (IF /\ Merged(c, calls[c].row).key # rows[calls[c].row].key
                                     /\ Merged(c, calls[c].row).peer # calls[c].seen[calls[c].row].peer
                                  THEN {Merged(c, calls[c].row).peer} \ {0} ELSE {})
           /\ \/ calls' = Ended(c)
              \/ calls' = [calls EXCEPT ![c].seen[calls[c].row] = Merged(c, calls[c].row),
                                        ![c].mine[calls[c].row] = Merged(c, calls[c].row), ![c].at = "add"]
  BY <1>4, <1>5
<1>. QED
  BY <1>1, <1>3, <1>5 DEF Save

\* What the node gave to a call.
LEMMA ResultIs ==
  ASSUME TunnelInv, NEW c \in DOMAIN calls, NEW at, NEW got, GoesOn(c, at, got), at # "end"
  PROVE  /\ OneMoves(c) /\ DOMAIN calls' = DOMAIN calls /\ SameCall(calls[c], calls'[c], at)
         /\ calls'[c].todo = calls[c].todo /\ calls'[c].got = got
         /\ calls'[c].seen = calls[c].seen /\ calls'[c].mine = calls[c].mine
<1>1. PICK x, y : x = calls[c] /\ y = calls'[c]
  OBVIOUS
<1>2. OneMoves(c) /\ DOMAIN calls' = DOMAIN calls /\ y = [x EXCEPT !.at = at, !.got = got]
  BY <1>1 DEF OneMoves, GoesOn
<1>3. OnLine(x)
  BY <1>1, CallIs
<1>4. SameCall(x, y, at) /\ y.todo = x.todo /\ y.got = got /\ y.seen = x.seen /\ y.mine = x.mine
  BY <1>2, <1>3 DEF OnLine, SameCall
<1>. QED
  BY <1>1, <1>2, <1>4

\* A call that adds its key to the node, from "add" or "again".
LEMMA KeyAdded ==
  ASSUME TunnelInv, NEW c \in DOMAIN calls, calls[c].at \in {"add", "again"}, NEW else \in {"retry", "end"},
         AddPeer(c, calls[c].mine[calls[c].row].key, "store", else),
         UNCHANGED <<account, device, rows, lock>>
  PROVE  TunnelInv'
<1>1. PICK x : x = calls[c]
  OBVIOUS
<1>2. PICK i : i = x.row
  OBVIOUS
<1>3. /\ CallTrue(x, DOMAIN rows, store, nextPeer, excused) /\ x.at \in {"add", "again"} /\ x.got = 0 /\ c \in Slot
      /\ i \in DOMAIN x.mine /\ x.mine[i] \in Row /\ x.mine[i] = x.seen[i]
      /\ RowTrue(x.mine[i], store, nextPeer, excused)
  BY <1>1, <1>2, RowIs, CallIs DEF WithRow, AddTrue, Adding
<1>4. PICK k \in Key : k = x.mine[i].key
  BY <1>3 DEF Row
<1>5. AddPeer(c, k, "store", else)
  BY <1>1, <1>2, <1>4
<1>6. /\ NodeTrue(store', nextPeer', excused') /\ nextPeer \in Nat \ {0}
      /\ Later(store, nextPeer, excused, store', nextPeer', excused')
      /\ live' \subseteq Key /\ raw' \in [Key -> Nat]
      /\ \/ /\ GoesOn(c, else, 0)
            /\ \A p \in DOMAIN store' : p \in DOMAIN store \/ p \in excused'
         \/ /\ GoesOn(c, "store", nextPeer) /\ nextPeer' = nextPeer + 1 /\ excused' = excused
            /\ k \notin Keys(store) /\ nextPeer \in Peer
            /\ DOMAIN store' = DOMAIN store \union {nextPeer} /\ store'[nextPeer] = k
  BY <1>5, AddedIs
<1>7. Plainly'
  BY <1>6 DEF TunnelInv, Plainly
<1>8. RowsTrue(rows', store', nextPeer', excused')
  <2>1. RowsTrue(rows, store, nextPeer, excused) /\ nextPeer' \in Nat
    BY <1>6 DEF TunnelInv, NodeTrue
  <2>2. \A j \in DOMAIN rows : RowTrue(rows[j], store', nextPeer', excused')
    BY <1>6, <2>1, RowStays DEF RowsTrue
  <2>. QED
    BY <2>1, <2>2 DEF RowsTrue
<1>9. 0 \notin DOMAIN store' /\ nextPeer' \in Nat
  BY <1>6 DEF NodeTrue, Peer
<1>10. CallTrue(x, DOMAIN rows, store', nextPeer', excused')
  BY <1>3, <1>6, <1>9, CallStays
<1>11. \A p \in DOMAIN store' : calls[c].got # p
  BY <1>1, <1>3, <1>9
<1>12. ASSUME NEW at \in {"retry", "store"}, NEW got, calls' = [calls EXCEPT ![c].at = at, ![c].got = got]
       PROVE  /\ OneMoves(c) /\ DOMAIN calls' = DOMAIN calls /\ SameCall(x, calls'[c], at)
              /\ calls'[c].todo = x.todo /\ calls'[c].got = got
              /\ calls'[c].seen = x.seen /\ calls'[c].mine = x.mine
  <2>1. /\ OneMoves(c) /\ DOMAIN calls' = DOMAIN calls /\ SameCall(calls[c], calls'[c], at)
        /\ calls'[c].todo = calls[c].todo /\ calls'[c].got = got
        /\ calls'[c].seen = calls[c].seen /\ calls'[c].mine = calls[c].mine
    <3>1. GoesOn(c, at, got) /\ at # "end"
      BY <1>12 DEF GoesOn
    <3>. QED
      BY <3>1, ResultIs
  <2>. QED
    BY <1>1, <2>1
<1>13. CASE GoesOn(c, else, 0) /\ \A p \in DOMAIN store' : p \in DOMAIN store \/ p \in excused'
  <2>1. OneMoves(c) /\ (c \in DOMAIN calls' => CallTrue(calls'[c], DOMAIN rows, store', nextPeer', excused'))
    <3>1. CASE else = "end"
      BY <1>13, <3>1, EndedIs DEF GoesOn
    <3>2. CASE else = "retry"
      <4>1. calls' = [calls EXCEPT ![c].at = "retry", ![c].got = 0]
        BY <1>13, <3>2 DEF GoesOn
      <4>2. PICK y : y = calls'[c]
        OBVIOUS
      <4>3. /\ OneMoves(c) /\ SameCall(x, y, "retry") /\ y.todo = x.todo /\ y.got = 0
            /\ y.seen = x.seen /\ y.mine = x.mine
        BY <1>12, <4>1, <4>2
      <4>4. OnLine(y) /\ AddTrue(y, store', nextPeer', excused')
        BY <1>2, <1>3, <1>10, <4>3 DEF CallTrue, OnLine, AddTrue, WithRow, Adding, SameCall
      <4>5. Session(y, DOMAIN rows, store', nextPeer', excused')
        BY <1>3, <1>10, <4>3 DEF CallTrue, Session, Changed, SameCall
      <4>. QED
        BY <4>2, <4>3, <4>4, <4>5 DEF CallTrue
    <3>. QED
      BY <3>1, <3>2
  <2>2. LockTrue(lock', calls')
    BY <1>1, <1>3, <2>1, LockStays
  <2>. QED
    BY <1>3, <1>6, <1>7, <1>8, <1>11, <1>13, <2>1, <2>2, WholeIs
<1>14. CASE /\ GoesOn(c, "store", nextPeer) /\ nextPeer' = nextPeer + 1 /\ excused' = excused
            /\ k \notin Keys(store) /\ nextPeer \in Peer
            /\ DOMAIN store' = DOMAIN store \union {nextPeer} /\ store'[nextPeer] = k
  <2>1. calls' = [calls EXCEPT ![c].at = "store", ![c].got = nextPeer]
    BY <1>14 DEF GoesOn
  <2>2. PICK y : y = calls'[c]
    OBVIOUS
  <2>3. /\ OneMoves(c) /\ SameCall(x, y, "store") /\ y.todo = x.todo /\ y.got = nextPeer
        /\ y.seen = x.seen /\ y.mine = x.mine /\ DOMAIN calls' = DOMAIN calls
    BY <1>12, <2>1, <2>2
  <2>4. Missing(x.seen[i].peer, store', excused')
    <3>1. Missing(x.seen[i].peer, store, excused)
      <4>1. x.seen[i].peer \in DOMAIN store => x.seen[i].peer \in excused
        BY <1>3, <1>4, <1>14 DEF RowTrue, Keys
      <4>. QED
        BY <4>1 DEF Missing
    <3>2. x.seen[i].peer # nextPeer
      BY <1>3, <1>6 DEF RowTrue, Row, Peer
    <3>. QED
      BY <1>14, <3>1, <3>2 DEF Missing
  <2>5. OnLine(y)
    BY <1>2, <1>3, <1>10, <2>3 DEF CallTrue, OnLine, WithRow, SameCall
  <2>6. Session(y, DOMAIN rows, store', nextPeer', excused')
    BY <1>3, <1>10, <2>3 DEF CallTrue, Session, Changed, SameCall
  <2>7. AddTrue(y, store', nextPeer', excused')
    BY <1>2, <1>3, <1>4, <1>6, <1>14, <2>3, <2>4 DEF AddTrue, Adding, SameCall
  <2>8. CallTrue(calls'[c], DOMAIN rows, store', nextPeer', excused') /\ calls'[c].got = nextPeer
    BY <2>2, <2>3, <2>5, <2>6, <2>7 DEF CallTrue
  <2>9. LockTrue(lock', calls')
    BY <1>1, <1>3, <2>3, LockStays
  <2>10. \A p \in DOMAIN store' : p \in DOMAIN store \/ calls'[c].got = p
    BY <1>14, <2>8
  <2>. QED
    BY <1>3, <1>6, <1>7, <1>8, <1>11, <2>3, <2>8, <2>9, <2>10, WholeIs
<1>. QED
  BY <1>6, <1>13, <1>14

LEMMA StepAdd ==
  ASSUME TunnelInv, NEW c \in DOMAIN calls, Add(c)
  PROVE  TunnelInv'
BY KeyAdded DEF Add, database

LEMMA StepAddAgain ==
  ASSUME TunnelInv, NEW c \in DOMAIN calls, AddAgain(c)
  PROVE  TunnelInv'
BY KeyAdded DEF AddAgain, database

LEMMA StepRetry ==
  ASSUME TunnelInv, NEW c \in DOMAIN calls, Retry(c)
  PROVE  TunnelInv'
<1>1. PICK x : x = calls[c]
  OBVIOUS
<1>2. PICK i : i = x.row
  OBVIOUS
<1>3. /\ CallTrue(x, DOMAIN rows, store, nextPeer, excused) /\ x.at = "retry" /\ x.got = 0 /\ c \in Slot
      /\ i \in DOMAIN x.mine /\ x.mine[i] = x.seen[i]
  BY <1>1, <1>2, RowIs, CallIs DEF WithRow, AddTrue, Adding, Retry
<1>4. /\ nextPeer' = nextPeer /\ NodeTrue(store', nextPeer', excused')
      /\ Later(store, nextPeer, excused, store', nextPeer', excused')
      /\ live' \subseteq Key /\ raw' \in [Key -> Nat]
      /\ DOMAIN store' \subseteq DOMAIN store
      /\ Missing(x.mine[i].peer, store', excused')
  BY <1>1, <1>2, RemovedIs DEF Retry
<1>5. nextPeer \in Nat \ {0} /\ 0 \notin DOMAIN store /\ 0 \notin DOMAIN store'
  BY <1>4 DEF TunnelInv, NodeTrue, Peer
<1>6. Plainly' /\ UNCHANGED <<rows, lock>>
  BY <1>4 DEF Retry, database, TunnelInv, Plainly
<1>7. RowsTrue(rows', store', nextPeer', excused')
  <2>1. RowsTrue(rows, store, nextPeer, excused)
    BY DEF TunnelInv
  <2>2. \A j \in DOMAIN rows : RowTrue(rows[j], store', nextPeer', excused')
    BY <1>4, <1>5, <2>1, RowStays DEF RowsTrue
  <2>. QED
    BY <1>6, <2>1, <2>2 DEF RowsTrue
<1>8. CallTrue(x, DOMAIN rows, store', nextPeer', excused')
  BY <1>3, <1>4, <1>5, CallStays
<1>9. PICK y : y = calls'[c]
  OBVIOUS
<1>10. /\ OneMoves(c) /\ SameCall(x, y, "again") /\ y.todo = x.todo /\ y.got = x.got
       /\ y.seen = x.seen /\ y.mine = x.mine /\ DOMAIN calls' = DOMAIN calls
  BY <1>1, <1>9, ToIs DEF Retry
<1>11. OnLine(y) /\ Session(y, DOMAIN rows, store', nextPeer', excused')
  BY <1>2, <1>3, <1>8, <1>10 DEF CallTrue, OnLine, WithRow, Session, Changed, SameCall
<1>12. AddTrue(y, store', nextPeer', excused')
  BY <1>2, <1>3, <1>4, <1>10 DEF AddTrue, Adding, SameCall
<1>13. CallTrue(calls'[c], DOMAIN rows, store', nextPeer', excused')
  BY <1>9, <1>11, <1>12 DEF CallTrue
<1>14. LockTrue(lock', calls')
  BY <1>1, <1>3, <1>6, <1>10, LockStays
<1>15. \A p \in DOMAIN store' : p \in DOMAIN store /\ calls[c].got # p
  BY <1>1, <1>3, <1>4, <1>5
<1>. QED
  BY <1>3, <1>4, <1>6, <1>7, <1>10, <1>13, <1>14, <1>15, WholeIs

LEMMA StepStore ==
  ASSUME TunnelInv, NEW c \in DOMAIN calls, Store(c)
  PROVE  TunnelInv'
<1>1. PICK x : x = calls[c]
  OBVIOUS
<1>2. PICK i : i = x.row
  OBVIOUS
<1>3. /\ x.at = "store" /\ c \in Slot /\ i \in DOMAIN rows /\ x.got \in Peer /\ x.got < nextPeer
      /\ Missing(x.seen[i].peer, store, excused) /\ x.got # 0
      /\ x.got \in DOMAIN store => store[x.got] = x.seen[i].key
  BY <1>1, <1>2, RowIs, CallIs DEF WithRow, AddTrue, Adding, Store
<1>4. /\ NodeTrue(store, nextPeer, excused) /\ RowsTrue(rows, store, nextPeer, excused)
      /\ 0 \notin DOMAIN store /\ nextPeer \in Nat \ {0}
  BY DEF TunnelInv, NodeTrue, Peer
<1>5. RowTrue(rows[i], store, nextPeer, excused) /\ rows[i] \in Row /\ rows[i].peer \in {0} \union Peer
  BY <1>3, <1>4 DEF RowsTrue, RowTrue, Row
<1>6. /\ rows' = [rows EXCEPT ![i].peer = x.got] /\ calls' = Ended(c)
      /\ excused' = excused
           \union (IF rows[i].peer # x.seen[i].peer THEN {rows[i].peer} \ {0} ELSE {})
           \union (IF rows[i].key # x.seen[i].key THEN {x.got} ELSE {})
      /\ UNCHANGED <<account, device, lock, live, raw, store, nextPeer>>
  BY <1>1, <1>2 DEF Store, Unchanged, node
<1>7. excused' \subseteq Peer /\ excused \subseteq excused'
  BY <1>3, <1>4, <1>5, <1>6 DEF NodeTrue
<1>8. NodeTrue(store, nextPeer, excused') /\ Later(store, nextPeer, excused, store, nextPeer, excused')
  BY <1>4, <1>7 DEF NodeTrue, Later
<1>9. PICK row : row = [rows[i] EXCEPT !.peer = x.got]
  OBVIOUS
<1>10. row \in Row /\ row.peer = x.got /\ row.key = rows[i].key
  BY <1>3, <1>5, <1>9 DEF Row
<1>11. DOMAIN rows' = DOMAIN rows /\ rows'[i] = row /\ \A j \in DOMAIN rows : j # i => rows'[j] = rows[j]
  BY <1>3, <1>6, <1>9
<1>12. RowTrue(row, store, nextPeer, excused')
  BY <1>3, <1>6, <1>10 DEF RowTrue
<1>13. RowsTrue(rows', store, nextPeer, excused')
  <2>1. ASSUME NEW j \in DOMAIN rows'
        PROVE  RowTrue(rows'[j], store, nextPeer, excused')
    <3>1. j # i => RowTrue(rows[j], store, nextPeer, excused')
      BY <1>4, <1>8, <1>11, RowStays DEF RowsTrue
    <3>. QED
      BY <1>11, <1>12, <3>1
  <2>2. \A j, k \in DOMAIN rows' : rows'[j].key = rows'[k].key => j = k
    BY <1>4, <1>10, <1>11 DEF RowsTrue
  <2>. QED
    BY <1>4, <1>11, <2>1, <2>2 DEF RowsTrue
<1>14. ASSUME NEW p \in DOMAIN store, NEW j \in DOMAIN rows, rows[j].peer = p
       PROVE  p \in excused' \/ \E k \in DOMAIN rows' : rows'[k].peer = p
  <2>1. CASE j # i
    BY <1>11, <1>14, <2>1
  <2>2. CASE j = i /\ p = x.seen[i].peer
    BY <1>3, <1>7, <2>2 DEF Missing
  <2>3. CASE j = i /\ p # x.seen[i].peer
    BY <1>4, <1>6, <1>14, <2>3
  <2>. QED
    BY <2>1, <2>2, <2>3
<1>15. \E k \in DOMAIN rows' : rows'[k].peer = calls[c].got
  BY <1>1, <1>3, <1>10, <1>11
<1>16. OneMoves(c) /\ c \notin DOMAIN calls'
  BY <1>6, EndedIs
<1>17. Plainly' /\ LockTrue(lock', calls')
  BY <1>1, <1>3, <1>6, <1>16, LockStays DEF TunnelInv, Plainly
<1>. QED
  BY <1>3, <1>6, <1>8, <1>11, <1>13, <1>14, <1>15, <1>16, <1>17, WholeIs

LEMMA CommitWhole ==
  ASSUME TunnelInv, NEW c \in DOMAIN calls, NEW at, Commit(c, at),
         calls[c].at \in {"count", "off", "gone", "each", "finish"},
         at # "end" => calls[c].at \in {"count", "off", "gone"} /\ at \in {"mark", "next", "remove"},
         Plainly', lock' = None \/ (lock' = lock /\ calls[c].at # "each"), UNCHANGED <<store, nextPeer>>
  PROVE  TunnelInv'
<1>1. /\ rows' = Written(c) /\ excused' = excused \union Overwritten(c)
      /\ calls' = IF at = "end" THEN Ended(c) ELSE Committed(c, at)
  BY DEF Commit
<1>2. /\ DOMAIN rows' = DOMAIN rows /\ RowsTrue(rows', store, nextPeer, excused')
      /\ NodeTrue(store, nextPeer, excused')
      /\ Later(store, nextPeer, excused, store, nextPeer, excused')
      /\ \A i \in DOMAIN rows : rows[i].peer \in DOMAIN store =>
            rows[i].peer \in excused' \/ rows'[i].peer = rows[i].peer
  BY <1>1, CommitIs
<1>3. OneMoves(c) /\ (c \in DOMAIN calls' => CallTrue(calls'[c], DOMAIN rows, store, nextPeer, excused'))
  <2>1. CASE at = "end"
    BY <1>1, <2>1, EndedIs
  <2>2. CASE at # "end"
    BY <1>1, <1>2, <2>2, CommittedTrue
  <2>. QED
    BY <2>1, <2>2
<1>4. LockTrue(lock', calls')
  BY <1>3, LockStays DEF LockTrue
<1>5. \A p \in DOMAIN store : calls[c].got # p
  <2>1. calls[c].got = 0
    BY CallIs DEF AddTrue
  <2>. QED
    BY <2>1 DEF TunnelInv, NodeTrue, Peer
<1>6. \A p \in DOMAIN store, i \in DOMAIN rows : rows[i].peer = p =>
            p \in excused' \/ \E j \in DOMAIN rows' : rows'[j].peer = p
  BY <1>2
<1>7. c \in Slot
  BY CallIs
<1>. QED
  BY <1>2, <1>3, <1>4, <1>5, <1>6, <1>7, WholeIs

LEMMA StepFinish ==
  ASSUME TunnelInv, NEW c \in DOMAIN calls, Finish(c)
  PROVE  TunnelInv'
<1>1. /\ calls[c].at \in {"each", "finish"} /\ Commit(c, "end") /\ lock' = None
      /\ UNCHANGED <<live, raw, store, nextPeer>>
  BY DEF Finish, Unchanged, node
<1>2. /\ calls[c].op \in {"toggle", "revoke", "page"}
      /\ calls[c].op = "revoke" => calls[c].dev \in Device
  BY <1>1, CallIs DEF OnLine
<1>3. account \in [active : BOOLEAN, expired : BOOLEAN] /\ device \in [Device -> {"none", "active", "revoked"}]
  BY DEF TunnelInv, Plainly
<1>4. account' \in [active : BOOLEAN, expired : BOOLEAN] /\ device' \in [Device -> {"none", "active", "revoked"}]
  <2>1. CASE calls[c].op = "revoke"
    <3>1. device' = [device EXCEPT ![calls[c].dev] = "revoked"] /\ account' = account
      BY <2>1 DEF Finish
    <3>. QED
      BY <1>2, <1>3, <2>1, <3>1
  <2>2. CASE calls[c].op = "toggle"
    <3>1. account' = [account EXCEPT !.active = calls[c].at = "finish"] /\ device' = device
      BY <2>2 DEF Finish
    <3>2. (calls[c].at = "finish") \in BOOLEAN
      OBVIOUS
    <3>. QED
      BY <1>3, <3>1, <3>2
  <2>3. CASE calls[c].op = "page"
    <3>1. UNCHANGED <<account, device>>
      BY <2>3 DEF Finish
    <3>. QED
      BY <1>3, <3>1
  <2>. QED
    BY <1>2, <2>1, <2>2, <2>3
<1>5. Plainly'
  BY <1>1, <1>4 DEF TunnelInv, Plainly
<1>. QED
  BY <1>1, <1>5, CommitWhole

LEMMA StepCommits ==
  ASSUME TunnelInv, NEW c \in DOMAIN calls, Count(c) \/ Off(c) \/ Gone(c)
  PROVE  TunnelInv'
<1>1. PICK at : /\ Commit(c, at) /\ calls[c].at \in {"count", "off", "gone"}
                /\ at \in {"mark", "next", "remove", "end"}
                /\ UNCHANGED <<account, device, lock, live, raw, store, nextPeer>>
  BY DEF Count, Off, Gone, Unchanged, node
<1>2. Plainly'
  BY <1>1 DEF TunnelInv, Plainly
<1>. QED
  BY <1>1, <1>2, CommitWhole

LEMMA StepLocked ==
  ASSUME TunnelInv, NEW c \in DOMAIN calls, Locked(c)
  PROVE  TunnelInv'
<1>1. /\ calls[c].at # "each" /\ calls' = Ended(c) /\ excused' = excused \union ({calls[c].got} \ {0})
      /\ UNCHANGED <<account, device, live, raw, rows, lock, store, nextPeer>>
  BY DEF Locked, database, node
<1>2. OneMoves(c) /\ c \notin DOMAIN calls' /\ c \in Slot /\ calls[c].got \in {0} \union Peer
  BY <1>1, EndedIs, CallIs DEF AddTrue
<1>3. /\ NodeTrue(store, nextPeer, excused) /\ RowsTrue(rows, store, nextPeer, excused)
      /\ 0 \notin DOMAIN store /\ nextPeer \in Nat \ {0}
  BY DEF TunnelInv, NodeTrue, Peer
<1>4. NodeTrue(store, nextPeer, excused') /\ Later(store, nextPeer, excused, store, nextPeer, excused')
  BY <1>1, <1>2, <1>3 DEF NodeTrue, Later
<1>5. RowsTrue(rows, store, nextPeer, excused')
  BY <1>3, <1>4, RowStays DEF RowsTrue
<1>6. Plainly' /\ LockTrue(lock', calls')
  BY <1>1, <1>2, LockStays DEF TunnelInv, Plainly
<1>7. \A p \in DOMAIN store : calls[c].got = p => p \in excused'
  BY <1>1, <1>3
<1>. QED
  BY <1>1, <1>2, <1>4, <1>5, <1>6, <1>7, WholeIs

LEMMA StepNext1 ==
  ASSUME TunnelInv, NEW c \in DOMAIN calls, Next1(c)
  PROVE  TunnelInv'
<1>1. calls[c].at = "next" /\ UNCHANGED <<account, device, live, raw, rows, lock, store, nextPeer, excused>>
  BY DEF Next1, database, node, history
<1>2. Plainly'
  BY <1>1 DEF TunnelInv, Plainly
<1>3. CASE calls' = Ended(c)
  BY <1>1, <1>2, <1>3, NothingDone
<1>4. PICK x : x = calls[c]
  OBVIOUS
<1>5. CallTrue(x, DOMAIN rows, store, nextPeer, excused) /\ c \in Slot /\ x.at = "next" /\ x.got = 0
  BY <1>1, <1>4, CallIs DEF AddTrue
<1>6. PICK y : y = calls'[c]
  OBVIOUS
<1>7. CASE calls' = To(c, "finish") /\ calls[c].op = "page"
  <2>1. /\ OneMoves(c) /\ SameCall(x, y, "finish") /\ y.todo = x.todo /\ y.got = x.got
        /\ y.seen = x.seen /\ y.mine = x.mine
    BY <1>4, <1>6, <1>7, ToIs
  <2>2. CallTrue(y, DOMAIN rows, store, nextPeer, excused)
    BY <1>4, <1>5, <1>7, <2>1 DEF CallTrue, OnLine, Session, Changed, AddTrue, SameCall, WithRow, Adding
  <2>. QED
    BY <1>1, <1>2, <1>5, <1>6, <2>1, <2>2, OnlyItself
<1>8. ASSUME NEW i \in calls[c].todo, NEW at \in {"poll", "mark"},
             calls' = [calls EXCEPT ![c].row = i, ![c].todo = @ \ {i}, ![c].at = at]
      PROVE  TunnelInv'
  <2>1. OneMoves(c) /\ y = [x EXCEPT !.row = i, !.todo = x.todo \ {i}, !.at = at]
    BY <1>4, <1>6, <1>8 DEF OneMoves
  <2>2. /\ DOMAIN y = DOMAIN x /\ y.op = x.op /\ y.dev = x.dev /\ y.key = x.key /\ y.row = i
        /\ y.at = at /\ y.todo = x.todo \ {i} /\ y.got = x.got /\ y.seen = x.seen /\ y.mine = x.mine
    BY <1>5, <2>1 DEF CallTrue, OnLine
  <2>3. i \in DOMAIN x.mine
    BY <1>4, <1>5 DEF CallTrue, OnLine
  <2>4. OnLine(y)
    BY <1>5, <2>2, <2>3 DEF CallTrue, OnLine, WithRow
  <2>5. Session(y, DOMAIN rows, store, nextPeer, excused) /\ AddTrue(y, store, nextPeer, excused)
    BY <1>5, <2>2 DEF CallTrue, Session, Changed, AddTrue, Adding
  <2>. QED
    BY <1>1, <1>2, <1>5, <1>6, <2>1, <2>4, <2>5, OnlyItself DEF CallTrue
<1>. QED
  BY <1>1, <1>3, <1>7, <1>8 DEF Next1

LEMMA StepPoll ==
  ASSUME TunnelInv, NEW c \in DOMAIN calls, Poll(c)
  PROVE  TunnelInv'
<1>1. calls[c].at = "poll" /\ UNCHANGED <<account, device, live, raw, rows, lock, store, nextPeer, excused>>
  BY DEF Poll, database, node, history
<1>2. Plainly'
  BY <1>1 DEF TunnelInv, Plainly
<1>3. PICK x : x = calls[c]
  OBVIOUS
<1>4. PICK i : i = x.row
  OBVIOUS
<1>5. /\ CallTrue(x, DOMAIN rows, store, nextPeer, excused) /\ c \in Slot /\ x.at = "poll" /\ x.got = 0
      /\ i \in DOMAIN x.mine /\ x.mine[i] \in Row /\ Changed(x, i, store, excused)
      /\ RowTrue(x.mine[i], store, nextPeer, excused)
  BY <1>1, <1>3, <1>4, RowIs, CallIs DEF WithRow, AddTrue
<1>6. nextPeer \in Nat /\ Later(store, nextPeer, excused, store, nextPeer, excused)
  BY DEF TunnelInv, NodeTrue, Later
<1>7. ASSUME x.mine[i].peer \in DOMAIN store, NEW now, now = raw[store[x.mine[i].peer]], NEW row,
             row = [x.mine[i] EXCEPT !.used = @ + Delta(now, x.mine[i].last), !.last = now],
             NEW at \in {"next", "count"}, calls' = Change(c, i, row, at)
      PROVE  TunnelInv'
  <2>1. now \in Nat /\ x.mine[i].used \in Nat /\ x.mine[i].last \in Nat
    BY <1>5, <1>7 DEF TunnelInv, Plainly, NodeTrue, Row
  <2>2. x.mine[i].used + Delta(now, x.mine[i].last) \in Nat
    BY <2>1 DEF Delta
  <2>3. row \in Row /\ row.peer = x.mine[i].peer /\ row.key = x.mine[i].key
    BY <1>5, <1>7, <2>1, <2>2 DEF Row
  <2>4. RowTrue(row, store, nextPeer, excused)
    BY <1>5, <2>3 DEF RowTrue
  <2>5. /\ row.peer # x.seen[i].peer => row.peer = 0 /\ Missing(x.seen[i].peer, store, excused)
        /\ row.key = x.seen[i].key
    BY <1>5, <2>3 DEF Changed
  <2>6. CallTrue(calls'[c], DOMAIN rows, store, nextPeer, excused)
    <3>1. /\ i \in DOMAIN calls[c].mine /\ calls[c].at \in WithRow \ (Adding \union {"save"})
          /\ at \in {"set", "save", "count", "next", "off", "gone"} /\ at # "set"
      BY <1>1, <1>3, <1>5 DEF WithRow, Adding
    <3>2. /\ row.peer # calls[c].seen[i].peer => row.peer = 0 /\ Missing(calls[c].seen[i].peer, store, excused)
          /\ row.key = calls[c].seen[i].key
      BY <1>3, <2>5
    <3>. QED
      BY <1>6, <1>7, <2>4, <3>1, <3>2, ChangeTrue, ZenonT(60)
  <2>7. OneMoves(c)
    BY <1>3, <1>5, <1>7, ChangeIs
  <2>. QED
    BY <1>1, <1>2, <1>5, <2>6, <2>7, OnlyItself
<1>8. CASE calls' = To(c, "next")
  <2>1. PICK y : y = calls'[c]
    OBVIOUS
  <2>2. /\ OneMoves(c) /\ SameCall(x, y, "next") /\ y.todo = x.todo /\ y.got = x.got
        /\ y.seen = x.seen /\ y.mine = x.mine
    BY <1>3, <1>8, <2>1, ToIs
  <2>3. CallTrue(y, DOMAIN rows, store, nextPeer, excused)
    BY <1>5, <2>2 DEF CallTrue, OnLine, Session, Changed, AddTrue, SameCall, WithRow, Adding
  <2>. QED
    BY <1>1, <1>2, <1>5, <2>1, <2>2, <2>3, OnlyItself
<1>. QED
  BY <1>3, <1>4, <1>7, <1>8 DEF Poll

LEMMA StepMark ==
  ASSUME TunnelInv, NEW c \in DOMAIN calls, Mark(c)
  PROVE  TunnelInv'
<1>1. calls[c].at = "mark" /\ UNCHANGED <<account, device, live, raw, rows, lock, store, nextPeer, excused>>
  BY DEF Mark, database, node, history
<1>2. Plainly'
  BY <1>1 DEF TunnelInv, Plainly
<1>3. PICK i : i = calls[c].row
  OBVIOUS
<1>4. /\ c \in Slot /\ i \in DOMAIN calls[c].mine /\ calls[c].mine[i] \in Row /\ Changed(calls[c], i, store, excused)
      /\ RowTrue(calls[c].mine[i], store, nextPeer, excused)
  BY <1>1, <1>3, RowIs, CallIs DEF WithRow
<1>5. nextPeer \in Nat /\ Later(store, nextPeer, excused, store, nextPeer, excused)
  BY DEF TunnelInv, NodeTrue, Later
<1>6. PICK row : row = [calls[c].mine[i] EXCEPT !.active = FALSE]
  OBVIOUS
<1>7. row.peer = calls[c].mine[i].peer /\ row.key = calls[c].mine[i].key /\ RowTrue(row, store, nextPeer, excused)
  BY <1>4, <1>6 DEF RowTrue, Row
<1>8. calls' = Change(c, i, row, "off")
  BY <1>3, <1>6 DEF Mark
<1>9. /\ row.peer # calls[c].seen[i].peer => row.peer = 0 /\ Missing(calls[c].seen[i].peer, store, excused)
      /\ row.key = calls[c].seen[i].key
  BY <1>1, <1>4, <1>7 DEF Changed
<1>10. CallTrue(calls'[c], DOMAIN rows, store, nextPeer, excused)
  BY <1>1, <1>4, <1>5, <1>7, <1>8, <1>9, ChangeTrue DEF WithRow, Adding
<1>11. OneMoves(c)
  BY <1>4, <1>8, ChangeIs
<1>. QED
  BY <1>1, <1>2, <1>4, <1>10, <1>11, OnlyItself

LEMMA StepFlush ==
  ASSUME TunnelInv, NEW c \in DOMAIN calls, Flush(c)
  PROVE  TunnelInv'
<1>1. calls[c].at = "flush" /\ lock' = c /\ UNCHANGED <<account, device, live, raw, rows, store, nextPeer, excused>>
  BY DEF Flush, node, history
<1>2. Plainly'
  BY <1>1 DEF TunnelInv, Plainly
<1>3. PICK x : x = calls[c]
  OBVIOUS
<1>4. PICK y : y = calls'[c]
  OBVIOUS
<1>5. PICK ids : ids = IF calls[c].op = "revoke" THEN RowsOf(calls[c].dev) ELSE DOMAIN rows
  OBVIOUS
<1>6. PICK mine : mine = [i \in ids |-> [rows[i] EXCEPT !.active = FALSE]]
  OBVIOUS
<1>7. PICK todo : todo = {i \in ids : rows[i].peer # 0}
  OBVIOUS
<1>8. /\ CallTrue(x, DOMAIN rows, store, nextPeer, excused) /\ x.at = "flush" /\ x.got = 0 /\ c \in Slot
      /\ ids \subseteq DOMAIN rows
  BY <1>1, <1>3, <1>5, CallIs DEF AddTrue, RowsOf
<1>9. calls' = [calls EXCEPT ![c].seen = Loaded(ids), ![c].mine = mine, ![c].todo = todo, ![c].at = "each"]
  BY <1>5, <1>6, <1>7 DEF Flush
<1>10. OneMoves(c) /\ DOMAIN calls' = DOMAIN calls
       /\ y = [x EXCEPT !.seen = Loaded(ids), !.mine = mine, !.todo = todo, !.at = "each"]
  BY <1>3, <1>4, <1>9 DEF OneMoves
<1>11. /\ DOMAIN y = DOMAIN x /\ y.op = x.op /\ y.dev = x.dev /\ y.key = x.key /\ y.row = x.row
       /\ y.at = "each" /\ y.todo = todo /\ y.got = x.got /\ y.seen = Loaded(ids) /\ y.mine = mine
  BY <1>8, <1>10 DEF CallTrue, OnLine
<1>12. DOMAIN y.seen = ids /\ DOMAIN y.mine = ids /\ \A i \in ids : y.seen[i] = rows[i]
  BY <1>6, <1>11 DEF Loaded, Restrict
<1>13. ASSUME NEW i \in ids
       PROVE  /\ RowTrue(y.seen[i], store, nextPeer, excused) /\ RowTrue(y.mine[i], store, nextPeer, excused)
              /\ Changed(y, i, store, excused)
  <2>1. RowTrue(rows[i], store, nextPeer, excused) /\ rows[i] \in Row
    BY <1>8 DEF TunnelInv, RowsTrue, RowTrue
  <2>2. y.mine[i] = [rows[i] EXCEPT !.active = FALSE]
    BY <1>6, <1>11
  <2>3. y.mine[i] \in Row /\ y.mine[i].peer = rows[i].peer /\ y.mine[i].key = rows[i].key
    BY <2>1, <2>2 DEF Row
  <2>. QED
    BY <1>12, <2>1, <2>3 DEF RowTrue, Changed
<1>14. Session(y, DOMAIN rows, store, nextPeer, excused)
  BY <1>8, <1>12, <1>13 DEF Session
<1>15. OnLine(y) /\ AddTrue(y, store, nextPeer, excused)
  <2>1. todo \subseteq ids
    BY <1>7
  <2>2. x.op \notin {"register", "drop"}
    BY <1>8 DEF CallTrue, OnLine
  <2>. QED
    BY <1>8, <1>11, <1>12, <2>1, <2>2 DEF CallTrue, OnLine, AddTrue, WithRow, Adding
<1>16. LockTrue(lock', calls')
  BY <1>1, <1>4, <1>10, <1>11 DEF LockTrue
<1>17. CallTrue(calls'[c], DOMAIN rows, store, nextPeer, excused)
  BY <1>4, <1>14, <1>15 DEF CallTrue
<1>. QED
  BY <1>1, <1>2, <1>3, <1>8, <1>10, <1>16, <1>17, QuietIs

LEMMA StepEach ==
  ASSUME TunnelInv, NEW c \in DOMAIN calls, Each(c)
  PROVE  TunnelInv'
<1>1. calls[c].at = "each" /\ UNCHANGED <<account, device, rows, lock>>
  BY DEF Each, database
<1>2. PICK i \in calls[c].todo :
        /\ RemovePeer(calls[c].mine[i].peer)
        /\ calls' = [calls EXCEPT ![c].mine[i].peer = 0, ![c].todo = @ \ {i}]
  BY DEF Each
<1>3. PICK x : x = calls[c]
  OBVIOUS
<1>4. PICK y : y = calls'[c]
  OBVIOUS
<1>5. PICK row : row = [x.mine[i] EXCEPT !.peer = 0]
  OBVIOUS
<1>6. /\ CallTrue(x, DOMAIN rows, store, nextPeer, excused) /\ x.at = "each" /\ x.got = 0 /\ c \in Slot
      /\ i \in DOMAIN x.mine /\ RowTrue(x.mine[i], store, nextPeer, excused)
      /\ RowTrue(x.seen[i], store, nextPeer, excused) /\ Changed(x, i, store, excused)
  BY <1>1, <1>2, <1>3, CallIs DEF AddTrue, OnLine
<1>7. OneMoves(c) /\ DOMAIN calls' = DOMAIN calls
      /\ y = [x EXCEPT !.mine = [x.mine EXCEPT ![i] = [x.mine[i] EXCEPT !.peer = 0]], !.todo = x.todo \ {i}]
  BY <1>2, <1>3, <1>4 DEF OneMoves
<1>8. /\ DOMAIN y = DOMAIN x /\ y.op = x.op /\ y.dev = x.dev /\ y.key = x.key /\ y.row = x.row
      /\ y.at = "each" /\ y.todo = x.todo \ {i} /\ y.got = x.got /\ y.seen = x.seen
      /\ y.mine = [x.mine EXCEPT ![i] = row]
  BY <1>5, <1>6, <1>7 DEF CallTrue, OnLine
<1>9. DOMAIN y.mine = DOMAIN x.mine /\ y.mine[i] = row /\ \A j \in DOMAIN x.mine : j # i => y.mine[j] = x.mine[j]
  BY <1>6, <1>8
<1>10. /\ nextPeer' = nextPeer /\ NodeTrue(store', nextPeer', excused')
       /\ Later(store, nextPeer, excused, store', nextPeer', excused')
       /\ live' \subseteq Key /\ raw' \in [Key -> Nat]
       /\ DOMAIN store' \subseteq DOMAIN store
       /\ Missing(x.mine[i].peer, store', excused')
  BY <1>2, <1>3, RemovedIs
<1>11. nextPeer \in Nat \ {0} /\ 0 \notin DOMAIN store /\ 0 \notin DOMAIN store'
  BY <1>10 DEF TunnelInv, NodeTrue, Peer
<1>12. RowTrue(row, store', nextPeer', excused') /\ row.peer = 0 /\ row.key = x.mine[i].key
  <2>1. RowTrue(row, store, nextPeer, excused) /\ row.peer = 0 /\ row.key = x.mine[i].key
    BY <1>5, <1>6, <1>11, RowWithout
  <2>. QED
    BY <1>10, <1>11, <2>1, RowStays
<1>13. CallTrue(x, DOMAIN rows, store', nextPeer', excused')
  BY <1>6, <1>10, <1>11, CallStays
<1>14. ASSUME NEW j \in DOMAIN y.mine
       PROVE  /\ RowTrue(y.seen[j], store', nextPeer', excused') /\ RowTrue(y.mine[j], store', nextPeer', excused')
              /\ Changed(y, j, store', excused')
  <2>1. /\ RowTrue(x.seen[j], store', nextPeer', excused') /\ RowTrue(x.mine[j], store', nextPeer', excused')
        /\ Changed(x, j, store', excused')
    BY <1>9, <1>13 DEF CallTrue, Session
  <2>2. CASE j = i
    <3>1. x.seen[i].peer # 0 => Missing(x.seen[i].peer, store', excused')
      BY <1>10, <2>1, <2>2 DEF Changed
    <3>2. y.mine[j] = row /\ y.seen[j] = x.seen[i]
      BY <1>8, <1>9, <2>2
    <3>. QED
      BY <1>6, <1>12, <2>1, <2>2, <3>1, <3>2 DEF Changed
  <2>3. CASE j # i
    <3>1. y.mine[j] = x.mine[j] /\ y.seen[j] = x.seen[j]
      BY <1>8, <1>9, <2>3
    <3>. QED
      BY <1>6, <2>1, <3>1 DEF Changed
  <2>. QED
    BY <2>2, <2>3
<1>15. Session(y, DOMAIN rows, store', nextPeer', excused')
  BY <1>8, <1>9, <1>13, <1>14 DEF CallTrue, Session
<1>16. OnLine(y) /\ AddTrue(y, store', nextPeer', excused')
  BY <1>6, <1>8, <1>9 DEF CallTrue, OnLine, AddTrue, WithRow, Adding
<1>17. CallTrue(calls'[c], DOMAIN rows, store', nextPeer', excused')
  BY <1>4, <1>15, <1>16 DEF CallTrue
<1>18. LockTrue(lock', calls')
  <2>1. \A e \in DOMAIN calls : calls[e].at = "each" => calls'[e].at = "each"
    BY <1>4, <1>7, <1>8 DEF OneMoves
  <2>. QED
    BY <1>1, <1>7, <2>1 DEF TunnelInv, LockTrue
<1>19. Plainly'
  BY <1>1, <1>10 DEF TunnelInv, Plainly
<1>20. RowsTrue(rows', store', nextPeer', excused')
  <2>1. RowsTrue(rows, store, nextPeer, excused)
    BY DEF TunnelInv
  <2>2. \A j \in DOMAIN rows : RowTrue(rows[j], store', nextPeer', excused')
    BY <1>10, <1>11, <2>1, RowStays DEF RowsTrue
  <2>. QED
    BY <1>1, <2>1, <2>2 DEF RowsTrue
<1>21. \A p \in DOMAIN store' : p \in DOMAIN store /\ calls[c].got # p
  BY <1>3, <1>6, <1>10, <1>11
<1>. QED
  BY <1>1, <1>6, <1>7, <1>10, <1>17, <1>18, <1>19, <1>20, <1>21, WholeIs

\* A call begins.
LEMMA BegunIs ==
  ASSUME TunnelInv, NEW c \in Slot \ DOMAIN calls, NEW y, CallTrue(y, DOMAIN rows, store, nextPeer, excused),
         calls' = Put(calls, c, y), UNCHANGED <<database, node, excused>>
  PROVE  TunnelInv'
<1>1. OneMoves(c) /\ calls'[c] = y
  BY DEF Put, OneMoves
<1>2. Plainly' /\ UNCHANGED <<rows, lock, store, nextPeer, excused>>
  BY DEF database, node, TunnelInv, Plainly
<1>. QED
  BY <1>1, <1>2, OnlyItself

\* The rows a call begins with are those of the table.
LEMMA BeginIs ==
  ASSUME TunnelInv, NEW c \in Slot, NEW op, NEW d, NEW at, NEW ids, NEW loaded, NEW rest,
         ids \subseteq DOMAIN rows, DOMAIN loaded = ids, \A i \in ids : loaded[i] = rows[i],
         Begin(c, op, d, at, loaded, rest),
         rest.todo \subseteq ids,
         at \in {"bind", "rebind"} => op = "enroll" /\ d \in Device,
         at = "load" => op \in {"register", "drop"} /\ d \in Device,
         op = "register" => rest.key \in Key,
         op \in {"register", "drop"} => rest.todo = {},
         at = "flush" => op = "toggle" \/ (op = "revoke" /\ d \in Device),
         at = "finish" => op \in {"toggle", "page"},
         at = "add" => rest.row \in ids,
         at \in {"bind", "rebind", "load", "flush", "finish", "next", "add"}
  PROVE  TunnelInv'
<1>1. PICK y : y = [op |-> op, dev |-> d, at |-> at, key |-> rest.key, todo |-> rest.todo, row |-> rest.row,
                    got |-> 0, seen |-> loaded, mine |-> loaded]
  OBVIOUS
<1>2. c \notin DOMAIN calls /\ calls' = Put(calls, c, y) /\ UNCHANGED <<database, node, excused>>
  BY <1>1 DEF Begin
<1>3. /\ DOMAIN y = {"op", "dev", "at", "key", "todo", "row", "got", "seen", "mine"}
      /\ y.op = op /\ y.dev = d /\ y.at = at /\ y.key = rest.key /\ y.todo = rest.todo /\ y.row = rest.row
      /\ y.got = 0 /\ y.seen = loaded /\ y.mine = loaded
  BY <1>1
<1>4. OnLine(y)
  BY <1>3 DEF OnLine, WithRow
<1>5. Session(y, DOMAIN rows, store, nextPeer, excused)
  BY <1>3 DEF Session, Changed, TunnelInv, RowsTrue
<1>6. AddTrue(y, store, nextPeer, excused)
  BY <1>3 DEF AddTrue, Adding
<1>. QED
  BY <1>2, <1>4, <1>5, <1>6, BegunIs DEF CallTrue

LEMMA EmptyHanded ==
  /\ DOMAIN << >> = {}
  /\ \A i : Plain(i).key = None /\ Plain(i).todo = {} /\ Plain(i).row = i
  /\ \A k : [Plain(0) EXCEPT !.key = k].key = k /\ [Plain(0) EXCEPT !.key = k].todo = {}
  /\ \A t : [Plain(0) EXCEPT !.todo = t].todo = t /\ [Plain(0) EXCEPT !.todo = t].key = None
BY DEF Plain

LEMMA StartUser ==
  ASSUME TunnelInv, NEW c \in Slot,
         \/ \E d \in Device : Enroll(c, d) \/ Drop(c, d) \/ \E k \in Key : Register(c, d, k)
         \/ \E d, victim \in Device : Revoke(c, d, victim)
         \/ \E d \in {None} : Toggle(c, d)
  PROVE  TunnelInv'
<1>. DEFINE ids == {}
<1>1. ids \subseteq DOMAIN rows /\ DOMAIN << >> = ids /\ \A i \in ids : << >>[i] = rows[i]
  BY EmptyHanded
<1>. HIDE DEF ids
<1>2. ASSUME NEW d \in Device, NEW at \in {"bind", "rebind"}, Begin(c, "enroll", d, at, << >>, Plain(0))
      PROVE  TunnelInv'
  <2>1. Plain(0).todo \subseteq ids
    BY EmptyHanded
  <2>. QED
    BY <1>1, <1>2, <2>1, BeginIs
<1>3. ASSUME NEW d \in Device, Begin(c, "drop", d, "load", << >>, Plain(0))
      PROVE  TunnelInv'
  <2>1. Plain(0).todo = {} /\ Plain(0).todo \subseteq ids
    BY EmptyHanded
  <2>. QED
    BY <1>1, <1>3, <2>1, BeginIs
<1>4. ASSUME NEW d \in Device, NEW k \in Key,
             Begin(c, "register", d, "load", << >>, [Plain(0) EXCEPT !.key = k])
      PROVE  TunnelInv'
  <2>1. PICK rest : rest = [Plain(0) EXCEPT !.key = k]
    OBVIOUS
  <2>2. rest.todo = {} /\ rest.todo \subseteq ids /\ rest.key = k
    BY <2>1, EmptyHanded
  <2>3. Begin(c, "register", d, "load", << >>, rest)
    BY <1>4, <2>1
  <2>. QED
    BY <1>1, <2>2, <2>3, BeginIs
<1>5. ASSUME NEW d, NEW op, NEW at \in {"flush", "finish"}, Begin(c, op, d, at, << >>, Plain(0)),
             op = "toggle" \/ (op = "revoke" /\ d \in Device /\ at = "flush")
      PROVE  TunnelInv'
  <2>1. Plain(0).todo \subseteq ids
    BY EmptyHanded
  <2>. QED
    BY <1>1, <1>5, <2>1, BeginIs
<1>6. ASSUME NEW d \in Device, Enroll(c, d) PROVE TunnelInv'
  BY <1>2, <1>6 DEF Enroll
<1>7. ASSUME NEW d \in Device, Drop(c, d) PROVE TunnelInv'
  BY <1>3, <1>7 DEF Drop
<1>8. ASSUME NEW d \in Device, NEW k \in Key, Register(c, d, k) PROVE TunnelInv'
  BY <1>4, <1>8 DEF Register
<1>9. ASSUME NEW d \in Device, NEW victim \in Device, Revoke(c, d, victim) PROVE TunnelInv'
  BY <1>5, <1>9 DEF Revoke
<1>10. ASSUME Toggle(c, None) PROVE TunnelInv'
  BY <1>5, <1>10 DEF Toggle
<1>. QED
  BY <1>6, <1>7, <1>8, <1>9, <1>10

LEMMA StartJob ==
  ASSUME TunnelInv, NEW c \in Slot,
         \/ \E op \in Ops : Job(c, op)
         \/ \E i \in DOMAIN rows : Deactivate(c, i) \/ SyncSubscription(c, i)
  PROVE  TunnelInv'
<1>1. ASSUME NEW ids, NEW todo, ids \subseteq DOMAIN rows, todo \subseteq ids,
             NEW op \in {"expired", "traffic", "page", "deactivate"},
             Begin(c, op, None, "next", Loaded(ids), [Plain(0) EXCEPT !.todo = todo])
      PROVE  TunnelInv'
  <2>1. PICK rest : rest = [Plain(0) EXCEPT !.todo = todo]
    OBVIOUS
  <2>2. rest.todo \subseteq ids
    BY <1>1, <2>1, EmptyHanded
  <2>3. PICK loaded : loaded = Loaded(ids)
    OBVIOUS
  <2>4. DOMAIN loaded = ids /\ \A i \in ids : loaded[i] = rows[i]
    BY <2>3, LoadedIs
  <2>5. Begin(c, op, None, "next", loaded, rest)
    BY <1>1, <2>1, <2>3
  <2>. QED
    BY <1>1, <2>2, <2>4, <2>5, BeginIs
<1>2. ASSUME NEW op \in Ops, Job(c, op)
      PROVE  TunnelInv'
  <2>1. PICK ids : ids = {i \in DOMAIN rows : rows[i].active /\ (op = "expired" => account.expired)}
    OBVIOUS
  <2>2. PICK todo : todo = {i \in ids : op = "expired" \/ rows[i].peer # 0}
    OBVIOUS
  <2>3. op \in {"expired", "traffic", "page"} /\ Begin(c, op, None, "next", Loaded(ids), [Plain(0) EXCEPT !.todo = todo])
    BY <1>2, <2>1, <2>2 DEF Job
  <2>4. ids \subseteq DOMAIN rows /\ todo \subseteq ids
    BY <2>1, <2>2
  <2>. QED
    BY <1>1, <2>3, <2>4
<1>3. ASSUME NEW i \in DOMAIN rows, Deactivate(c, i) PROVE TunnelInv'
  BY <1>1, <1>3 DEF Deactivate
<1>4. ASSUME NEW i \in DOMAIN rows, SyncSubscription(c, i)
      PROVE  TunnelInv'
  <2>1. PICK loaded : loaded = Loaded({i})
    OBVIOUS
  <2>2. DOMAIN loaded = {i} /\ \A j \in {i} : loaded[j] = rows[j]
    BY <2>1, LoadedIs
  <2>3. Begin(c, "sync", None, "add", loaded, Plain(i)) /\ Plain(i).todo \subseteq {i} /\ Plain(i).row \in {i}
    BY <1>4, <2>1, EmptyHanded DEF SyncSubscription
  <2>. QED
    BY <2>2, <2>3, BeginIs
<1>. QED
  BY <1>2, <1>3, <1>4

LEMMA StartBonus ==
  ASSUME TunnelInv, NEW c \in Slot, NEW i \in DOMAIN rows, NEW less \in BOOLEAN, Bonus(c, i, less)
  PROVE  TunnelInv'
<1>1. PICK bonus : bonus = IF less THEN 0 ELSE rows[i].bonus + 1
  OBVIOUS
<1>2. PICK row : row = [rows[i] EXCEPT !.bonus = bonus]
  OBVIOUS
<1>3. PICK revive \in BOOLEAN :
        revive = (~row.active /\ ~account.expired /\ (TrafficLimit = 0 \/ row.used < TrafficLimit + bonus))
  OBVIOUS
<1>4. PICK next : next = [row EXCEPT !.active = @ \/ revive]
  OBVIOUS
<1>5. PICK y : y = [op |-> "bonus", dev |-> None, at |-> "save", key |-> None, todo |-> {}, row |-> i,
                    got |-> 0, seen |-> Only(i, rows[i]), mine |-> Only(i, next)]
  OBVIOUS
<1>6. /\ bonus <= MaxBonus /\ c \notin DOMAIN calls /\ calls' = Put(calls, c, y)
      /\ UNCHANGED <<database, node, excused>>
  BY <1>1, <1>2, <1>3, <1>4, <1>5 DEF Bonus
<1>7. RowTrue(rows[i], store, nextPeer, excused) /\ rows[i] \in Row
  BY DEF TunnelInv, RowsTrue, RowTrue
<1>8. bonus \in 0 .. MaxBonus
  <2>1. rows[i].bonus \in Nat
    BY <1>7, TunnelAssumption DEF Row
  <2>. QED
    BY <1>1, <1>6, <2>1, TunnelAssumption
<1>9. row \in Row /\ row.peer = rows[i].peer /\ row.key = rows[i].key /\ row.active \in BOOLEAN
  BY <1>2, <1>7, <1>8 DEF Row
<1>10. (row.active \/ revive) \in BOOLEAN
  OBVIOUS
<1>11. next \in Row /\ next.peer = rows[i].peer /\ next.key = rows[i].key
  BY <1>4, <1>9, <1>10 DEF Row
<1>12. RowTrue(next, store, nextPeer, excused)
  BY <1>7, <1>11 DEF RowTrue
<1>13. /\ DOMAIN y = {"op", "dev", "at", "key", "todo", "row", "got", "seen", "mine"}
       /\ y.op = "bonus" /\ y.at = "save" /\ y.todo = {} /\ y.row = i /\ y.got = 0
       /\ DOMAIN y.seen = {i} /\ DOMAIN y.mine = {i} /\ y.seen[i] = rows[i] /\ y.mine[i] = next
  BY <1>5 DEF Only
<1>14. OnLine(y) /\ AddTrue(y, store, nextPeer, excused)
  BY <1>13 DEF OnLine, WithRow, AddTrue, Adding
<1>15. Session(y, DOMAIN rows, store, nextPeer, excused)
  BY <1>7, <1>11, <1>12, <1>13 DEF Session, Changed
<1>. QED
  BY <1>6, <1>14, <1>15, BegunIs DEF CallTrue

LEMMA TheRest ==
  ASSUME TunnelInv, (\E k \in Key : Traffic(k)) \/ NodeRestart \/ Expire \/ Restart
  PROVE  TunnelInv'
<1>1. /\ NodeTrue(store, nextPeer, excused) /\ RowsTrue(rows, store, nextPeer, excused)
      /\ 0 \notin DOMAIN store /\ nextPeer \in Nat \ {0}
      /\ live \subseteq Key /\ raw \in [Key -> Nat]
      /\ account \in [active : BOOLEAN, expired : BOOLEAN]
  BY DEF TunnelInv, NodeTrue, Peer, Plainly
<1>2. CASE (\E k \in Key : Traffic(k)) \/ NodeRestart
  <2>1. live' \subseteq Key /\ raw' \in [Key -> Nat]
    <3>1. ASSUME NEW k \in Key, Traffic(k) PROVE live' \subseteq Key /\ raw' \in [Key -> Nat]
      BY <1>1, <3>1 DEF Traffic
    <3>2. ASSUME NodeRestart PROVE live' \subseteq Key /\ raw' \in [Key -> Nat]
      <4>1. Keys(store) \subseteq Key
        BY <1>1 DEF Keys, NodeTrue
      <4>. QED
        BY <1>1, <3>2, <4>1 DEF NodeRestart
    <3>. QED
      BY <1>2, <3>1, <3>2
  <2>2. UNCHANGED <<account, device, rows, lock, store, nextPeer, calls, excused>>
    BY <1>2 DEF Traffic, NodeRestart, database, history
  <2>. QED
    BY <2>1, <2>2 DEF TunnelInv, Plainly
<1>3. CASE Expire
  <2>1. UNCHANGED <<device, rows, lock, store, live, raw, nextPeer, calls, excused>>
    BY <1>3 DEF Expire, node, history
  <2>2. account' \in [active : BOOLEAN, expired : BOOLEAN]
    BY <1>1, <1>3 DEF Expire
  <2>. QED
    BY <2>1, <2>2 DEF TunnelInv, Plainly
<1>4. CASE Restart
  <2>1. /\ excused' = excused \union ({calls[c].got : c \in DOMAIN calls} \ {0})
        /\ calls' = << >> /\ lock' = None /\ UNCHANGED <<account, device, rows, store, live, raw, nextPeer>>
    BY <1>4 DEF Restart, node
  <2>2. \A c \in DOMAIN calls : calls[c].got \in {0} \union Peer
    BY CallIs DEF AddTrue
  <2>3. NodeTrue(store, nextPeer, excused') /\ Later(store, nextPeer, excused, store, nextPeer, excused')
    BY <1>1, <2>1, <2>2 DEF NodeTrue, Later
  <2>4. RowsTrue(rows, store, nextPeer, excused')
    BY <1>1, <2>3, RowStays DEF RowsTrue
  <2>5. DOMAIN calls' = {}
    BY <2>1
  <2>6. Accounted(rows, store, excused', calls')
    BY <1>1, <2>1 DEF TunnelInv, Accounted
  <2>7. CallsTrue(calls', DOMAIN rows, store, nextPeer, excused') /\ LockTrue(lock', calls')
    BY <2>1, <2>5 DEF CallsTrue, LockTrue
  <2>8. Plainly'
    BY <2>1 DEF TunnelInv, Plainly
  <2>. QED
    BY <2>1, <2>3, <2>4, <2>6, <2>7, <2>8 DEF TunnelInv
<1>. QED
  BY <1>2, <1>3, <1>4

LEMMA TunnelStep == TunnelInv /\ [Next]_vars => TunnelInv'
<1>. SUFFICES ASSUME TunnelInv, [Next]_vars PROVE TunnelInv'
  OBVIOUS
<1>1. ASSUME UNCHANGED vars PROVE TunnelInv'
  BY <1>1 DEF vars, TunnelInv, Plainly
<1>2. ASSUME NEW c \in Slot, Start(c) PROVE TunnelInv'
  BY <1>2, StartUser, StartJob, StartBonus DEF Start
<1>3. ASSUME NEW c \in DOMAIN calls, Step(c) PROVE TunnelInv'
  <2>1. ASSUME EnrollSave(c) \/ LoadRow(c) \/ Insert(c) \/ Replace(c) \/ Set(c) \/ Save(c)
        PROVE  TunnelInv'
    BY <2>1, StepEnrollSave, StepLoadRow, StepInsert, StepReplace, StepSet, StepSave
  <2>2. ASSUME Add(c) \/ Retry(c) \/ AddAgain(c) \/ Store(c) \/ Flush(c) \/ Each(c) \/ Finish(c)
        PROVE  TunnelInv'
    BY <2>2, StepAdd, StepRetry, StepAddAgain, StepStore, StepFlush, StepEach, StepFinish
  <2>3. ASSUME Next1(c) \/ Poll(c) \/ Count(c) \/ Mark(c) \/ Off(c) \/ Remove(c) \/ Gone(c) \/ Locked(c)
        PROVE  TunnelInv'
    BY <2>3, StepNext1, StepPoll, StepCommits, StepMark, StepRemove, StepLocked
  <2>. QED
    BY <1>3, <2>1, <2>2, <2>3 DEF Step
<1>. QED
  BY <1>1, <1>2, <1>3, TheRest DEF Next

LEMMA TunnelStarts == Init => TunnelInv
<1>. SUFFICES ASSUME Init PROVE TunnelInv
  OBVIOUS
<1>1. /\ DOMAIN rows = 1 .. 0 /\ DOMAIN store = {} /\ DOMAIN calls = {} /\ nextPeer = 1
      /\ excused = {} /\ lock = None
  BY DEF Init
<1>2. Plainly
  BY DEF Init, Plainly
<1>. QED
  BY <1>1, <1>2 DEF TunnelInv, LockTrue, NodeTrue, RowsTrue, CallsTrue, Accounted

LEMMA TunnelTypes == TunnelInv => TypeOK
<1>. SUFFICES ASSUME TunnelInv PROVE TypeOK
  OBVIOUS
<1>1. /\ \A i \in DOMAIN rows : rows[i] \in Row
      /\ \A i, j \in DOMAIN rows : rows[i].key = rows[j].key => i = j
  BY DEF TunnelInv, RowsTrue, RowTrue
<1>. QED
  BY <1>1 DEF TunnelInv, TypeOK, Plainly, NodeTrue, LockTrue

\* Whatever handlers and jobs run at once, and however the node fails or is restarted:
\* every peer of the node is named by a row, about to be named by the call that added
\* it, or lost in one of the ways that the code does not handle.
THEOREM NoUnexplainedOrphanHolds == Spec => []NoUnexplainedOrphan
<1>1. TunnelInv => NoUnexplainedOrphan
  BY TunnelTypes DEF TunnelInv, Accounted, NoUnexplainedOrphan, Named, Carried
<1>. QED
  BY <1>1, TunnelStarts, TunnelStep, PTL DEF Spec

-----------------------------------------------------------------------------
(***************************************************************************)
(* Who has a peer may have it, as long as nothing went wrong.  Then at most *)
(* one call runs, and its session knows the table as it is.                 *)
(***************************************************************************)
\* The devices that are enrolled in an active account.
Up == {d \in Device : device[d] = "active" /\ account.active}

Alike(r, q) == r.dev = q.dev /\ r.key = q.key /\ r.peer = q.peer /\ r.active = q.active

\* A row between calls.
Settled(r, st, up) ==
  /\ r.active => r.dev \in up
  /\ r.peer # 0 => r.active /\ r.peer \in DOMAIN st /\ st[r.peer] = r.key

Calm(ro, st, up) ==
  /\ \A i \in DOMAIN ro : Settled(ro[i], st, up)
  /\ \A p \in DOMAIN st : \E i \in DOMAIN ro : ro[i].peer = p

\* A row during call x, as its session has it.
View(x, i, ro) == IF i \in DOMAIN x.mine THEN x.mine[i] ELSE ro[i]
Unsettled(x, i, r, st, up) ==
  /\ r.active => r.dev \in up
  /\ r.peer # 0 =>
       /\ \/ r.active
          \/ x.at = "each" /\ i \in x.todo
          \/ x.at \in {"off", "remove"} /\ i = x.row
       /\ IF x.at \in {"again", "store"} /\ i = x.row THEN r.peer \notin DOMAIN st
          ELSE r.peer \in DOMAIN st /\ st[r.peer] = r.key

\* The lines at which the session has changed nothing that matters.
Level == {"next", "poll", "count", "mark", "finish", "replace", "add", "retry", "again", "store"}

Views(x, ro, st, up) == \A i \in DOMAIN ro : Unsettled(x, i, View(x, i, ro), st, up)

Sees(x, ro) ==
  \A i \in DOMAIN x.mine :
    /\ Alike(x.seen[i], ro[i]) /\ x.mine[i].dev = ro[i].dev
    /\ x.at \in Level \/ (i # x.row /\ x.at # "each") => Alike(x.mine[i], ro[i])
    /\ x.at # "save" => x.mine[i].key = ro[i].key

AllNamed(x, ro, st) ==
  \A p \in DOMAIN st : (\E i \in DOMAIN ro : View(x, i, ro).peer = p) \/ (x.at = "store" /\ p = x.got)

\* What a registration, a deactivation and a revocation have come to.
Registers(x, ro, st, up) ==
  /\ x.op = "register" => x.dev \in up
  /\ x.op = "register" /\ x.at \in {"replace", "set", "save"} =>
       ro[x.row].dev = x.dev /\ \A j \in DOMAIN ro \ {x.row} : ro[j].key # x.key
  /\ x.at \in {"replace", "retry"} => x.mine[x.row].peer # 0
  /\ x.at = "set" /\ x.mine[x.row].peer = x.seen[x.row].peer => Alike(x.mine[x.row], ro[x.row])
  /\ x.at = "save" => /\ \A j \in DOMAIN ro \ {x.row} : ro[j].key # x.mine[x.row].key
                      /\ x.op = "bonus" \/ x.mine[x.row].active
  /\ x.at \in {"replace", "set", "save"} \union Adding => DOMAIN x.mine = {x.row}
  /\ x.at \in Adding => ro[x.row].active
  /\ x.at = "again" => ro[x.row].key \notin Keys(st)
  /\ x.at = "store" => x.got \in DOMAIN st

Deactivates(x, ro) ==
  /\ x.at \in {"off", "remove", "gone"} => ~x.mine[x.row].active
  /\ x.at \in {"off", "remove"} => x.mine[x.row].peer = ro[x.row].peer
  /\ x.at = "remove" => x.mine[x.row].peer # 0
  /\ x.at = "gone" => x.mine[x.row].peer = 0

Revokes(x, ro) ==
  x.at = "each" =>
    /\ \A i \in DOMAIN x.mine : ~x.mine[i].active /\ (x.mine[i].peer # 0 <=> i \in x.todo)
    /\ \A i \in DOMAIN ro : x.op = "toggle" \/ ro[i].dev = x.dev => i \in DOMAIN x.mine

Account(x, ro, st, up) ==
  /\ Views(x, ro, st, up) /\ Sees(x, ro) /\ AllNamed(x, ro, st)
  /\ Registers(x, ro, st, up) /\ Deactivates(x, ro) /\ Revokes(x, ro)
  /\ x.at \in {"load", "insert", "flush", "bind", "rebind"} => DOMAIN x.mine = {}

Alone == "overlap" \notin clash => \A c, e \in DOMAIN calls : c = e

AccessInv ==
  /\ Alone
  /\ clash = {} =>
       /\ live = Keys(store)
       /\ DOMAIN calls = {} => Calm(rows, store, Up)
       /\ \A c \in DOMAIN calls : Account(calls[c], rows, store, Up)

-----------------------------------------------------------------------------
(* The one call, and what is true when it has moved or ended.                 *)
Quiet(c) ==
  /\ TunnelInv /\ clash = {} /\ clash' = {} /\ live = Keys(store)
  /\ c \in DOMAIN calls /\ DOMAIN calls = {c} /\ Account(calls[c], rows, store, Up)

Fine(c) ==
  /\ live' = Keys(store')
  /\ c \notin DOMAIN calls' => Calm(rows', store', Up')
  /\ c \in DOMAIN calls' => Account(calls'[c], rows', store', Up')

LEMMA QuietCall ==
  ASSUME NEW c, Quiet(c)
  PROVE  /\ TunnelInv /\ c \in DOMAIN calls /\ c \in Slot
         /\ CallTrue(calls[c], DOMAIN rows, store, nextPeer, excused)
         /\ OnLine(calls[c]) /\ AddTrue(calls[c], store, nextPeer, excused)
         /\ DOMAIN calls[c].seen = DOMAIN calls[c].mine /\ DOMAIN calls[c].mine \subseteq DOMAIN rows
         /\ Views(calls[c], rows, store, Up) /\ Sees(calls[c], rows) /\ AllNamed(calls[c], rows, store)
         /\ Registers(calls[c], rows, store, Up) /\ Deactivates(calls[c], rows) /\ Revokes(calls[c], rows)
         /\ live = Keys(store) /\ 0 \notin DOMAIN store
         /\ calls[c].at \in WithRow => calls[c].row \in DOMAIN calls[c].mine
<1>1. TunnelInv /\ c \in DOMAIN calls
  BY DEF Quiet
<1>2. 0 \notin DOMAIN store
  BY <1>1 DEF TunnelInv, NodeTrue, Peer
<1>. QED
  BY <1>1, <1>2, CallIs DEF Quiet, Account, OnLine

LEMMA UpSame ==
  ASSUME UNCHANGED <<account, device>>
  PROVE  Up' = Up
BY DEF Up

\* The lines at which a call may end, or go on, as if nothing had happened.
LEMMA CalmOf ==
  ASSUME NEW x, NEW ro, NEW st, NEW up, Account(x, ro, st, up), DOMAIN x.mine \subseteq DOMAIN ro,
         \/ x.at \in Level \ {"again", "store"}
         \/ x.at \in {"load", "insert", "flush", "bind", "rebind"}
         \/ x.at = "set" /\ x.mine[x.row].peer = x.seen[x.row].peer
  PROVE  Calm(ro, st, up)
<1>1. x.at \notin {"each", "off", "remove", "again", "store", "save", "gone"}
  BY DEF Level
<1>2. ASSUME NEW i \in DOMAIN ro
      PROVE  Alike(View(x, i, ro), ro[i])
  BY DEF Account, View, Sees, Alike, Registers
<1>3. ASSUME NEW i \in DOMAIN ro
      PROVE  Settled(ro[i], st, up)
  <2>1. Unsettled(x, i, View(x, i, ro), st, up)
    BY DEF Account, Views
  <2>. QED
    BY <1>1, <1>2, <2>1 DEF Unsettled, Settled, Alike
<1>4. \A p \in DOMAIN st : \E i \in DOMAIN ro : ro[i].peer = p
  BY <1>1, <1>2 DEF Account, AllNamed, Alike
<1>. QED
  BY <1>3, <1>4 DEF Calm

\* A call that has changed nothing, at a line of a job, before it adds a peer,
\* and before it has loaded anything.
Jobs == {"next", "poll", "count", "mark", "finish"}
Empty == {"load", "insert", "flush", "bind", "rebind"}

LEMMA AccountOf ==
  ASSUME NEW y, NEW ro, NEW st, NEW up, Calm(ro, st, up), DOMAIN y.mine \subseteq DOMAIN ro,
         \A i \in DOMAIN y.mine : Alike(y.seen[i], ro[i]) /\ Alike(y.mine[i], ro[i]),
         y.op = "register" => y.dev \in up,
         \/ y.at \in Jobs
         \/ y.at \in Empty /\ DOMAIN y.mine = {}
         \/ y.at = "add" /\ DOMAIN y.mine = {y.row} /\ ro[y.row].active
  PROVE  Account(y, ro, st, up)
<1>1. y.at \in Jobs \union Empty \union {"add"}
  OBVIOUS
<1>2. y.at \notin {"each", "off", "remove", "again", "store", "replace", "retry", "set", "save", "gone"}
  BY <1>1 DEF Jobs, Empty
<1>3. ASSUME NEW i \in DOMAIN ro
      PROVE  Alike(View(y, i, ro), ro[i])
  BY DEF View, Alike
<1>4. ASSUME NEW i \in DOMAIN ro
      PROVE  Unsettled(y, i, View(y, i, ro), st, up)
  <2>1. Settled(ro[i], st, up)
    BY DEF Calm
  <2>. QED
    BY <1>2, <1>3, <2>1 DEF Unsettled, Settled, Alike
<1>5. Sees(y, ro)
  BY <1>2 DEF Sees, Alike
<1>6. AllNamed(y, ro, st)
  <2>1. \A p \in DOMAIN st : \E i \in DOMAIN ro : ro[i].peer = p
    BY DEF Calm
  <2>. QED
    BY <1>3, <2>1 DEF AllNamed, Alike
<1>7. Registers(y, ro, st, up)
  BY <1>1, <1>2 DEF Registers, Adding, Jobs, Empty
<1>8. Deactivates(y, ro) /\ Revokes(y, ro)
  BY <1>2 DEF Deactivates, Revokes
<1>9. y.at \in {"load", "insert", "flush", "bind", "rebind"} => DOMAIN y.mine = {}
  BY DEF Jobs, Empty
<1>. QED
  BY <1>4, <1>5, <1>6, <1>7, <1>8, <1>9 DEF Account, Views

\* The table that a call leaves behind when it commits.
LEMMA CalmCommitted ==
  ASSUME NEW x, NEW ro, NEW ro2, NEW st, NEW up, Views(x, ro, st, up), AllNamed(x, ro, st),
         DOMAIN ro2 = DOMAIN ro, \A i \in DOMAIN ro : Alike(ro2[i], View(x, i, ro)),
         \/ x.at \in {"count", "gone", "finish", "save"}
         \/ x.at = "off" /\ View(x, x.row, ro).peer = 0
  PROVE  Calm(ro2, st, up)
<1>1. ASSUME NEW i \in DOMAIN ro2
      PROVE  Settled(ro2[i], st, up)
  <2>1. Unsettled(x, i, View(x, i, ro), st, up) /\ Alike(ro2[i], View(x, i, ro))
    BY DEF Views
  <2>. QED
    BY <2>1 DEF Unsettled, Settled, Alike
<1>2. \A p \in DOMAIN st : \E i \in DOMAIN ro2 : ro2[i].peer = p
  BY DEF AllNamed, Alike
<1>. QED
  BY <1>1, <1>2 DEF Calm

LEMMA CalmMore ==
  ASSUME NEW ro, NEW st, NEW up, NEW up2, Calm(ro, st, up), up \subseteq up2
  PROVE  Calm(ro, st, up2)
BY DEF Calm, Settled

LEMMA RemovedClean ==
  ASSUME TunnelInv, live = Keys(store), clash' = {}, NEW p, RemovePeer(p)
  PROVE  /\ live' = Keys(store') /\ DOMAIN store' = DOMAIN store \ {p} /\ nextPeer' = nextPeer
         /\ \A q \in DOMAIN store' : store'[q] = store[q]
<1>1. CASE p \notin DOMAIN store /\ UNCHANGED node
  <2>1. store' = store /\ live' = live /\ nextPeer' = nextPeer
    BY <1>1 DEF node
  <2>. QED
    BY <1>1, <2>1
<1>2. CASE /\ p \in DOMAIN store /\ store' = Restrict(store, DOMAIN store \ {p}) /\ Sync(store')
           /\ nextPeer' = nextPeer
  <2>1. DOMAIN store' = DOMAIN store \ {p} /\ \A q \in DOMAIN store' : store'[q] = store[q]
    BY <1>2 DEF Restrict
  <2>. QED
    BY <1>2, <2>1 DEF Sync
<1>. QED
  BY <1>1, <1>2 DEF RemovePeer, Sync

LEMMA AddedClean ==
  ASSUME TunnelInv, live = Keys(store), clash' = {}, NEW c \in DOMAIN calls, NEW k \in Key, NEW then, NEW else,
         AddPeer(c, k, then, else)
  PROVE  /\ live' = Keys(store') /\ nextPeer \notin DOMAIN store
         /\ \/ k \in Keys(store) /\ GoesOn(c, else, 0) /\ store' = store
            \/ /\ k \notin Keys(store) /\ GoesOn(c, then, nextPeer)
               /\ DOMAIN store' = DOMAIN store \union {nextPeer} /\ store'[nextPeer] = k
               /\ \A q \in DOMAIN store : store'[q] = store[q]
<1>1. nextPeer \notin DOMAIN store
  BY DEF TunnelInv, NodeTrue
<1>2. CASE k \in Keys(store) /\ GoesOn(c, else, 0) /\ UNCHANGED node
  <2>1. store' = store /\ live' = live
    BY <1>2 DEF node
  <2>. QED
    BY <1>1, <1>2, <2>1
<1>3. CASE /\ k \notin Keys(store) /\ GoesOn(c, then, nextPeer) /\ store' = Put(store, nextPeer, k) /\ Sync(store')
  <2>1. /\ DOMAIN store' = DOMAIN store \union {nextPeer} /\ store'[nextPeer] = k
        /\ \A q \in DOMAIN store : store'[q] = store[q]
    BY <1>1, <1>3 DEF Put
  <2>. QED
    BY <1>1, <1>3, <2>1 DEF Sync
<1>. QED
  BY <1>2, <1>3 DEF AddPeer, GoesOn, Sync

\* The peer of row i leaves the node, and the other rows keep theirs.
PeerOut(x, i) ==
  /\ live' = Keys(store') /\ DOMAIN store' = DOMAIN store \ {x.mine[i].peer}
  /\ rows[i].key \notin Keys(store')
  /\ \A j \in DOMAIN rows \ {i} : View(x, j, rows).peer # 0 =>
       View(x, j, rows).peer \in DOMAIN store' /\ store'[View(x, j, rows).peer] = View(x, j, rows).key
  /\ \A q \in DOMAIN store' : \E j \in DOMAIN rows \ {i} : View(x, j, rows).peer = q

LEMMA PeerLeaves ==
  ASSUME NEW c, Quiet(c), NEW x, x = calls[c], NEW i \in DOMAIN x.mine,
         x.at \in {"replace", "retry", "remove", "each"}, x.mine[i].peer # 0, RemovePeer(x.mine[i].peer)
  PROVE  PeerOut(x, i)
<1>1. /\ TunnelInv /\ Views(x, rows, store, Up) /\ Sees(x, rows) /\ AllNamed(x, rows, store)
      /\ DOMAIN x.mine \subseteq DOMAIN rows /\ live = Keys(store) /\ clash' = {}
  BY QuietCall DEF Quiet
<1>2. PICK p : p = x.mine[i].peer
  OBVIOUS
<1>3. /\ live' = Keys(store') /\ DOMAIN store' = DOMAIN store \ {p}
      /\ \A q \in DOMAIN store' : store'[q] = store[q]
  BY <1>1, <1>2, RemovedClean
<1>4. ASSUME NEW j \in DOMAIN rows, View(x, j, rows).peer # 0
      PROVE  /\ View(x, j, rows).peer \in DOMAIN store
             /\ store[View(x, j, rows).peer] = View(x, j, rows).key /\ View(x, j, rows).key = rows[j].key
  BY <1>1, <1>4 DEF Views, Unsettled, Sees, View
<1>5. View(x, i, rows).peer = p /\ i \in DOMAIN rows
  BY <1>1, <1>2 DEF View
<1>6. p \in DOMAIN store /\ store[p] = rows[i].key
  BY <1>2, <1>4, <1>5
<1>7. \A j \in DOMAIN rows : rows[j].key = rows[i].key => j = i
  BY <1>1, <1>5 DEF TunnelInv, RowsTrue
<1>8. ASSUME NEW j \in DOMAIN rows \ {i}, View(x, j, rows).peer # 0
      PROVE  View(x, j, rows).peer \in DOMAIN store' /\ store'[View(x, j, rows).peer] = View(x, j, rows).key
  <2>1. View(x, j, rows).peer # p
    BY <1>4, <1>6, <1>7, <1>8
  <2>. QED
    BY <1>3, <1>4, <1>8, <2>1
<1>9. \A q \in DOMAIN store' : store'[q] # rows[i].key
  BY <1>1, <1>3, <1>6 DEF TunnelInv, NodeTrue
<1>10. ASSUME NEW q \in DOMAIN store'
       PROVE  \E j \in DOMAIN rows \ {i} : View(x, j, rows).peer = q
  BY <1>1, <1>3, <1>5 DEF AllNamed
<1>. QED
  BY <1>2, <1>3, <1>8, <1>9, <1>10 DEF Keys, PeerOut

\* What a commit makes of a row and of the table, when no other call wrote them.
LEMMA MergedAlike ==
  ASSUME NEW c, Quiet(c), NEW i \in DOMAIN calls[c].mine
  PROVE  Alike(Merged(c, i), calls[c].mine[i])
<1>1. TunnelInv /\ c \in DOMAIN calls /\ Sees(calls[c], rows)
  BY QuietCall
<1>2. Alike(calls[c].seen[i], rows[i])
  BY <1>1 DEF Sees
<1>3. \A col \in Columns : Merged(c, i)[col] =
        IF calls[c].mine[i][col] # calls[c].seen[i][col] THEN calls[c].mine[i][col] ELSE rows[i][col]
  BY <1>1, MergedIs
<1>4. {"dev", "key", "peer", "active"} \subseteq Columns
  BY DEF Columns
<1>. QED
  BY <1>2, <1>3, <1>4 DEF Alike

LEMMA CommittedAlike ==
  ASSUME NEW c, Quiet(c), rows' = Written(c)
  PROVE  /\ DOMAIN rows' = DOMAIN rows
         /\ \A i \in DOMAIN rows : Alike(rows'[i], View(calls[c], i, rows))
<1>1. DOMAIN rows' = DOMAIN rows
  BY DEF Written
<1>2. ASSUME NEW i \in DOMAIN rows
      PROVE  Alike(rows'[i], View(calls[c], i, rows))
  <2>1. CASE i \in DOMAIN calls[c].mine
    <3>1. Alike(Merged(c, i), calls[c].mine[i])
      BY <2>1, MergedAlike
    <3>. QED
      BY <2>1, <3>1 DEF Written, View
  <2>2. CASE i \notin DOMAIN calls[c].mine
    BY <2>2 DEF Written, View, Alike
  <2>. QED
    BY <2>1, <2>2
<1>. QED
  BY <1>1, <1>2

-----------------------------------------------------------------------------
(* Each line of the handlers and jobs, while nothing goes wrong.              *)
LEMMA FineEnded ==
  ASSUME NEW c, Quiet(c), calls' = Ended(c), UNCHANGED <<live, store>>, Calm(rows', store, Up')
  PROVE  Fine(c)
<1>1. c \notin DOMAIN calls' /\ live = Keys(store)
  BY QuietCall, EndedIs
<1>. QED
  BY <1>1 DEF Fine, Keys

LEMMA FineMoves ==
  ASSUME NEW c, Quiet(c), DOMAIN calls' = DOMAIN calls, UNCHANGED <<live, store>>,
         Account(calls'[c], rows', store, Up')
  PROVE  Fine(c)
BY QuietCall DEF Fine, Keys

\* A line at which the table is calm.
LEMMA CalmAt ==
  ASSUME NEW c, Quiet(c),
         \/ calls[c].at \in Level \ {"again", "store"} \/ calls[c].at \in Empty
         \/ calls[c].at = "set" /\ calls[c].mine[calls[c].row].peer = calls[c].seen[calls[c].row].peer
  PROVE  Calm(rows, store, Up)
<1>1. DOMAIN calls[c].mine \subseteq DOMAIN rows /\ Account(calls[c], rows, store, Up)
  BY QuietCall DEF Quiet
<1>. QED
  BY <1>1, CalmOf DEF Empty

LEMMA FineEnrollSave ==
  ASSUME NEW c, Quiet(c), EnrollSave(c)
  PROVE  Fine(c)
<1>1. /\ calls[c].at \in {"bind", "rebind"} /\ calls' = Ended(c) /\ UNCHANGED <<account, rows, live, store>>
      /\ \/ device' = device \/ device' = [device EXCEPT ![calls[c].dev] = "active"]
  BY DEF EnrollSave, node
<1>2. Calm(rows, store, Up)
  BY <1>1, CalmAt DEF Empty
<1>3. Up \subseteq Up'
  <2>1. device \in [Device -> {"none", "active", "revoked"}]
    BY QuietCall DEF TunnelInv, Plainly
  <2>. QED
    BY <1>1, <2>1 DEF Up
<1>. QED
  BY <1>1, <1>2, <1>3, CalmMore, FineEnded

LEMMA FineLoadRow ==
  ASSUME NEW c, Quiet(c), LoadRow(c)
  PROVE  Fine(c)
<1>1. /\ calls[c].at = "load" /\ UNCHANGED <<account, device, rows, live, store>>
      /\ \/ calls' = Ended(c)
         \/ RowsOf(calls[c].dev) = {} /\ calls[c].op = "register" /\ calls' = To(c, "insert")
         \/ \E i : LoadsRow(c, i)
  BY LoadRowIs DEF database, node, history
<1>2. Up' = Up
  BY <1>1, UpSame
<1>3. Calm(rows, store, Up)
  BY <1>1, CalmAt DEF Empty
<1>4. PICK x, y : x = calls[c] /\ y = calls'[c]
  OBVIOUS
<1>5. /\ TunnelInv /\ c \in DOMAIN calls /\ (x.op = "register" => x.dev \in Up)
      /\ x.op \in {"register", "drop"} /\ DOMAIN x.mine = {}
  BY <1>1, <1>4, QuietCall DEF Quiet, Account, Registers, OnLine
<1>6. CASE calls' = Ended(c)
  BY <1>1, <1>2, <1>3, <1>6, FineEnded
<1>7. CASE calls' = To(c, "insert")
  <2>1. /\ DOMAIN calls' = DOMAIN calls /\ SameCall(x, y, "insert") /\ y.mine = x.mine
    BY <1>4, <1>5, <1>7, ToIs
  <2>2. Account(y, rows, store, Up)
    BY <1>3, <1>5, <2>1, AccountOf DEF SameCall, Empty
  <2>. QED
    BY <1>1, <1>2, <1>4, <2>1, <2>2, FineMoves
<1>8. ASSUME NEW i, LoadsRow(c, i)
      PROVE  Fine(c)
  <2>1. PICK at : at = AtOf(c, i)
    OBVIOUS
  <2>2. /\ DOMAIN calls' = DOMAIN calls /\ y.op = x.op /\ y.dev = x.dev /\ y.key = x.key
        /\ y.row = i /\ y.at = at /\ i \in DOMAIN rows /\ rows[i].dev = x.dev
        /\ DOMAIN y.seen = {i} /\ y.seen[i] = rows[i] /\ DOMAIN y.mine = {i}
        /\ y.mine[i] = IF at \in {"gone", "remove"} THEN [rows[i] EXCEPT !.active = FALSE] ELSE rows[i]
    BY <1>4, <1>5, <1>8, <2>1, LoadsRowIs
  <2>3. /\ at \in {"gone", "remove", "replace", "set"} /\ (at \in {"replace", "set"} => x.op = "register")
        /\ at \in {"remove", "replace"} => rows[i].peer # 0
        /\ at = "gone" => rows[i].peer = 0
        /\ \A j \in DOMAIN rows \ {i} : rows[j].key # x.key
    BY <1>4, <1>5, <1>8, <2>1 DEF AtOf, LoadsRow
  <2>4. rows[i] \in Row
    BY <1>5, <2>2 DEF TunnelInv, RowsTrue, RowTrue
  <2>5. /\ y.mine[i].dev = rows[i].dev /\ y.mine[i].key = rows[i].key /\ y.mine[i].peer = rows[i].peer
        /\ y.mine[i].active = IF at \in {"gone", "remove"} THEN FALSE ELSE rows[i].active
    BY <2>2, <2>4 DEF Row
  <2>6. Views(y, rows, store, Up)
    <3>1. ASSUME NEW j \in DOMAIN rows
          PROVE  Unsettled(y, j, View(y, j, rows), store, Up)
      <4>1. Settled(rows[j], store, Up)
        BY <1>3 DEF Calm
      <4>2. CASE j = i
        BY <2>2, <2>3, <2>5, <4>1, <4>2 DEF Unsettled, Settled, View
      <4>3. CASE j # i
        BY <2>2, <2>3, <4>1, <4>3 DEF Unsettled, Settled, View
      <4>. QED
        BY <4>2, <4>3
    <3>. QED
      BY <3>1 DEF Views
  <2>7. Sees(y, rows)
    BY <2>2, <2>3, <2>5 DEF Sees, Alike, Level
  <2>8. AllNamed(y, rows, store)
    <3>1. \A j \in DOMAIN rows : View(y, j, rows).peer = rows[j].peer
      BY <2>2, <2>5 DEF View
    <3>. QED
      BY <1>3, <3>1 DEF AllNamed, Calm
  <2>9. Registers(y, rows, store, Up)
    BY <1>5, <2>2, <2>3, <2>5 DEF Registers, Adding, Alike
  <2>10. Deactivates(y, rows) /\ Revokes(y, rows)
    BY <2>2, <2>3, <2>5 DEF Deactivates, Revokes
  <2>11. Account(y, rows, store, Up)
    BY <2>2, <2>3, <2>6, <2>7, <2>8, <2>9, <2>10 DEF Account
  <2>. QED
    BY <1>1, <1>2, <1>4, <2>2, <2>11, FineMoves
<1>. QED
  BY <1>1, <1>6, <1>7, <1>8

LEMMA FineInsert ==
  ASSUME NEW c, Quiet(c), Insert(c)
  PROVE  Fine(c)
<1>1. calls[c].at = "insert" /\ UNCHANGED <<account, device, live, store>>
  BY DEF Insert, Fail, database, node, history
<1>2. Up' = Up
  BY <1>1, UpSame
<1>3. Calm(rows, store, Up)
  BY <1>1, CalmAt DEF Empty
<1>4. CASE Fail(c)
  BY <1>1, <1>2, <1>3, <1>4, FineEnded DEF Fail, database
<1>5. PICK x, y : x = calls[c] /\ y = calls'[c]
  OBVIOUS
<1>6. /\ TunnelInv /\ c \in DOMAIN calls /\ x.op = "register" /\ x.dev \in Up /\ OnLine(x)
  BY <1>1, <1>5, QuietCall DEF Quiet, Account, Registers, OnLine
<1>7. ASSUME NEW i, i = Cardinality(DOMAIN rows) + 1, NEW new, new = NewRow(x.dev, x.key),
             rows' = Put(rows, i, new),
             calls' = [calls EXCEPT ![c].row = i, ![c].at = "add",
                                    ![c].seen = Only(i, new), ![c].mine = Only(i, new)]
      PROVE  Fine(c)
  <2>1. PICK n \in Nat : DOMAIN rows = 1 .. n
    BY <1>6 DEF TunnelInv, RowsTrue
  <2>2. i = n + 1 /\ i \notin DOMAIN rows
    BY <1>7, <2>1, FS_Interval
  <2>3. /\ DOMAIN rows' = DOMAIN rows \union {i} /\ rows'[i] = new
        /\ \A j \in DOMAIN rows : rows'[j] = rows[j]
    BY <1>7, <2>2 DEF Put
  <2>4. new.dev = x.dev /\ new.peer = 0 /\ new.active
    BY <1>7 DEF NewRow
  <2>5. /\ DOMAIN calls' = DOMAIN calls
        /\ y = [x EXCEPT !.row = i, !.at = "add", !.seen = Only(i, new), !.mine = Only(i, new)]
    BY <1>5, <1>6, <1>7
  <2>6. y.op = x.op /\ y.dev = x.dev /\ y.row = i /\ y.at = "add" /\ y.seen = Only(i, new) /\ y.mine = Only(i, new)
    BY <1>6, <2>5 DEF OnLine
  <2>7. DOMAIN Only(i, new) = {i} /\ Only(i, new)[i] = new
    BY DEF Only
  <2>8. Calm(rows', store, Up)
    <3>1. ASSUME NEW j \in DOMAIN rows'
          PROVE  Settled(rows'[j], store, Up)
      BY <1>3, <1>6, <2>3, <2>4 DEF Calm, Settled
    <3>. QED
      BY <1>3, <2>3, <3>1 DEF Calm
  <2>9. Account(y, rows', store, Up)
    BY <1>6, <2>3, <2>4, <2>6, <2>7, <2>8, AccountOf DEF Alike
  <2>. QED
    BY <1>1, <1>2, <1>5, <2>5, <2>9, FineMoves
<1>8. CASE /\ rows' = Put(rows, Cardinality(DOMAIN rows) + 1, NewRow(calls[c].dev, calls[c].key))
           /\ calls' = [calls EXCEPT ![c].row = Cardinality(DOMAIN rows) + 1, ![c].at = "add",
                 ![c].seen = Only(Cardinality(DOMAIN rows) + 1, NewRow(calls[c].dev, calls[c].key)),
                 ![c].mine = Only(Cardinality(DOMAIN rows) + 1, NewRow(calls[c].dev, calls[c].key))]
  BY <1>5, <1>7, <1>8
<1>. QED
  BY <1>4, <1>8 DEF Insert

\* A session that has its peer removed from the node, and forgets it.
Dropped(x, y, i) ==
  /\ live' = Keys(store') /\ Views(y, rows, store', Up) /\ AllNamed(y, rows, store')
  /\ y.mine[i].peer = 0 /\ y.mine[i].dev = x.mine[i].dev
  /\ y.mine[i].key = x.mine[i].key /\ y.mine[i].active = x.mine[i].active

LEMMA WithoutPeer ==
  ASSUME NEW c, Quiet(c), NEW x, x = calls[c], NEW i \in DOMAIN x.mine,
         x.at \in {"replace", "remove", "each"}, x.mine[i].peer # 0, RemovePeer(x.mine[i].peer),
         NEW y, DOMAIN y.mine = DOMAIN x.mine, y.mine[i] = [x.mine[i] EXCEPT !.peer = 0],
         \A j \in DOMAIN x.mine : j # i => y.mine[j] = x.mine[j],
         y.at \in {"set", "gone", "each"}, y.at = "each" <=> x.at = "each",
         x.at = "each" => y.todo = x.todo \ {i}, x.at # "each" => i = x.row
  PROVE  Dropped(x, y, i)
<1>1. /\ TunnelInv /\ Views(x, rows, store, Up) /\ i \in DOMAIN rows /\ DOMAIN x.mine \subseteq DOMAIN rows
      /\ x.mine[i] \in Row
  BY QuietCall, CallIs DEF RowTrue
<1>2. PeerOut(x, i)
  BY PeerLeaves
<1>3. /\ y.mine[i].peer = 0 /\ y.mine[i].dev = x.mine[i].dev
      /\ y.mine[i].key = x.mine[i].key /\ y.mine[i].active = x.mine[i].active
  BY <1>1 DEF Row
<1>4. \A j \in DOMAIN rows \ {i} : View(y, j, rows) = View(x, j, rows)
  BY DEF View
<1>5. ASSUME NEW j \in DOMAIN rows
      PROVE  Unsettled(y, j, View(y, j, rows), store', Up)
  <2>1. Unsettled(x, j, View(x, j, rows), store, Up)
    BY <1>1 DEF Views
  <2>2. CASE j = i
    BY <1>3, <2>1, <2>2 DEF Unsettled, View
  <2>3. CASE j # i
    <3>1. View(y, j, rows) = View(x, j, rows)
      BY <1>4, <2>3
    <3>2. View(x, j, rows).peer # 0 =>
            View(x, j, rows).peer \in DOMAIN store' /\ store'[View(x, j, rows).peer] = View(x, j, rows).key
      BY <1>2, <2>3 DEF PeerOut
    <3>3. View(x, j, rows).peer # 0 => View(x, j, rows).active \/ (x.at = "each" /\ j \in x.todo)
      BY <2>1, <2>3 DEF Unsettled
    <3>4. View(x, j, rows).active => View(x, j, rows).dev \in Up
      BY <2>1 DEF Unsettled
    <3>5. x.at = "each" /\ j \in x.todo => y.at = "each" /\ j \in y.todo
      BY <2>3
    <3>. QED
      BY <3>1, <3>2, <3>3, <3>4, <3>5 DEF Unsettled
  <2>. QED
    BY <2>2, <2>3
<1>6. AllNamed(y, rows, store')
  BY <1>2, <1>4 DEF AllNamed, PeerOut
<1>. QED
  BY <1>2, <1>3, <1>5, <1>6 DEF Views, PeerOut, Dropped

LEMMA FineReplace ==
  ASSUME NEW c, Quiet(c), Replace(c)
  PROVE  Fine(c)
<1>1. PICK x, y, i : x = calls[c] /\ y = calls'[c] /\ i = calls[c].row
  OBVIOUS
<1>2. /\ x.at = "replace" /\ UNCHANGED <<account, device, rows>> /\ RemovePeer(x.mine[i].peer)
      /\ calls' = Change(c, i, [x.mine[i] EXCEPT !.peer = 0], "set")
  BY <1>1 DEF Replace, database
<1>3. Up' = Up
  BY <1>2, UpSame
<1>4. /\ TunnelInv /\ c \in DOMAIN calls /\ i \in DOMAIN x.mine /\ Sees(x, rows) /\ Registers(x, rows, store, Up)
      /\ i = x.row /\ i \in DOMAIN rows /\ DOMAIN x.seen = DOMAIN x.mine
  BY <1>1, <1>2, QuietCall DEF WithRow
<1>5. /\ DOMAIN calls' = DOMAIN calls /\ SameCall(x, y, "set") /\ y.seen = x.seen
      /\ DOMAIN y.mine = DOMAIN x.mine /\ y.mine[i] = [x.mine[i] EXCEPT !.peer = 0]
      /\ \A j \in DOMAIN x.mine : j # i => y.mine[j] = x.mine[j]
  BY <1>1, <1>2, <1>4, ChangeIs, SMTT(30)
<1>6. /\ x.mine[i].peer # 0 /\ rows[i].dev = x.dev /\ (x.op = "register" => x.dev \in Up) /\ DOMAIN x.mine = {i}
      /\ \A j \in DOMAIN rows \ {i} : rows[j].key # x.key
      /\ Alike(x.seen[i], rows[i]) /\ Alike(x.mine[i], rows[i]) /\ x.op = "register"
  BY <1>1, <1>2, <1>4, QuietCall DEF Registers, Sees, Level, OnLine
<1>7. Dropped(x, y, i)
  BY <1>1, <1>2, <1>4, <1>5, <1>6, WithoutPeer DEF SameCall
<1>8. Sees(y, rows)
  <2>1. y.at = "set" /\ y.row = i /\ y.at \notin Level
    BY <1>4, <1>5 DEF SameCall, Level
  <2>2. y.mine[i].dev = rows[i].dev /\ y.mine[i].key = rows[i].key
    BY <1>6, <1>7 DEF Dropped, Alike
  <2>. QED
    BY <1>5, <1>6, <2>1, <2>2 DEF Sees
<1>9. Registers(y, rows, store', Up)
  BY <1>4, <1>5, <1>6, <1>7 DEF Registers, SameCall, Adding, Alike, Dropped
<1>10. Deactivates(y, rows) /\ Revokes(y, rows)
  BY <1>5 DEF Deactivates, Revokes, SameCall
<1>11. Account(y, rows, store', Up)
  BY <1>5, <1>7, <1>8, <1>9, <1>10 DEF Account, SameCall, Dropped
<1>. QED
  BY <1>1, <1>2, <1>3, <1>4, <1>5, <1>7, <1>11 DEF Fine, Dropped

LEMMA FineRemove ==
  ASSUME NEW c, Quiet(c), Remove(c)
  PROVE  Fine(c)
<1>1. PICK x, y, i : x = calls[c] /\ y = calls'[c] /\ i = calls[c].row
  OBVIOUS
<1>2. /\ x.at = "remove" /\ UNCHANGED <<account, device, rows>> /\ RemovePeer(x.mine[i].peer)
      /\ calls' = Change(c, i, [x.mine[i] EXCEPT !.peer = 0], "gone")
  BY <1>1 DEF Remove, database
<1>3. Up' = Up
  BY <1>2, UpSame
<1>4. /\ TunnelInv /\ c \in DOMAIN calls /\ i \in DOMAIN x.mine /\ Sees(x, rows) /\ Registers(x, rows, store, Up)
      /\ Deactivates(x, rows) /\ i = x.row /\ i \in DOMAIN rows
  BY <1>1, <1>2, QuietCall DEF WithRow
<1>5. /\ DOMAIN calls' = DOMAIN calls /\ SameCall(x, y, "gone") /\ y.seen = x.seen
      /\ DOMAIN y.mine = DOMAIN x.mine /\ y.mine[i] = [x.mine[i] EXCEPT !.peer = 0]
      /\ \A j \in DOMAIN x.mine : j # i => y.mine[j] = x.mine[j]
  BY <1>1, <1>2, <1>4, ChangeIs, SMTT(30)
<1>6. x.mine[i].peer # 0 /\ ~x.mine[i].active
  BY <1>1, <1>2, <1>4 DEF Deactivates
<1>7. Dropped(x, y, i)
  BY <1>1, <1>2, <1>4, <1>5, <1>6, WithoutPeer DEF SameCall
<1>8. Sees(y, rows)
  <2>1. y.at = "gone" /\ y.row = i /\ y.at \notin Level
    BY <1>4, <1>5 DEF SameCall, Level
  <2>2. ASSUME NEW j \in DOMAIN x.mine
        PROVE  /\ Alike(x.seen[j], rows[j]) /\ x.mine[j].dev = rows[j].dev /\ x.mine[j].key = rows[j].key
               /\ j # i => Alike(x.mine[j], rows[j])
    BY <1>2, <1>4 DEF Sees
  <2>3. y.mine[i].dev = x.mine[i].dev /\ y.mine[i].key = x.mine[i].key
    BY <1>7 DEF Dropped
  <2>. QED
    BY <1>4, <1>5, <2>1, <2>2, <2>3 DEF Sees
<1>9. Registers(y, rows, store', Up)
  BY <1>4, <1>5 DEF Registers, SameCall, Adding
<1>10. Deactivates(y, rows) /\ Revokes(y, rows)
  BY <1>4, <1>5, <1>6, <1>7 DEF Deactivates, Revokes, SameCall, Dropped
<1>11. Account(y, rows, store', Up)
  BY <1>5, <1>7, <1>8, <1>9, <1>10 DEF Account, SameCall, Dropped
<1>. QED
  BY <1>1, <1>2, <1>3, <1>4, <1>5, <1>7, <1>11 DEF Fine, Dropped

LEMMA FineRetry ==
  ASSUME NEW c, Quiet(c), Retry(c)
  PROVE  Fine(c)
<1>1. PICK x, y, i : x = calls[c] /\ y = calls'[c] /\ i = calls[c].row
  OBVIOUS
<1>2. /\ x.at = "retry" /\ UNCHANGED <<account, device, rows>> /\ RemovePeer(x.mine[i].peer)
      /\ calls' = To(c, "again")
  BY <1>1 DEF Retry, database
<1>3. Up' = Up
  BY <1>2, UpSame
<1>4. /\ TunnelInv /\ c \in DOMAIN calls /\ i \in DOMAIN x.mine /\ Sees(x, rows) /\ Registers(x, rows, store, Up)
      /\ Views(x, rows, store, Up) /\ i = x.row /\ i \in DOMAIN rows
  BY <1>1, <1>2, QuietCall DEF WithRow
<1>5. /\ DOMAIN calls' = DOMAIN calls /\ SameCall(x, y, "again") /\ y.seen = x.seen /\ y.mine = x.mine
  BY <1>1, <1>2, <1>4, ToIs
<1>6. x.mine[i].peer # 0 /\ Alike(x.mine[i], rows[i]) /\ rows[i].active
  BY <1>1, <1>2, <1>4 DEF Registers, Sees, Level, Adding
<1>7. PeerOut(x, i)
  BY <1>1, <1>2, <1>4, <1>6, PeerLeaves
<1>8. \A j \in DOMAIN rows : View(y, j, rows) = View(x, j, rows)
  BY <1>5 DEF View
<1>9. ASSUME NEW j \in DOMAIN rows
      PROVE  Unsettled(y, j, View(y, j, rows), store', Up)
  <2>1. Unsettled(x, j, View(x, j, rows), store, Up)
    BY <1>4 DEF Views
  <2>2. CASE j = i
    <3>1. View(y, j, rows) = x.mine[i] /\ View(x, j, rows) = x.mine[i] /\ y.at = "again" /\ y.row = i
      BY <1>4, <1>5, <2>2 DEF View, SameCall
    <3>. QED
      BY <1>6, <1>7, <2>1, <2>2, <3>1 DEF Unsettled, Alike, PeerOut
  <2>3. CASE j # i
    <3>1. View(x, j, rows).peer # 0 => View(x, j, rows).active
      BY <1>2, <2>1 DEF Unsettled
    <3>. QED
      BY <1>4, <1>5, <1>7, <1>8, <2>1, <2>3, <3>1 DEF Unsettled, SameCall, PeerOut
  <2>. QED
    BY <2>2, <2>3
<1>10. AllNamed(y, rows, store')
  BY <1>7, <1>8 DEF AllNamed, PeerOut
<1>11. Sees(y, rows)
  BY <1>2, <1>4, <1>5 DEF Sees, SameCall, Level
<1>12. Registers(y, rows, store', Up)
  BY <1>2, <1>4, <1>5, <1>7 DEF Registers, SameCall, Adding, PeerOut
<1>13. Deactivates(y, rows) /\ Revokes(y, rows)
  BY <1>5 DEF Deactivates, Revokes, SameCall
<1>14. Account(y, rows, store', Up)
  BY <1>5, <1>9, <1>10, <1>11, <1>12, <1>13 DEF Account, Views, SameCall
<1>. QED
  BY <1>1, <1>2, <1>3, <1>4, <1>5, <1>7, <1>14 DEF Fine, PeerOut

\* A row that the call is not about, and one that is settled again.
LEMMA SettledOther ==
  ASSUME NEW x, NEW j, NEW r, NEW st, NEW up, Unsettled(x, j, r, st, up), x.at # "each",
         j # x.row \/ x.at \notin {"off", "remove", "again", "store"}
  PROVE  Settled(r, st, up)
BY DEF Unsettled, Settled

LEMMA SettledIs ==
  ASSUME NEW y, NEW j, NEW r, NEW st, NEW up, Settled(r, st, up),
         j # y.row \/ y.at \notin {"again", "store"}
  PROVE  Unsettled(y, j, r, st, up)
BY DEF Unsettled, Settled

LEMMA FineSet ==
  ASSUME NEW c, Quiet(c), Set(c)
  PROVE  Fine(c)
<1>1. PICK x, y, i : x = calls[c] /\ y = calls'[c] /\ i = calls[c].row
  OBVIOUS
<1>2. /\ x.at = "set" /\ UNCHANGED <<account, device, rows, live, store>>
      /\ \/ calls' = Ended(c) /\ (x.mine[i].peer # x.seen[i].peer => "refused" \in clash')
         \/ calls' = Change(c, i, [x.mine[i] EXCEPT !.key = x.key, !.active = TRUE], "save")
  BY <1>1 DEF Set, database, node
<1>3. Up' = Up
  BY <1>2, UpSame
<1>4. /\ TunnelInv /\ c \in DOMAIN calls /\ i \in DOMAIN x.mine /\ Sees(x, rows) /\ Registers(x, rows, store, Up)
      /\ Views(x, rows, store, Up) /\ AllNamed(x, rows, store) /\ OnLine(x)
      /\ i = x.row /\ i \in DOMAIN rows /\ DOMAIN x.seen = DOMAIN x.mine /\ x.op = "register"
      /\ AddTrue(x, store, nextPeer, excused) /\ x.mine[i] \in Row
  BY <1>1, <1>2, QuietCall, CallIs DEF WithRow, OnLine, RowTrue
<1>5. CASE calls' = Ended(c) /\ (x.mine[i].peer # x.seen[i].peer => "refused" \in clash')
  <2>1. x.mine[i].peer = x.seen[i].peer
    BY <1>5 DEF Quiet
  <2>2. Calm(rows, store, Up)
    BY <1>1, <1>2, <2>1, CalmAt
  <2>. QED
    BY <1>2, <1>3, <1>5, <2>2, FineEnded
<1>6. CASE calls' = Change(c, i, [x.mine[i] EXCEPT !.key = x.key, !.active = TRUE], "save")
  <2>0. PICK row : row = [x.mine[i] EXCEPT !.key = x.key, !.active = TRUE]
    OBVIOUS
  <2>1. /\ DOMAIN calls' = DOMAIN calls /\ SameCall(x, y, "save") /\ y.seen = x.seen
        /\ DOMAIN y.mine = DOMAIN x.mine /\ y.mine[i] = row
        /\ \A j \in DOMAIN x.mine : j # i => y.mine[j] = x.mine[j]
    <3>1. calls' = Change(c, i, row, "save") /\ i \in DOMAIN calls[c].mine
      BY <1>1, <1>4, <1>6, <2>0
    <3>2. /\ DOMAIN calls' = DOMAIN calls /\ SameCall(calls[c], calls'[c], "save")
          /\ calls'[c].seen = calls[c].seen /\ DOMAIN calls'[c].mine = DOMAIN calls[c].mine
          /\ calls'[c].mine[i] = row
          /\ \A j \in DOMAIN calls[c].mine : j # i => calls'[c].mine[j] = calls[c].mine[j]
      BY <1>4, <3>1, ChangeIs
    <3>. QED
      BY <1>1, <3>2
  <2>2. /\ y.mine[i].dev = x.mine[i].dev /\ y.mine[i].peer = x.mine[i].peer
        /\ y.mine[i].key = x.key /\ y.mine[i].active = TRUE
    BY <1>4, <2>0, <2>1 DEF Row
  <2>3. /\ DOMAIN x.mine = {i} /\ x.dev \in Up /\ rows[i].dev = x.dev /\ x.mine[i].dev = rows[i].dev
        /\ \A j \in DOMAIN rows \ {i} : rows[j].key # x.key
        /\ Alike(x.seen[i], rows[i]) /\ (x.mine[i].peer # 0 => x.mine[i].key = x.key)
    BY <1>2, <1>4 DEF Registers, Sees, AddTrue
  <2>4. ASSUME NEW j \in DOMAIN rows
        PROVE  Unsettled(y, j, View(y, j, rows), store, Up)
    <3>1. Settled(View(x, j, rows), store, Up)
      BY <1>2, <1>4, SettledOther DEF Views
    <3>2. CASE j = i
      <4>1. View(x, j, rows) = x.mine[i] /\ View(y, j, rows) = y.mine[i]
        BY <1>4, <2>1, <3>2 DEF View
      <4>2. Settled(View(y, j, rows), store, Up)
        BY <2>2, <2>3, <3>1, <4>1 DEF Settled
      <4>. QED
        BY <2>1, <4>2, SettledIs DEF SameCall
    <3>3. CASE j # i
      <4>1. View(y, j, rows) = View(x, j, rows)
        BY <2>1, <3>3 DEF View
      <4>. QED
        BY <2>1, <3>1, <4>1, SettledIs DEF SameCall
    <3>. QED
      BY <3>2, <3>3
  <2>5. Sees(y, rows)
    <3>1. y.at = "save" /\ y.row = i /\ y.at \notin Level
      BY <1>4, <2>1 DEF SameCall, Level
    <3>. QED
      BY <2>1, <2>2, <2>3, <3>1 DEF Sees
  <2>6. AllNamed(y, rows, store)
    <3>1. \A j \in DOMAIN rows : View(y, j, rows).peer = View(x, j, rows).peer
      BY <2>1, <2>2 DEF View
    <3>. QED
      BY <1>2, <1>4, <3>1 DEF AllNamed
  <2>7. Registers(y, rows, store, Up)
    BY <1>4, <2>1, <2>2, <2>3 DEF Registers, SameCall, Adding
  <2>8. Deactivates(y, rows) /\ Revokes(y, rows)
    BY <2>1 DEF Deactivates, Revokes, SameCall
  <2>9. Account(y, rows, store, Up)
    BY <2>1, <2>4, <2>5, <2>6, <2>7, <2>8 DEF Account, Views, SameCall
  <2>. QED
    BY <1>1, <1>2, <1>3, <2>1, <2>9, FineMoves
<1>. QED
  BY <1>2, <1>5, <1>6

LEMMA FineSave ==
  ASSUME NEW c, Quiet(c), Save(c)
  PROVE  Fine(c)
<1>1. PICK x, y, i, row : x = calls[c] /\ y = calls'[c] /\ i = calls[c].row /\ row = Merged(c, i)
  OBVIOUS
<1>2. calls[c].at = "save"
  BY DEF Save
<1>3. /\ TunnelInv /\ c \in DOMAIN calls /\ i \in DOMAIN x.mine /\ Registers(x, rows, store, Up)
      /\ Views(x, rows, store, Up) /\ AllNamed(x, rows, store)
      /\ i = x.row /\ i \in DOMAIN rows /\ DOMAIN x.seen = DOMAIN x.mine
  BY <1>1, <1>2, QuietCall DEF WithRow
<1>4. Alike(row, x.mine[i])
  BY <1>1, <1>3, MergedAlike
<1>5. ~\E j \in DOMAIN rows \ {i} : rows[j].key = row.key
  BY <1>1, <1>2, <1>3, <1>4 DEF Registers, Alike
<1>6. /\ rows' = [rows EXCEPT ![i] = row] /\ UNCHANGED <<account, device, live, store>>
      /\ calls' = IF x.op = "bonus" /\ ~(row.active /\ ~x.seen[i].active) THEN Ended(c)
                  ELSE [calls EXCEPT ![c].seen[i] = row, ![c].mine[i] = row, ![c].at = "add"]
  BY <1>1, <1>5 DEF Save, Unchanged, node
<1>7. Up' = Up
  BY <1>6, UpSame
<1>8. DOMAIN x.mine = {i} /\ (x.op = "register" => x.dev \in Up) /\ (x.op = "bonus" \/ x.mine[i].active)
  BY <1>1, <1>2, <1>3 DEF Registers
<1>9. /\ DOMAIN rows' = DOMAIN rows /\ rows'[i] = row /\ \A j \in DOMAIN rows : j # i => rows'[j] = rows[j]
  BY <1>3, <1>6
<1>10. \A j \in DOMAIN rows : Alike(rows'[j], View(x, j, rows))
  BY <1>4, <1>8, <1>9 DEF Alike, View
<1>11. Calm(rows', store, Up)
  BY <1>1, <1>2, <1>3, <1>9, <1>10, CalmCommitted
<1>12. CASE calls' = Ended(c)
  BY <1>6, <1>7, <1>11, <1>12, FineEnded
<1>13. CASE row.active /\ calls' = [calls EXCEPT ![c].seen[i] = row, ![c].mine[i] = row, ![c].at = "add"]
  <2>1. DOMAIN calls' = DOMAIN calls /\ SavedRow(x, y, i, row)
    BY <1>1, <1>3, <1>13, SavedIs
  <2>2. /\ y.at = "add" /\ y.row = i /\ y.op = x.op /\ y.dev = x.dev /\ DOMAIN y.mine = {i}
        /\ Alike(y.seen[i], rows'[i]) /\ Alike(y.mine[i], rows'[i])
    BY <1>3, <1>8, <1>9, <2>1 DEF SavedRow, SameCall, Alike
  <2>3. Account(y, rows', store, Up)
    BY <1>3, <1>8, <1>9, <1>11, <1>13, <2>2, AccountOf
  <2>. QED
    BY <1>1, <1>6, <1>7, <2>1, <2>3, FineMoves
<1>14. (x.op = "bonus" /\ ~(row.active /\ ~x.seen[i].active)) \/ row.active
  BY <1>4, <1>8 DEF Alike
<1>. QED
  BY <1>6, <1>12, <1>13, <1>14

\* A key that is added: it was there already, or its peer is new.
LEMMA FineKey ==
  ASSUME NEW c, Quiet(c), calls[c].at \in {"add", "again"}, NEW else,
         AddPeer(c, calls[c].mine[calls[c].row].key, "store", else),
         else = "retry" => calls[c].at = "add" /\ calls[c].mine[calls[c].row].peer # 0,
         else \in {"end", "retry"}, UNCHANGED <<account, device, rows>>
  PROVE  Fine(c)
<1>1. PICK x, y, i : x = calls[c] /\ y = calls'[c] /\ i = calls[c].row
  OBVIOUS
<1>2. Up' = Up
  BY UpSame
<1>3. /\ TunnelInv /\ c \in DOMAIN calls /\ i \in DOMAIN x.mine /\ Sees(x, rows) /\ Registers(x, rows, store, Up)
      /\ Views(x, rows, store, Up) /\ AllNamed(x, rows, store) /\ live = Keys(store)
      /\ i = x.row /\ i \in DOMAIN rows /\ DOMAIN x.seen = DOMAIN x.mine /\ x.at \in {"add", "again"}
      /\ AddTrue(x, store, nextPeer, excused) /\ x.mine[i] \in Row /\ RowTrue(x.mine[i], store, nextPeer, excused)
  BY <1>1, QuietCall, CallIs DEF WithRow, RowTrue
<1>4. PICK k \in Key : k = x.mine[i].key
  BY <1>3 DEF Row
<1>5. /\ DOMAIN x.mine = {i} /\ rows[i].active /\ (x.op = "register" => x.dev \in Up)
      /\ Alike(x.mine[i], rows[i]) /\ Alike(x.seen[i], rows[i]) /\ k = rows[i].key
      /\ x.at = "again" => k \notin Keys(store)
  BY <1>3, <1>4 DEF Registers, Adding, Sees, Level, Alike
<1>6. /\ live' = Keys(store') /\ nextPeer \notin DOMAIN store
      /\ \/ k \in Keys(store) /\ GoesOn(c, else, 0) /\ store' = store
         \/ /\ k \notin Keys(store) /\ GoesOn(c, "store", nextPeer)
            /\ DOMAIN store' = DOMAIN store \union {nextPeer} /\ store'[nextPeer] = k
            /\ \A q \in DOMAIN store : store'[q] = store[q]
  <2>1. clash' = {}
    BY DEF Quiet
  <2>2. AddPeer(c, k, "store", else)
    BY <1>1, <1>4
  <2>. QED
    BY <1>3, <2>1, <2>2, AddedClean
<1>7. CASE k \in Keys(store) /\ GoesOn(c, else, 0) /\ store' = store
  <2>1. x.at = "add" /\ live' = live
    BY <1>3, <1>5, <1>6, <1>7
  <2>2. CASE else = "end"
    <3>1. Calm(rows, store, Up)
      BY <1>1, <2>1, CalmAt DEF Level
    <3>. QED
      BY <1>2, <1>7, <2>1, <2>2, <3>1, FineEnded DEF GoesOn
  <2>3. CASE else = "retry"
    <3>1. /\ DOMAIN calls' = DOMAIN calls /\ SameCall(x, y, "retry") /\ y.seen = x.seen /\ y.mine = x.mine
      <4>1. GoesOn(c, "retry", 0)
        BY <1>7, <2>3
      <4>. QED
        BY <1>1, <1>3, <4>1, ResultIs
    <3>2. \A j \in DOMAIN rows : View(y, j, rows) = View(x, j, rows)
      BY <3>1 DEF View
    <3>3. Views(y, rows, store, Up)
      BY <1>3, <2>1, <3>1, <3>2 DEF Views, Unsettled, SameCall
    <3>4. AllNamed(y, rows, store)
      BY <1>3, <2>1, <3>2 DEF AllNamed
    <3>5. Sees(y, rows)
      BY <1>3, <2>1, <3>1 DEF Sees, SameCall, Level
    <3>6. Registers(y, rows, store, Up)
      BY <1>1, <1>3, <1>5, <2>1, <2>3, <3>1 DEF Registers, SameCall, Adding
    <3>7. Account(y, rows, store, Up)
      BY <3>1, <3>3, <3>4, <3>5, <3>6 DEF Account, Deactivates, Revokes, SameCall
    <3>. QED
      BY <1>1, <1>2, <1>7, <2>1, <3>1, <3>7, FineMoves
  <2>. QED
    BY <2>2, <2>3
<1>8. CASE /\ k \notin Keys(store) /\ GoesOn(c, "store", nextPeer)
           /\ DOMAIN store' = DOMAIN store \union {nextPeer} /\ store'[nextPeer] = k
           /\ \A q \in DOMAIN store : store'[q] = store[q]
  <2>1. /\ DOMAIN calls' = DOMAIN calls /\ SameCall(x, y, "store") /\ y.seen = x.seen /\ y.mine = x.mine
        /\ y.got = nextPeer
    <3>1. /\ DOMAIN calls' = DOMAIN calls /\ SameCall(calls[c], calls'[c], "store")
          /\ calls'[c].seen = calls[c].seen /\ calls'[c].mine = calls[c].mine /\ calls'[c].got = nextPeer
      BY <1>3, <1>8, ResultIs
    <3>. QED
      BY <1>1, <3>1
  <2>2. \A j \in DOMAIN rows : View(y, j, rows) = View(x, j, rows)
    BY <2>1 DEF View
  <2>3. x.mine[i].peer \notin DOMAIN store \/ x.mine[i].peer = 0
    <3>1. View(x, i, rows) = x.mine[i]
      BY <1>3 DEF View
    <3>2. Unsettled(x, i, x.mine[i], store, Up)
      BY <1>3, <3>1 DEF Views
    <3>3. x.mine[i].peer \in DOMAIN store => store[x.mine[i].peer] # k
      BY <1>8 DEF Keys
    <3>. QED
      BY <1>3, <1>4, <3>2, <3>3 DEF Unsettled
  <2>4. x.mine[i].peer # nextPeer
    <3>1. x.mine[i].peer < nextPeer /\ nextPeer \in Nat
      BY <1>3 DEF RowTrue, TunnelInv, NodeTrue
    <3>. QED
      BY <3>1
  <2>5. ASSUME NEW j \in DOMAIN rows
        PROVE  Unsettled(y, j, View(y, j, rows), store', Up)
    <3>1. Unsettled(x, j, View(x, j, rows), store, Up)
      BY <1>3 DEF Views
    <3>2. CASE j = i
      <4>1. View(y, j, rows) = x.mine[i] /\ View(x, j, rows) = x.mine[i]
        BY <1>3, <2>2, <3>2 DEF View
      <4>. QED
        BY <1>3, <1>5, <1>8, <2>1, <2>3, <2>4, <3>1, <3>2, <4>1 DEF Unsettled, SameCall, Alike
    <3>3. CASE j # i
      <4>1. Settled(View(x, j, rows), store, Up)
        BY <1>3, <3>1, <3>3, SettledOther
      <4>2. Settled(View(y, j, rows), store', Up)
        BY <1>8, <2>2, <4>1 DEF Settled
      <4>. QED
        BY <1>3, <2>1, <3>3, <4>2, SettledIs DEF SameCall
    <3>. QED
      BY <3>2, <3>3
  <2>6. AllNamed(y, rows, store')
    BY <1>3, <1>8, <2>1, <2>2 DEF AllNamed, SameCall
  <2>7. Sees(y, rows)
    BY <1>3, <2>1 DEF Sees, SameCall, Level
  <2>8. Registers(y, rows, store', Up)
    BY <1>3, <1>5, <1>8, <2>1 DEF Registers, SameCall, Adding
  <2>9. Account(y, rows, store', Up)
    BY <2>1, <2>5, <2>6, <2>7, <2>8 DEF Account, Deactivates, Revokes, Views, SameCall
  <2>. QED
    BY <1>1, <1>2, <1>3, <1>6, <2>1, <2>9 DEF Fine
<1>. QED
  BY <1>6, <1>7, <1>8

LEMMA FineAdd ==
  ASSUME NEW c, Quiet(c), Add(c) \/ AddAgain(c)
  PROVE  Fine(c)
<1>1. CASE Add(c)
  <2>1. PICK else : /\ else = IF calls[c].op = "register" /\ calls[c].mine[calls[c].row].peer # 0 THEN "retry" ELSE "end"
                    /\ AddPeer(c, calls[c].mine[calls[c].row].key, "store", else)
    BY <1>1 DEF Add
  <2>. QED
    BY <1>1, <2>1, FineKey DEF Add, database
<1>2. CASE AddAgain(c)
  BY <1>2, FineKey DEF AddAgain, database
<1>. QED
  BY <1>1, <1>2

LEMMA FineStore ==
  ASSUME NEW c, Quiet(c), Store(c)
  PROVE  Fine(c)
<1>1. PICK x, i, row : x = calls[c] /\ i = calls[c].row /\ row = [rows[i] EXCEPT !.peer = x.got]
  OBVIOUS
<1>2. /\ x.at = "store" /\ UNCHANGED <<account, device, live, store>> /\ calls' = Ended(c)
      /\ rows' = [rows EXCEPT ![i].peer = x.got]
  BY <1>1 DEF Store, Unchanged, node
<1>3. Up' = Up
  BY <1>2, UpSame
<1>4. /\ TunnelInv /\ i \in DOMAIN x.mine /\ Sees(x, rows) /\ Registers(x, rows, store, Up)
      /\ Views(x, rows, store, Up) /\ AllNamed(x, rows, store) /\ 0 \notin DOMAIN store
      /\ i = x.row /\ i \in DOMAIN rows /\ AddTrue(x, store, nextPeer, excused) /\ rows[i] \in Row
  BY <1>1, <1>2, QuietCall DEF WithRow, TunnelInv, RowsTrue, RowTrue
<1>5. /\ DOMAIN x.mine = {i} /\ rows[i].active /\ Alike(x.mine[i], rows[i]) /\ Alike(x.seen[i], rows[i])
      /\ x.got \in DOMAIN store /\ store[x.got] = rows[i].key
  BY <1>2, <1>4 DEF Registers, Adding, Sees, Level, Alike, AddTrue
<1>6. /\ DOMAIN rows' = DOMAIN rows /\ rows'[i] = row /\ \A j \in DOMAIN rows : j # i => rows'[j] = rows[j]
  BY <1>1, <1>2, <1>4
<1>7. row.peer = x.got /\ row.key = rows[i].key /\ row.active = rows[i].active /\ row.dev = rows[i].dev
  BY <1>1, <1>4 DEF Row
<1>8. View(x, i, rows) = x.mine[i] /\ \A j \in DOMAIN rows : j # i => View(x, j, rows) = rows[j]
  BY <1>4, <1>5 DEF View
<1>9. ASSUME NEW j \in DOMAIN rows'
      PROVE  Settled(rows'[j], store, Up)
  <2>1. Unsettled(x, j, View(x, j, rows), store, Up)
    BY <1>4, <1>6 DEF Views
  <2>2. CASE j = i
    BY <1>5, <1>6, <1>7, <1>8, <2>1, <2>2 DEF Unsettled, Settled, Alike
  <2>3. CASE j # i
    BY <1>2, <1>4, <1>6, <1>8, <2>1, <2>3, SettledOther
  <2>. QED
    BY <2>2, <2>3
<1>10. ASSUME NEW p \in DOMAIN store
       PROVE  \E j \in DOMAIN rows' : rows'[j].peer = p
  <2>1. CASE p = x.got
    BY <1>4, <1>6, <1>7, <2>1
  <2>2. CASE p # x.got
    <3>1. PICK j \in DOMAIN rows : View(x, j, rows).peer = p
      BY <1>4, <2>2 DEF AllNamed
    <3>2. j # i
      <4>1. Unsettled(x, i, x.mine[i], store, Up)
        BY <1>4, <1>8 DEF Views
      <4>. QED
        BY <1>2, <1>4, <1>8, <3>1, <4>1 DEF Unsettled
    <3>. QED
      BY <1>6, <1>8, <3>1, <3>2
  <2>. QED
    BY <2>1, <2>2
<1>11. Calm(rows', store, Up)
  BY <1>9, <1>10 DEF Calm
<1>. QED
  BY <1>2, <1>3, <1>11, FineEnded

LEMMA FineFlush ==
  ASSUME NEW c, Quiet(c), Flush(c)
  PROVE  Fine(c)
<1>1. PICK x, y, ids : /\ x = calls[c] /\ y = calls'[c]
                       /\ ids = IF calls[c].op = "revoke" THEN RowsOf(calls[c].dev) ELSE DOMAIN rows
  OBVIOUS
<1>2. PICK mine, todo : /\ mine = [i \in ids |-> [rows[i] EXCEPT !.active = FALSE]]
                        /\ todo = {i \in ids : rows[i].peer # 0}
  OBVIOUS
<1>3. /\ x.at = "flush" /\ UNCHANGED <<account, device, rows, live, store>>
      /\ calls' = [calls EXCEPT ![c].seen = Loaded(ids), ![c].mine = mine, ![c].todo = todo, ![c].at = "each"]
  BY <1>1, <1>2 DEF Flush, node
<1>4. Up' = Up
  BY <1>3, UpSame
<1>5. /\ TunnelInv /\ c \in DOMAIN calls /\ OnLine(x) /\ (x.op = "register" => x.dev \in Up)
      /\ ids \subseteq DOMAIN rows
  BY <1>1, <1>3, QuietCall DEF Registers, RowsOf
<1>6. Calm(rows, store, Up)
  BY <1>1, <1>3, CalmAt DEF Empty
<1>7. /\ DOMAIN calls' = DOMAIN calls
      /\ y = [x EXCEPT !.seen = Loaded(ids), !.mine = mine, !.todo = todo, !.at = "each"]
  BY <1>1, <1>3, <1>5
<1>8. /\ y.op = x.op /\ y.dev = x.dev /\ y.at = "each" /\ y.todo = todo /\ y.seen = Loaded(ids) /\ y.mine = mine
  BY <1>5, <1>7 DEF OnLine
<1>9. DOMAIN y.mine = ids /\ DOMAIN y.seen = ids /\ \A i \in ids : y.seen[i] = rows[i]
  BY <1>2, <1>8, LoadedIs
<1>10. ASSUME NEW i \in ids
       PROVE  /\ y.mine[i].active = FALSE /\ y.mine[i].peer = rows[i].peer
              /\ y.mine[i].key = rows[i].key /\ y.mine[i].dev = rows[i].dev
  <2>1. rows[i] \in Row /\ y.mine[i] = [rows[i] EXCEPT !.active = FALSE]
    BY <1>2, <1>5, <1>8 DEF TunnelInv, RowsTrue, RowTrue
  <2>. QED
    BY <2>1 DEF Row
<1>11. ASSUME NEW i \in DOMAIN rows
       PROVE  Unsettled(y, i, View(y, i, rows), store, Up)
  <2>1. Settled(rows[i], store, Up)
    BY <1>6 DEF Calm
  <2>2. CASE i \in ids
    <3>1. View(y, i, rows) = y.mine[i] /\ (rows[i].peer # 0 => i \in todo)
      BY <1>2, <1>9, <2>2 DEF View
    <3>. QED
      BY <1>8, <1>10, <2>1, <2>2, <3>1, ZenonT(60) DEF Unsettled, Settled
  <2>3. CASE i \notin ids
    <3>1. View(y, i, rows) = rows[i]
      BY <1>9, <2>3 DEF View
    <3>. QED
      BY <1>8, <2>1, <3>1, SettledIs
  <2>. QED
    BY <2>2, <2>3
<1>12. Sees(y, rows)
  <2>1. y.at \notin Level
    BY <1>8 DEF Level
  <2>. QED
    BY <1>8, <1>9, <1>10, <2>1 DEF Sees, Alike
<1>13. AllNamed(y, rows, store)
  <2>1. \A i \in DOMAIN rows : View(y, i, rows).peer = rows[i].peer
    BY <1>9, <1>10 DEF View
  <2>. QED
    BY <1>6, <2>1 DEF AllNamed, Calm
<1>14. Registers(y, rows, store, Up) /\ Deactivates(y, rows)
  BY <1>5, <1>8 DEF Registers, Deactivates, Adding
<1>15. Revokes(y, rows)
  <2>1. \A i \in ids : y.mine[i].active = FALSE /\ (y.mine[i].peer # 0 <=> i \in y.todo)
    BY <1>2, <1>8, <1>10
  <2>2. \A i \in DOMAIN rows : y.op = "toggle" \/ rows[i].dev = y.dev => i \in ids
    BY <1>1, <1>8 DEF RowsOf
  <2>. QED
    BY <1>9, <2>1, <2>2 DEF Revokes
<1>16. Account(y, rows, store, Up)
  BY <1>8, <1>11, <1>12, <1>13, <1>14, <1>15 DEF Account, Views
<1>. QED
  BY <1>1, <1>3, <1>4, <1>7, <1>16, FineMoves

LEMMA FineEach ==
  ASSUME NEW c, Quiet(c), Each(c)
  PROVE  Fine(c)
<1>1. PICK x, y : x = calls[c] /\ y = calls'[c]
  OBVIOUS
<1>2. x.at = "each" /\ UNCHANGED <<account, device, rows>>
  BY <1>1 DEF Each, database
<1>3. PICK i \in x.todo : /\ RemovePeer(x.mine[i].peer)
                          /\ calls' = [calls EXCEPT ![c].mine[i].peer = 0, ![c].todo = @ \ {i}]
  BY <1>1 DEF Each
<1>4. Up' = Up
  BY <1>2, UpSame
<1>5. /\ TunnelInv /\ c \in DOMAIN calls /\ OnLine(x) /\ Sees(x, rows) /\ Registers(x, rows, store, Up)
      /\ Revokes(x, rows) /\ DOMAIN x.mine \subseteq DOMAIN rows /\ DOMAIN x.seen = DOMAIN x.mine
  BY <1>1, QuietCall
<1>6. i \in DOMAIN x.mine /\ x.mine[i].peer # 0
  BY <1>2, <1>5 DEF Revokes, OnLine
<1>7. /\ DOMAIN calls' = DOMAIN calls
      /\ y = [x EXCEPT !.mine = [x.mine EXCEPT ![i] = [x.mine[i] EXCEPT !.peer = 0]], !.todo = x.todo \ {i}]
  BY <1>1, <1>3, <1>5
<1>8. /\ y.op = x.op /\ y.dev = x.dev /\ y.row = x.row /\ y.at = "each" /\ y.todo = x.todo \ {i}
      /\ y.seen = x.seen /\ y.mine = [x.mine EXCEPT ![i] = [x.mine[i] EXCEPT !.peer = 0]]
  BY <1>2, <1>5, <1>7 DEF OnLine
<1>9. /\ DOMAIN y.mine = DOMAIN x.mine /\ y.mine[i] = [x.mine[i] EXCEPT !.peer = 0]
      /\ \A j \in DOMAIN x.mine : j # i => y.mine[j] = x.mine[j]
  BY <1>6, <1>8
<1>10. Dropped(x, y, i)
  <2>1. x = calls[c] /\ i \in DOMAIN x.mine /\ x.at \in {"replace", "remove", "each"} /\ x.mine[i].peer # 0
    BY <1>1, <1>2, <1>6
  <2>2. y.at \in {"set", "gone", "each"} /\ (y.at = "each" <=> x.at = "each")
    BY <1>2, <1>8
  <2>3. (x.at = "each" => y.todo = x.todo \ {i}) /\ (x.at # "each" => i = x.row)
    BY <1>2, <1>8
  <2>. QED
    BY <1>3, <1>9, <2>1, <2>2, <2>3, WithoutPeer
<1>11. Sees(y, rows)
  <2>1. y.at \notin Level /\ y.at = "each"
    BY <1>8 DEF Level
  <2>2. ASSUME NEW j \in DOMAIN x.mine
        PROVE  /\ Alike(x.seen[j], rows[j]) /\ y.mine[j].dev = rows[j].dev /\ y.mine[j].key = rows[j].key
    <3>1. Alike(x.seen[j], rows[j]) /\ x.mine[j].dev = rows[j].dev /\ x.mine[j].key = rows[j].key
      BY <1>2, <1>5 DEF Sees
    <3>2. y.mine[j].dev = x.mine[j].dev /\ y.mine[j].key = x.mine[j].key
      BY <1>9, <1>10 DEF Dropped
    <3>. QED
      BY <3>1, <3>2
  <2>. QED
    BY <1>8, <1>9, <2>1, <2>2 DEF Sees
<1>12. Registers(y, rows, store', Up) /\ Deactivates(y, rows)
  BY <1>5, <1>8 DEF Registers, Deactivates, Adding
<1>13. Revokes(y, rows)
  <2>1. ASSUME NEW j \in DOMAIN y.mine
        PROVE  ~y.mine[j].active /\ (y.mine[j].peer # 0 <=> j \in y.todo)
    <3>1. j \in DOMAIN x.mine /\ ~x.mine[j].active /\ (x.mine[j].peer # 0 <=> j \in x.todo)
      BY <1>2, <1>5, <1>9 DEF Revokes
    <3>2. CASE j = i
      BY <1>8, <1>10, <3>1, <3>2 DEF Dropped
    <3>3. CASE j # i
      BY <1>8, <1>9, <3>1, <3>3
    <3>. QED
      BY <3>2, <3>3
  <2>. QED
    BY <1>2, <1>5, <1>8, <1>9, <2>1 DEF Revokes
<1>14. Account(y, rows, store', Up)
  BY <1>8, <1>10, <1>11, <1>12, <1>13 DEF Account, Dropped
<1>. QED
  BY <1>1, <1>2, <1>4, <1>5, <1>7, <1>10, <1>14 DEF Fine, Dropped

LEMMA FineFinish ==
  ASSUME NEW c, Quiet(c), Finish(c)
  PROVE  Fine(c)
<1>1. PICK x : x = calls[c]
  OBVIOUS
<1>2. /\ x.at \in {"each", "finish"} /\ (x.at = "each" => x.todo = {}) /\ calls' = Ended(c)
      /\ rows' = Written(c) /\ UNCHANGED <<live, store>>
  BY <1>1 DEF Finish, Commit, Unchanged, node
<1>3. /\ TunnelInv /\ c \in DOMAIN calls /\ OnLine(x) /\ Views(x, rows, store, Up) /\ AllNamed(x, rows, store)
      /\ Revokes(x, rows) /\ Sees(x, rows) /\ device \in [Device -> {"none", "active", "revoked"}]
      /\ account \in [active : BOOLEAN, expired : BOOLEAN]
  BY <1>1, QuietCall DEF TunnelInv, Plainly
<1>4. DOMAIN rows' = DOMAIN rows /\ \A j \in DOMAIN rows : Alike(rows'[j], View(x, j, rows))
  BY <1>1, <1>2, CommittedAlike
<1>5. CASE x.at = "finish"
  <2>1. Calm(rows', store, Up)
    BY <1>3, <1>4, <1>5, CalmCommitted
  <2>2. /\ x.op \in {"toggle", "page"}
        /\ x.op = "toggle" => account' = [account EXCEPT !.active = TRUE] /\ device' = device
        /\ x.op = "page" => UNCHANGED <<account, device>>
    <3>1. x.op \in {"toggle", "page"}
      BY <1>3, <1>5 DEF OnLine
    <3>2. x.op = "toggle" => account' = [account EXCEPT !.active = (x.at = "finish")] /\ device' = device
      BY <1>1 DEF Finish
    <3>3. x.op = "page" => UNCHANGED <<account, device>>
      BY <1>1 DEF Finish
    <3>. QED
      BY <1>5, <3>1, <3>2, <3>3
  <2>3. Up \subseteq Up'
    BY <1>3, <2>2 DEF Up
  <2>. QED
    BY <1>2, <2>1, <2>3, CalmMore, FineEnded
<1>6. CASE x.at = "each"
  <2>1. /\ x.op = "revoke" /\ x.dev \in Device /\ device' = [device EXCEPT ![x.dev] = "revoked"] /\ account' = account
        \/ x.op = "toggle"
    <3>1. x.op = "revoke" => device' = [device EXCEPT ![x.dev] = "revoked"] /\ account' = account
      BY <1>1 DEF Finish
    <3>. QED
      BY <1>3, <1>6, <3>1 DEF OnLine
  <2>2. \A d \in Up : x.op = "revoke" /\ d # x.dev => d \in Up'
    BY <1>3, <2>1 DEF Up
  <2>3. ASSUME NEW j \in DOMAIN rows'
        PROVE  Settled(rows'[j], store, Up')
    <3>1. Unsettled(x, j, View(x, j, rows), store, Up) /\ Alike(rows'[j], View(x, j, rows))
      BY <1>3, <1>4 DEF Views
    <3>2. View(x, j, rows).active => j \notin DOMAIN x.mine
      BY <1>3, <1>6 DEF View, Revokes
    <3>3. View(x, j, rows).active => x.op = "revoke" /\ View(x, j, rows).dev # x.dev
      BY <1>3, <1>4, <1>6, <2>1, <3>2 DEF View, Revokes
    <3>4. View(x, j, rows).active => View(x, j, rows).dev \in Up'
      BY <2>2, <3>1, <3>3 DEF Unsettled
    <3>5. View(x, j, rows).peer # 0 => /\ View(x, j, rows).active /\ View(x, j, rows).peer \in DOMAIN store
                                      /\ store[View(x, j, rows).peer] = View(x, j, rows).key
      BY <1>2, <1>6, <3>1 DEF Unsettled
    <3>. QED
      BY <3>1, <3>4, <3>5 DEF Settled, Alike
  <2>4. \A p \in DOMAIN store : \E j \in DOMAIN rows' : rows'[j].peer = p
    BY <1>3, <1>4, <1>6 DEF AllNamed, Alike
  <2>5. Calm(rows', store, Up')
    BY <2>3, <2>4 DEF Calm
  <2>. QED
    BY <1>2, <2>5, FineEnded
<1>. QED
  BY <1>2, <1>5, <1>6

\* A session that has changed row i.
RowChanged(x, y, i, row, at) ==
  /\ SameCall(x, y, at) /\ y.seen = x.seen /\ DOMAIN y.mine = DOMAIN x.mine /\ y.mine[i] = row
  /\ \A j \in DOMAIN x.mine : j # i => y.mine[j] = x.mine[j]

LEMMA RowChangedIs ==
  ASSUME TunnelInv, NEW c \in DOMAIN calls, NEW i \in DOMAIN calls[c].mine, NEW row, NEW at,
         calls' = Change(c, i, row, at)
  PROVE  DOMAIN calls' = DOMAIN calls /\ RowChanged(calls[c], calls'[c], i, row, at)
<1>1. /\ DOMAIN calls' = DOMAIN calls /\ SameCall(calls[c], calls'[c], at) /\ calls'[c].seen = calls[c].seen
      /\ DOMAIN calls'[c].mine = DOMAIN calls[c].mine /\ calls'[c].mine[i] = row
      /\ \A j \in DOMAIN calls[c].mine : j # i => calls'[c].mine[j] = calls[c].mine[j]
  BY ChangeIs
<1>. QED
  BY <1>1 DEF RowChanged

\* A call that goes on as if nothing had happened.
LEMMA StillCalm ==
  ASSUME NEW c, Quiet(c), NEW x, x = calls[c], NEW y, y = calls'[c],
         x.at \in Jobs \union {"mark"}, y.at \in Jobs,
         DOMAIN calls' = DOMAIN calls, UNCHANGED <<account, device, rows, live, store>>,
         y.op = x.op, y.dev = x.dev, y.seen = x.seen, DOMAIN y.mine = DOMAIN x.mine,
         \A i \in DOMAIN x.mine : Alike(y.mine[i], x.mine[i])
  PROVE  Fine(c)
<1>1. /\ Sees(x, rows) /\ DOMAIN x.mine \subseteq DOMAIN rows /\ (x.op = "register" => x.dev \in Up)
      /\ x.at \in Level
  BY QuietCall DEF Registers, Jobs, Level
<1>2. Calm(rows, store, Up) /\ Up' = Up
  BY <1>1, CalmAt, UpSame DEF Jobs
<1>3. \A i \in DOMAIN y.mine : Alike(y.seen[i], rows[i]) /\ Alike(y.mine[i], rows[i])
  BY <1>1 DEF Sees, Alike
<1>4. Account(y, rows, store, Up)
  BY <1>1, <1>2, <1>3, AccountOf
<1>. QED
  BY <1>2, <1>4, FineMoves

LEMMA FineNext1 ==
  ASSUME NEW c, Quiet(c), Next1(c)
  PROVE  Fine(c)
<1>1. PICK x, y : x = calls[c] /\ y = calls'[c]
  OBVIOUS
<1>2. x.at = "next" /\ UNCHANGED <<account, device, rows, live, store>>
  BY <1>1 DEF Next1, database, node, history
<1>3. /\ TunnelInv /\ c \in DOMAIN calls /\ OnLine(x) /\ Sees(x, rows) /\ DOMAIN x.mine \subseteq DOMAIN rows
      /\ Registers(x, rows, store, Up) /\ Views(x, rows, store, Up) /\ AllNamed(x, rows, store)
  BY <1>1, QuietCall
<1>4. Calm(rows, store, Up) /\ Up' = Up
  BY <1>1, <1>2, CalmAt, UpSame DEF Level
<1>5. CASE calls' = Ended(c)
  BY <1>2, <1>4, <1>5, FineEnded
<1>6. CASE calls' = To(c, "finish")
  <2>1. /\ DOMAIN calls' = DOMAIN calls /\ SameCall(x, y, "finish") /\ y.seen = x.seen /\ y.mine = x.mine
    BY <1>1, <1>3, <1>6, ToIs
  <2>2. \A i \in DOMAIN x.mine : Alike(y.mine[i], x.mine[i])
    BY <2>1 DEF Alike
  <2>. QED
    BY <1>1, <1>2, <2>1, <2>2, StillCalm DEF Jobs, SameCall
<1>7. ASSUME NEW i \in x.todo, NEW at \in {"poll", "mark"},
             calls' = [calls EXCEPT ![c].row = i, ![c].todo = @ \ {i}, ![c].at = at]
      PROVE  Fine(c)
  <2>1. DOMAIN calls' = DOMAIN calls /\ y = [x EXCEPT !.row = i, !.todo = x.todo \ {i}, !.at = at]
    BY <1>1, <1>3, <1>7
  <2>2. y.op = x.op /\ y.dev = x.dev /\ y.at = at /\ y.seen = x.seen /\ y.mine = x.mine
    BY <1>3, <2>1 DEF OnLine
  <2>3. \A j \in DOMAIN rows : View(y, j, rows) = View(x, j, rows)
    BY <2>2 DEF View
  <2>4. Views(y, rows, store, Up)
    <3>1. ASSUME NEW j \in DOMAIN rows
          PROVE  Unsettled(y, j, View(y, j, rows), store, Up)
      <4>1. Unsettled(x, j, View(x, j, rows), store, Up)
        BY <1>3 DEF Views
      <4>2. Settled(View(y, j, rows), store, Up)
        BY <1>2, <2>3, <4>1, SettledOther
      <4>. QED
        BY <2>2, <4>2, SettledIs
    <3>. QED
      BY <3>1 DEF Views
  <2>5. Sees(y, rows)
    <3>1. x.at \in Level /\ y.at \in Level /\ x.at # "save" /\ y.at # "save"
      BY <1>2, <2>2 DEF Level
    <3>. QED
      BY <1>3, <2>2, <3>1 DEF Sees
  <2>6. AllNamed(y, rows, store)
    BY <1>2, <1>3, <2>3 DEF AllNamed
  <2>7. Registers(y, rows, store, Up)
    BY <1>3, <2>2 DEF Registers, Adding
  <2>8. Deactivates(y, rows) /\ Revokes(y, rows)
    BY <2>2 DEF Deactivates, Revokes
  <2>9. Account(y, rows, store, Up)
    BY <2>2, <2>4, <2>5, <2>6, <2>7, <2>8 DEF Account
  <2>. QED
    BY <1>1, <1>2, <1>4, <2>1, <2>9, FineMoves
<1>8. ASSUME NEW i \in calls[c].todo,
             calls' = [calls EXCEPT ![c].row = i, ![c].todo = @ \ {i},
                                    ![c].at = IF calls[c].op \in {"traffic", "page"} THEN "poll" ELSE "mark"]
      PROVE  Fine(c)
  <2>1. PICK at \in {"poll", "mark"} : at = IF calls[c].op \in {"traffic", "page"} THEN "poll" ELSE "mark"
    OBVIOUS
  <2>. QED
    BY <1>1, <1>7, <1>8, <2>1
<1>. QED
  BY <1>5, <1>6, <1>8 DEF Next1

LEMMA FinePoll ==
  ASSUME NEW c, Quiet(c), Poll(c)
  PROVE  Fine(c)
<1>1. PICK x, y, i : x = calls[c] /\ y = calls'[c] /\ i = calls[c].row
  OBVIOUS
<1>2. x.at = "poll" /\ UNCHANGED <<account, device, rows, live, store>>
  BY <1>1 DEF Poll, database, node, history
<1>3. /\ TunnelInv /\ c \in DOMAIN calls /\ i \in DOMAIN x.mine /\ x.mine[i] \in Row
  BY <1>1, <1>2, QuietCall, CallIs DEF WithRow, RowTrue
<1>4. CASE calls' = To(c, "next")
  <2>1. /\ DOMAIN calls' = DOMAIN calls /\ SameCall(x, y, "next") /\ y.seen = x.seen /\ y.mine = x.mine
    BY <1>1, <1>3, <1>4, ToIs
  <2>2. \A j \in DOMAIN x.mine : Alike(y.mine[j], x.mine[j])
    BY <2>1 DEF Alike
  <2>. QED
    BY <1>1, <1>2, <2>1, <2>2, StillCalm DEF Jobs, SameCall
<1>5. ASSUME NEW used, NEW last, NEW row, row = [x.mine[i] EXCEPT !.used = used, !.last = last],
             NEW at \in {"next", "count"}, calls' = Change(c, i, row, at)
      PROVE  Fine(c)
  <2>1. Alike(row, x.mine[i])
    BY <1>3, <1>5 DEF Row, Alike
  <2>2. /\ DOMAIN calls' = DOMAIN calls /\ SameCall(x, y, at) /\ y.seen = x.seen
        /\ DOMAIN y.mine = DOMAIN x.mine /\ y.mine[i] = row
        /\ \A j \in DOMAIN x.mine : j # i => y.mine[j] = x.mine[j]
    <3>1. DOMAIN calls' = DOMAIN calls /\ RowChanged(x, y, i, row, at)
      BY <1>1, <1>3, <1>5, RowChangedIs
    <3>. QED
      BY <3>1 DEF RowChanged
  <2>3. \A j \in DOMAIN x.mine : Alike(y.mine[j], x.mine[j])
    BY <2>1, <2>2 DEF Alike
  <2>. QED
    BY <1>1, <1>2, <2>2, <2>3, StillCalm DEF Jobs, SameCall
<1>6. ASSUME NEW now, NEW row,
             row = [x.mine[i] EXCEPT !.used = @ + Delta(now, x.mine[i].last), !.last = now],
             NEW at \in {"next", "count"}, calls' = Change(c, i, row, at)
      PROVE  Fine(c)
  <2>1. PICK used : used = x.mine[i].used + Delta(now, x.mine[i].last)
    OBVIOUS
  <2>2. row = [x.mine[i] EXCEPT !.used = used, !.last = now]
    BY <1>6, <2>1
  <2>. QED
    BY <1>5, <1>6, <2>2
<1>. QED
  BY <1>1, <1>4, <1>6 DEF Poll

LEMMA FineMark ==
  ASSUME NEW c, Quiet(c), Mark(c)
  PROVE  Fine(c)
<1>1. PICK x, y, i, row : /\ x = calls[c] /\ y = calls'[c] /\ i = calls[c].row
                          /\ row = [calls[c].mine[i] EXCEPT !.active = FALSE]
  OBVIOUS
<1>2. /\ x.at = "mark" /\ UNCHANGED <<account, device, rows, live, store>> /\ calls' = Change(c, i, row, "off")
  BY <1>1 DEF Mark, database, node, history
<1>3. Up' = Up
  BY <1>2, UpSame
<1>4. /\ TunnelInv /\ c \in DOMAIN calls /\ i \in DOMAIN x.mine /\ x.mine[i] \in Row /\ i = x.row
      /\ Sees(x, rows) /\ Registers(x, rows, store, Up) /\ Views(x, rows, store, Up) /\ AllNamed(x, rows, store)
      /\ DOMAIN x.seen = DOMAIN x.mine
  BY <1>1, <1>2, QuietCall, CallIs DEF WithRow, RowTrue
<1>5. /\ DOMAIN calls' = DOMAIN calls /\ SameCall(x, y, "off") /\ y.seen = x.seen
      /\ DOMAIN y.mine = DOMAIN x.mine /\ y.mine[i] = row
      /\ \A j \in DOMAIN x.mine : j # i => y.mine[j] = x.mine[j]
  <2>1. DOMAIN calls' = DOMAIN calls /\ RowChanged(x, y, i, row, "off")
    BY <1>1, <1>2, <1>4, RowChangedIs
  <2>. QED
    BY <2>1 DEF RowChanged
<1>6. row.dev = x.mine[i].dev /\ row.key = x.mine[i].key /\ row.peer = x.mine[i].peer /\ row.active = FALSE
  BY <1>1, <1>4 DEF Row
<1>7. ASSUME NEW j \in DOMAIN x.mine
      PROVE  Alike(x.seen[j], rows[j]) /\ Alike(x.mine[j], rows[j])
  BY <1>2, <1>4 DEF Sees, Level
<1>8. ASSUME NEW j \in DOMAIN rows
      PROVE  Unsettled(y, j, View(y, j, rows), store, Up)
  <2>1. Unsettled(x, j, View(x, j, rows), store, Up)
    BY <1>4 DEF Views
  <2>2. Settled(View(x, j, rows), store, Up)
    BY <1>2, <2>1, SettledOther
  <2>3. CASE j = i
    <3>1. View(y, j, rows) = row /\ View(x, j, rows) = x.mine[i]
      BY <1>4, <1>5, <2>3 DEF View
    <3>. QED
      BY <1>4, <1>5, <1>6, <2>2, <2>3, <3>1 DEF Unsettled, Settled, SameCall
  <2>4. CASE j # i
    <3>1. View(y, j, rows) = View(x, j, rows)
      BY <1>5, <2>4 DEF View
    <3>. QED
      BY <1>5, <2>2, <3>1, SettledIs DEF SameCall
  <2>. QED
    BY <2>3, <2>4
<1>9. Sees(y, rows)
  <2>1. y.at = "off" /\ y.row = i /\ y.at \notin Level
    BY <1>4, <1>5 DEF SameCall, Level
  <2>2. row.dev = rows[i].dev /\ row.key = rows[i].key
    BY <1>4, <1>6, <1>7 DEF Alike
  <2>. QED
    BY <1>5, <1>7, <2>1, <2>2 DEF Sees, Alike
<1>10. AllNamed(y, rows, store)
  <2>1. \A j \in DOMAIN rows : View(y, j, rows).peer = View(x, j, rows).peer
    BY <1>5, <1>6 DEF View
  <2>. QED
    BY <1>2, <1>4, <2>1 DEF AllNamed
<1>11. Registers(y, rows, store, Up) /\ Revokes(y, rows)
  BY <1>4, <1>5 DEF Registers, Revokes, Adding, SameCall
<1>12. Deactivates(y, rows)
  BY <1>4, <1>5, <1>6, <1>7 DEF Deactivates, SameCall, Alike
<1>13. Account(y, rows, store, Up)
  BY <1>5, <1>8, <1>9, <1>10, <1>11, <1>12 DEF Account, Views, SameCall
<1>. QED
  BY <1>1, <1>2, <1>3, <1>5, <1>13, FineMoves

\* A commit of a job or of the end of a deactivation.
LEMMA FineCommit ==
  ASSUME NEW c, Quiet(c), NEW at, Commit(c, at), UNCHANGED <<account, device, live, store>>,
         \/ at \in {"end", "next", "mark"} /\ calls[c].at \in {"count", "gone"}
         \/ at = "next" /\ calls[c].at = "off" /\ calls[c].mine[calls[c].row].peer = 0
         \/ at = "remove" /\ calls[c].at = "off" /\ calls[c].mine[calls[c].row].peer # 0
  PROVE  Fine(c)
<1>1. PICK x, y : x = calls[c] /\ y = calls'[c]
  OBVIOUS
<1>2. rows' = Written(c) /\ calls' = (IF at = "end" THEN Ended(c) ELSE Committed(c, at))
  BY DEF Commit
<1>3. Up' = Up
  BY UpSame
<1>4. /\ TunnelInv /\ c \in DOMAIN calls /\ x.at \in {"count", "off", "gone"} /\ x.row \in DOMAIN x.mine
      /\ Sees(x, rows) /\ Registers(x, rows, store, Up) /\ Views(x, rows, store, Up) /\ AllNamed(x, rows, store)
      /\ Deactivates(x, rows) /\ DOMAIN x.mine \subseteq DOMAIN rows
  BY <1>1, QuietCall DEF WithRow
<1>5. DOMAIN rows' = DOMAIN rows /\ \A j \in DOMAIN rows : Alike(rows'[j], View(x, j, rows))
  BY <1>1, <1>2, CommittedAlike
<1>6. ASSUME at # "remove" PROVE Calm(rows', store, Up)
  <2>1. x.at \in {"count", "gone"} \/ (x.at = "off" /\ View(x, x.row, rows).peer = 0)
    BY <1>1, <1>4, <1>6 DEF View
  <2>. QED
    BY <1>4, <1>5, <2>1, CalmCommitted
<1>7. CASE at = "end"
  <2>1. calls' = Ended(c)
    BY <1>2, <1>7
  <2>. QED
    BY <1>3, <1>6, <1>7, <2>1, FineEnded
<1>8. ASSUME at # "end"
      PROVE  /\ DOMAIN calls' = DOMAIN calls /\ SameCall(x, y, at) /\ y.mine = x.mine /\ y.seen = x.mine
             /\ \A j \in DOMAIN x.mine : Alike(y.seen[j], rows'[j]) /\ Alike(y.mine[j], rows'[j])
  <2>1. nextPeer \in Nat /\ Later(store, nextPeer, excused, store, nextPeer, excused)
    BY <1>4 DEF TunnelInv, NodeTrue, Later
  <2>2. calls' = Committed(c, at) /\ at \in {"mark", "next", "remove"} /\ calls[c].at \in {"count", "off", "gone"}
    BY <1>2, <1>8
  <2>3. /\ DOMAIN calls' = DOMAIN calls /\ SameCall(calls[c], calls'[c], at)
        /\ calls'[c].mine = calls[c].mine /\ calls'[c].seen = calls[c].mine
    BY <1>4, <2>1, <2>2, CommittedTrue
  <2>4. \A j \in DOMAIN x.mine : Alike(x.mine[j], rows'[j])
    BY <1>4, <1>5 DEF View, Alike
  <2>. QED
    BY <1>1, <2>3, <2>4
<1>9. CASE at \in {"next", "mark"}
  <2>1. Account(y, rows', store, Up)
    <3>1. y.at \in Jobs /\ y.op = x.op /\ y.dev = x.dev /\ DOMAIN y.mine = DOMAIN x.mine
      BY <1>8, <1>9 DEF SameCall, Jobs
    <3>. QED
      BY <1>4, <1>5, <1>6, <1>8, <1>9, <3>1, AccountOf DEF Registers
  <2>. QED
    BY <1>1, <1>3, <1>8, <1>9, <2>1, FineMoves
<1>10. CASE at = "remove"
  <2>1. x.at = "off" /\ x.mine[x.row].peer # 0 /\ y.at = "remove" /\ y.row = x.row /\ y.op = x.op /\ y.dev = x.dev
    BY <1>1, <1>8, <1>10 DEF SameCall
  <2>2. \A j \in DOMAIN rows : Alike(View(y, j, rows'), View(x, j, rows))
    BY <1>5, <1>8, <1>10 DEF View, Alike
  <2>3. Views(y, rows', store, Up)
    <3>1. ASSUME NEW j \in DOMAIN rows'
          PROVE  Unsettled(y, j, View(y, j, rows'), store, Up)
      <4>1. Unsettled(x, j, View(x, j, rows), store, Up) /\ Alike(View(y, j, rows'), View(x, j, rows))
        BY <1>4, <1>5, <2>2 DEF Views
      <4>. QED
        BY <2>1, <4>1 DEF Unsettled, Alike
    <3>. QED
      BY <3>1 DEF Views
  <2>4. Sees(y, rows')
    <3>1. y.at \notin Level /\ y.at # "save"
      BY <2>1 DEF Level
    <3>. QED
      BY <1>8, <1>10, <2>1, <3>1 DEF Sees, Alike
  <2>5. AllNamed(y, rows', store)
    BY <1>4, <1>5, <2>1, <2>2 DEF AllNamed, Alike
  <2>6. Registers(y, rows', store, Up) /\ Revokes(y, rows')
    BY <1>4, <2>1 DEF Registers, Revokes, Adding
  <2>7. Deactivates(y, rows')
    BY <1>4, <1>8, <1>10, <2>1 DEF Deactivates, Alike
  <2>8. Account(y, rows', store, Up)
    BY <2>1, <2>3, <2>4, <2>5, <2>6, <2>7 DEF Account
  <2>. QED
    BY <1>1, <1>3, <1>8, <1>10, <2>8, FineMoves
<1>. QED
  BY <1>7, <1>9, <1>10

LEMMA FineCommits ==
  ASSUME NEW c, Quiet(c), Count(c) \/ Off(c) \/ Gone(c)
  PROVE  Fine(c)
<1>1. ASSUME Count(c) PROVE Fine(c)
  <2>1. PICK at \in {"mark", "next"} : Commit(c, at)
    BY <1>1 DEF Count
  <2>. QED
    BY <1>1, <2>1, FineCommit DEF Count, Unchanged, node
<1>2. ASSUME Off(c) PROVE Fine(c)
  <2>1. PICK at : /\ Commit(c, at)
                  /\ \/ at = "next" /\ calls[c].mine[calls[c].row].peer = 0
                     \/ at = "remove" /\ calls[c].mine[calls[c].row].peer # 0
    BY <1>2 DEF Off
  <2>. QED
    BY <1>2, <2>1, FineCommit DEF Off, Unchanged, node
<1>3. ASSUME Gone(c) PROVE Fine(c)
  <2>1. PICK at \in {"end", "next"} : Commit(c, at)
    BY <1>3 DEF Gone
  <2>. QED
    BY <1>3, <2>1, FineCommit DEF Gone, Unchanged, node
<1>. QED
  BY <1>1, <1>2, <1>3

LEMMA FineLocked ==
  ASSUME NEW c, Quiet(c), Locked(c)
  PROVE  Fine(c)
<1>1. lock \in {None} \union DOMAIN calls /\ DOMAIN calls = {c}
  BY DEF Quiet, TunnelInv, LockTrue
<1>. QED
  BY <1>1 DEF Locked, MayWrite

\* Every line of the one call.
LEMMA FineStep ==
  ASSUME NEW c, Quiet(c), Step(c)
  PROVE  Fine(c)
<1>1. ASSUME EnrollSave(c) \/ LoadRow(c) \/ Insert(c) \/ Replace(c) \/ Set(c) \/ Save(c)
      PROVE  Fine(c)
  BY <1>1, FineEnrollSave, FineLoadRow, FineInsert, FineReplace, FineSet, FineSave
<1>2. ASSUME Add(c) \/ Retry(c) \/ AddAgain(c) \/ Store(c) \/ Flush(c) \/ Each(c) \/ Finish(c)
      PROVE  Fine(c)
  BY <1>2, FineAdd, FineRetry, FineStore, FineFlush, FineEach, FineFinish
<1>3. ASSUME Next1(c) \/ Poll(c) \/ Count(c) \/ Mark(c) \/ Off(c) \/ Remove(c) \/ Gone(c) \/ Locked(c)
      PROVE  Fine(c)
  BY <1>3, FineNext1, FinePoll, FineCommits, FineMark, FineRemove, FineLocked
<1>. QED
  BY <1>1, <1>2, <1>3 DEF Step

\* A call begins on a calm table.
Fresh == /\ TunnelInv /\ clash = {} /\ clash' = {} /\ live = Keys(store)
         /\ DOMAIN calls = {} /\ Calm(rows, store, Up)

LEMMA FreshIs ==
  ASSUME TunnelInv, AccessInv, NEW op, NEW more, clash' = clash \union Overlap(op) \union more, clash' = {}
  PROVE  Fresh
<1>1. clash = {} /\ Overlap(op) = {}
  OBVIOUS
<1>2. calls = << >>
  BY <1>1 DEF Overlap
<1>3. DOMAIN calls = {}
  BY <1>2
<1>. QED
  BY <1>1, <1>3 DEF Fresh, AccessInv

LEMMA FreshBegins ==
  ASSUME Fresh, NEW c, NEW y, calls' = Put(calls, c, y), UNCHANGED <<database, node>>,
         Account(y, rows, store, Up)
  PROVE  Fine(c)
<1>1. DOMAIN calls' = {c} /\ calls'[c] = y
  BY DEF Fresh, Put
<1>2. UNCHANGED <<account, device, rows, live, store>>
  BY DEF database, node
<1>3. Up' = Up /\ live' = Keys(store')
  BY <1>2, UpSame DEF Fresh, Keys
<1>. QED
  BY <1>1, <1>2, <1>3 DEF Fine

LEMMA BeginFine ==
  ASSUME TunnelInv, AccessInv, NEW c, NEW op, NEW d, NEW at, NEW ids, NEW loaded, NEW rest,
         ids \subseteq DOMAIN rows, DOMAIN loaded = ids, \A i \in ids : loaded[i] = rows[i],
         Begin(c, op, d, at, loaded, rest), clash' = {},
         op = "register" => d \in Up,
         \/ at \in Jobs
         \/ at \in Empty /\ ids = {}
         \/ at = "add" /\ ids = {rest.row} /\ rows[rest.row].active
  PROVE  Fine(c)
<1>1. PICK y : y = [op |-> op, dev |-> d, at |-> at, key |-> rest.key, todo |-> rest.todo, row |-> rest.row,
                    got |-> 0, seen |-> loaded, mine |-> loaded]
  OBVIOUS
<1>2. calls' = Put(calls, c, y) /\ UNCHANGED <<database, node>> /\ clash' = clash \union Overlap(op) \union {}
  BY <1>1 DEF Begin
<1>3. Fresh
  BY <1>2, FreshIs
<1>4. y.op = op /\ y.dev = d /\ y.at = at /\ y.row = rest.row /\ y.seen = loaded /\ y.mine = loaded
  BY <1>1
<1>5. Account(y, rows, store, Up)
  BY <1>3, <1>4, AccountOf DEF Fresh, Alike
<1>. QED
  BY <1>2, <1>3, <1>5, FreshBegins

LEMMA UserFine ==
  ASSUME TunnelInv, AccessInv, clash' = {}, NEW c,
         \/ \E d \in Device : Enroll(c, d) \/ Drop(c, d) \/ \E k \in Key : Register(c, d, k)
         \/ \E d, victim \in Device : Revoke(c, d, victim)
         \/ \E d \in {None} : Toggle(c, d)
  PROVE  Fine(c)
<1>. DEFINE ids == {}
<1>1. ids \subseteq DOMAIN rows /\ DOMAIN << >> = ids /\ \A i \in ids : << >>[i] = rows[i]
  BY EmptyHanded
<1>2. ids = {}
  OBVIOUS
<1>. HIDE DEF ids
<1>3. ASSUME NEW op, NEW d, NEW at \in Jobs \union Empty, NEW rest, Begin(c, op, d, at, << >>, rest),
             op = "register" => d \in Up
      PROVE  Fine(c)
  BY <1>1, <1>2, <1>3, BeginFine
<1>4. {"bind", "rebind", "load", "flush", "finish"} \subseteq Jobs \union Empty
  BY DEF Jobs, Empty
<1>5. ASSUME NEW d \in Device, Enroll(c, d) PROVE Fine(c)
  BY <1>3, <1>4, <1>5 DEF Enroll
<1>6. ASSUME NEW d \in Device, Drop(c, d) PROVE Fine(c)
  BY <1>3, <1>4, <1>6 DEF Drop
<1>7. ASSUME NEW d \in Device, NEW k \in Key, Register(c, d, k) PROVE Fine(c)
  <2>1. d \in Up
    BY <1>7 DEF Register, Granted, Up
  <2>. QED
    BY <1>3, <1>4, <1>7, <2>1 DEF Register
<1>8. ASSUME NEW d \in Device, NEW victim \in Device, Revoke(c, d, victim) PROVE Fine(c)
  BY <1>3, <1>4, <1>8 DEF Revoke
<1>9. ASSUME Toggle(c, None) PROVE Fine(c)
  <2>1. PICK at \in {"flush", "finish"} : Begin(c, "toggle", None, at, << >>, Plain(0))
    BY <1>9 DEF Toggle
  <2>. QED
    BY <1>3, <1>4, <2>1
<1>. QED
  BY <1>5, <1>6, <1>7, <1>8, <1>9

LEMMA JobFine ==
  ASSUME TunnelInv, AccessInv, clash' = {}, NEW c,
         \/ \E op \in Ops : Job(c, op)
         \/ \E i \in DOMAIN rows : Deactivate(c, i) \/ SyncSubscription(c, i)
  PROVE  Fine(c)
<1>1. ASSUME NEW ids, NEW rest, ids \subseteq DOMAIN rows, NEW op, op # "register",
             Begin(c, op, None, "next", Loaded(ids), rest)
      PROVE  Fine(c)
  <2>1. PICK loaded : loaded = Loaded(ids)
    OBVIOUS
  <2>2. DOMAIN loaded = ids /\ \A i \in ids : loaded[i] = rows[i]
    BY <1>1, <2>1, LoadedIs
  <2>3. Begin(c, op, None, "next", loaded, rest) /\ "next" \in Jobs
    BY <1>1, <2>1 DEF Jobs
  <2>. QED
    BY <1>1, <2>2, <2>3, BeginFine
<1>2. ASSUME NEW op \in Ops, Job(c, op)
      PROVE  Fine(c)
  <2>1. PICK ids : ids = {i \in DOMAIN rows : rows[i].active /\ (op = "expired" => account.expired)}
    OBVIOUS
  <2>2. PICK rest : rest = [Plain(0) EXCEPT !.todo = {i \in ids : op = "expired" \/ rows[i].peer # 0}]
    OBVIOUS
  <2>3. op # "register" /\ Begin(c, op, None, "next", Loaded(ids), rest)
    BY <1>2, <2>1, <2>2 DEF Job
  <2>4. ids \subseteq DOMAIN rows
    BY <2>1
  <2>. QED
    BY <1>1, <2>3, <2>4
<1>3. ASSUME NEW i \in DOMAIN rows, Deactivate(c, i) PROVE Fine(c)
  BY <1>1, <1>3 DEF Deactivate
<1>4. ASSUME NEW i \in DOMAIN rows, SyncSubscription(c, i)
      PROVE  Fine(c)
  <2>1. PICK loaded : loaded = Loaded({i})
    OBVIOUS
  <2>2. DOMAIN loaded = {i} /\ \A j \in {i} : loaded[j] = rows[j]
    BY <2>1, LoadedIs
  <2>3. Begin(c, "sync", None, "add", loaded, Plain(i)) /\ Plain(i).row = i /\ rows[i].active
    BY <1>4, <2>1, EmptyHanded DEF SyncSubscription
  <2>. QED
    BY <2>2, <2>3, BeginFine
<1>. QED
  BY <1>2, <1>3, <1>4

LEMMA BonusFine ==
  ASSUME TunnelInv, AccessInv, clash' = {}, NEW c, NEW i \in DOMAIN rows, NEW less \in BOOLEAN, Bonus(c, i, less)
  PROVE  Fine(c)
<1>1. PICK bonus : bonus = IF less THEN 0 ELSE rows[i].bonus + 1
  OBVIOUS
<1>2. PICK row : row = [rows[i] EXCEPT !.bonus = bonus]
  OBVIOUS
<1>3. PICK revive \in BOOLEAN :
        revive = (~row.active /\ ~account.expired /\ (TrafficLimit = 0 \/ row.used < TrafficLimit + bonus))
  OBVIOUS
<1>4. PICK next : next = [row EXCEPT !.active = @ \/ revive]
  OBVIOUS
<1>5. PICK y : y = [op |-> "bonus", dev |-> None, at |-> "save", key |-> None, todo |-> {}, row |-> i,
                    got |-> 0, seen |-> Only(i, rows[i]), mine |-> Only(i, next)]
  OBVIOUS
<1>6. /\ calls' = Put(calls, c, y) /\ UNCHANGED <<database, node>>
      /\ clash' = clash \union Overlap("bonus") \union (IF revive /\ ~Granted(row.dev) THEN {"revived"} ELSE {})
  BY <1>1, <1>2, <1>3, <1>4, <1>5 DEF Bonus
<1>7. Fresh
  BY <1>6, FreshIs
<1>8. rows[i] \in Row /\ \A j, k \in DOMAIN rows : rows[j].key = rows[k].key => j = k
  BY DEF TunnelInv, RowsTrue, RowTrue
<1>9. row.dev = rows[i].dev /\ row.key = rows[i].key /\ row.peer = rows[i].peer /\ row.active = rows[i].active
      /\ DOMAIN row = DOMAIN rows[i]
  BY <1>2, <1>8 DEF Row
<1>10. /\ next.dev = rows[i].dev /\ next.key = rows[i].key /\ next.peer = rows[i].peer
       /\ next.active = (rows[i].active \/ revive)
  BY <1>4, <1>8, <1>9 DEF Row
<1>11. revive => rows[i].dev \in Up
  BY <1>6, <1>8, <1>9 DEF Granted, Up, Row
<1>12. /\ y.op = "bonus" /\ y.at = "save" /\ y.row = i
       /\ DOMAIN y.mine = {i} /\ y.seen[i] = rows[i] /\ y.mine[i] = next
  BY <1>5 DEF Only
<1>13. Views(y, rows, store, Up)
  <2>1. ASSUME NEW j \in DOMAIN rows
        PROVE  Unsettled(y, j, View(y, j, rows), store, Up)
    <3>1. Settled(rows[j], store, Up)
      BY <1>7 DEF Fresh, Calm
    <3>2. CASE j = i
      <4>1. View(y, j, rows) = next
        BY <1>12, <3>2 DEF View
      <4>2. Settled(next, store, Up)
        BY <1>10, <1>11, <3>1, <3>2 DEF Settled
      <4>. QED
        BY <1>12, <4>1, <4>2, SettledIs
    <3>3. CASE j # i
      <4>1. View(y, j, rows) = rows[j]
        BY <1>12, <3>3 DEF View
      <4>. QED
        BY <1>12, <3>1, <4>1, SettledIs
    <3>. QED
      BY <3>2, <3>3
  <2>. QED
    BY <2>1 DEF Views
<1>14. Sees(y, rows)
  BY <1>10, <1>12 DEF Sees, Alike, Level
<1>15. AllNamed(y, rows, store)
  <2>1. \A j \in DOMAIN rows : View(y, j, rows).peer = rows[j].peer
    BY <1>10, <1>12 DEF View
  <2>. QED
    BY <1>7, <2>1 DEF AllNamed, Fresh, Calm
<1>16. Registers(y, rows, store, Up)
  BY <1>8, <1>10, <1>12 DEF Registers, Adding
<1>17. Deactivates(y, rows) /\ Revokes(y, rows)
  BY <1>12 DEF Deactivates, Revokes
<1>18. Account(y, rows, store, Up)
  BY <1>12, <1>13, <1>14, <1>15, <1>16, <1>17 DEF Account
<1>. QED
  BY <1>6, <1>7, <1>18, FreshBegins

LEMMA StartFine ==
  ASSUME TunnelInv, AccessInv, clash' = {}, NEW c, Start(c)
  PROVE  Fine(c)
BY UserFine, JobFine, BonusFine DEF Start

-----------------------------------------------------------------------------
(* What a line never does: begin a call, enroll a device another way, or make *)
(* trouble forgotten.                                                         *)
Entering == {"bind", "rebind"}
Onward(c) ==
  /\ DOMAIN calls' \subseteq DOMAIN calls /\ clash \subseteq clash'
  /\ \A e \in DOMAIN calls' \ {c} : calls'[e] = calls[e]
  /\ c \in DOMAIN calls' => calls'[c].at \notin Entering

LEMMA OnwardEnds ==
  ASSUME TunnelInv, NEW c \in DOMAIN calls, calls' = Ended(c), clash \subseteq clash'
  PROVE  Onward(c)
BY DEF Ended, Restrict, Onward

LEMMA OnwardTo ==
  ASSUME TunnelInv, NEW c \in DOMAIN calls, NEW at, at \notin Entering, calls' = To(c, at), clash \subseteq clash'
  PROVE  Onward(c)
BY ToIs DEF Onward, OneMoves, SameCall

LEMMA OnwardChange ==
  ASSUME TunnelInv, NEW c \in DOMAIN calls, NEW i \in DOMAIN calls[c].mine, NEW row, NEW at, at \notin Entering,
         calls' = Change(c, i, row, at), clash \subseteq clash'
  PROVE  Onward(c)
BY ChangeIs DEF Onward, OneMoves, SameCall

LEMMA OnwardCommit ==
  ASSUME TunnelInv, NEW c \in DOMAIN calls, NEW at, at \notin Entering, Commit(c, at), clash \subseteq clash'
  PROVE  Onward(c)
<1>1. CASE at = "end"
  BY <1>1, OnwardEnds DEF Commit
<1>2. CASE at # "end"
  <2>1. calls' = [calls EXCEPT ![c].seen = calls[c].mine, ![c].at = at]
    BY <1>2 DEF Commit, Committed
  <2>2. DOMAIN calls' = DOMAIN calls /\ calls'[c] = [calls[c] EXCEPT !.seen = calls[c].mine, !.at = at]
        /\ \A e \in DOMAIN calls \ {c} : calls'[e] = calls[e]
    BY <2>1
  <2>3. calls'[c].at = at
    BY <2>2, CallIs DEF OnLine
  <2>. QED
    BY <2>2, <2>3 DEF Onward
<1>. QED
  BY <1>1, <1>2

LEMMA OnwardAdd ==
  ASSUME TunnelInv, NEW c \in DOMAIN calls, NEW k, NEW else \in {"retry", "end"}, AddPeer(c, k, "store", else)
  PROVE  Onward(c)
<1>1. clash \subseteq clash' /\ \E at \in {"store", "retry", "end"} : \E got : GoesOn(c, at, got)
  BY DEF AddPeer, GoesOn
<1>2. PICK at \in {"store", "retry", "end"} : \E got : GoesOn(c, at, got)
  BY <1>1
<1>3. CASE at = "end"
  BY <1>1, <1>2, <1>3, OnwardEnds DEF GoesOn
<1>4. CASE at # "end"
  <2>1. PICK got : calls' = [calls EXCEPT ![c].at = at, ![c].got = got]
    BY <1>2, <1>4 DEF GoesOn
  <2>2. DOMAIN calls' = DOMAIN calls /\ calls'[c] = [calls[c] EXCEPT !.at = at, !.got = got]
        /\ \A e \in DOMAIN calls \ {c} : calls'[e] = calls[e]
    BY <2>1
  <2>3. calls'[c].at = at
    BY <2>2, CallIs DEF OnLine
  <2>. QED
    BY <1>1, <2>2, <2>3 DEF Onward, Entering
<1>. QED
  BY <1>3, <1>4

LEMMA OnwardRemoves == ASSUME NEW p, RemovePeer(p) PROVE clash \subseteq clash'
BY DEF RemovePeer

LEMMA OnwardUser ==
  ASSUME TunnelInv, NEW c \in DOMAIN calls,
         EnrollSave(c) \/ LoadRow(c) \/ Insert(c) \/ Replace(c) \/ Set(c) \/ Save(c)
  PROVE  Onward(c)
<1>1. ASSUME EnrollSave(c) PROVE Onward(c)
  BY <1>1, OnwardEnds DEF EnrollSave
<1>2. ASSUME LoadRow(c) PROVE Onward(c)
  <2>1. clash' = clash /\ (calls' = Ended(c) \/ calls' = To(c, "insert") \/ \E i : LoadsRow(c, i))
    BY <1>2, LoadRowIs DEF history
  <2>2. ASSUME NEW i, LoadsRow(c, i) PROVE Onward(c)
    <3>1. /\ OneMoves(c) /\ DOMAIN calls' = DOMAIN calls /\ calls'[c].at = AtOf(c, i)
      BY <2>2, LoadsRowIs
    <3>2. AtOf(c, i) \notin Entering
      BY DEF AtOf, Entering
    <3>. QED
      BY <2>1, <3>1, <3>2 DEF Onward, OneMoves
  <2>. QED
    BY <2>1, <2>2, OnwardEnds, OnwardTo DEF Entering
<1>3. ASSUME Insert(c) PROVE Onward(c)
  <2>1. ASSUME Fail(c) PROVE Onward(c)
    BY <2>1, OnwardEnds DEF Fail, history
  <2>2. ASSUME NEW i, NEW new, clash' = clash,
               calls' = [calls EXCEPT ![c].row = i, ![c].at = "add", ![c].seen = Only(i, new), ![c].mine = Only(i, new)]
        PROVE  Onward(c)
    <3>1. DOMAIN calls' = DOMAIN calls /\ \A e \in DOMAIN calls \ {c} : calls'[e] = calls[e]
      BY <2>2
    <3>2. calls'[c] = [calls[c] EXCEPT !.row = i, !.at = "add", !.seen = Only(i, new), !.mine = Only(i, new)]
      BY <2>2
    <3>3. calls'[c].at = "add"
      BY <3>2, CallIs DEF OnLine
    <3>. QED
      BY <2>2, <3>1, <3>3 DEF Onward, Entering
  <2>3. CASE /\ clash' = clash
             /\ calls' = [calls EXCEPT ![c].row = Cardinality(DOMAIN rows) + 1, ![c].at = "add",
                   ![c].seen = Only(Cardinality(DOMAIN rows) + 1, NewRow(calls[c].dev, calls[c].key)),
                   ![c].mine = Only(Cardinality(DOMAIN rows) + 1, NewRow(calls[c].dev, calls[c].key))]
    BY <2>2, <2>3
  <2>. QED
    BY <1>3, <2>1, <2>3 DEF Insert, history
<1>4. ASSUME Replace(c) PROVE Onward(c)
  <2>1. calls[c].row \in DOMAIN calls[c].mine
    BY <1>4, CallIs DEF Replace, OnLine, WithRow
  <2>. QED
    BY <1>4, <2>1, OnwardChange, OnwardRemoves DEF Replace, Entering
<1>5. ASSUME Set(c) PROVE Onward(c)
  <2>1. calls[c].row \in DOMAIN calls[c].mine
    BY <1>5, CallIs DEF Set, OnLine, WithRow
  <2>. QED
    BY <1>5, <2>1, OnwardChange, OnwardEnds DEF Set, Entering
<1>6. ASSUME Save(c) PROVE Onward(c)
  <2>1. clash' = clash /\ calls[c].at = "save"
    BY <1>6 DEF Save, Fail, Unchanged, history
  <2>2. PICK i, row : i = calls[c].row /\ row = Merged(c, i)
    OBVIOUS
  <2>3. CASE calls' = [calls EXCEPT ![c].seen[i] = row, ![c].mine[i] = row, ![c].at = "add"]
    <3>1. DOMAIN calls' = DOMAIN calls /\ \A e \in DOMAIN calls \ {c} : calls'[e] = calls[e]
      BY <2>3
    <3>2. calls'[c] = [calls[c] EXCEPT !.seen[i] = row, !.mine[i] = row, !.at = "add"]
      BY <2>3
    <3>3. calls'[c].at = "add"
      BY <3>2, CallIs DEF OnLine
    <3>. QED
      BY <2>1, <3>1, <3>3 DEF Onward, Entering
  <2>4. \/ calls' = Ended(c)
        \/ calls' = [calls EXCEPT ![c].seen[i] = row, ![c].mine[i] = row, ![c].at = "add"]
    BY <1>6, <2>2 DEF Save, Fail
  <2>. QED
    BY <2>1, <2>3, <2>4, OnwardEnds
<1>. QED
  BY <1>1, <1>2, <1>3, <1>4, <1>5, <1>6

LEMMA OnwardAdmin ==
  ASSUME TunnelInv, NEW c \in DOMAIN calls,
         Add(c) \/ Retry(c) \/ AddAgain(c) \/ Store(c) \/ Flush(c) \/ Each(c) \/ Finish(c)
  PROVE  Onward(c)
<1>1. ASSUME Add(c) PROVE Onward(c)
  BY <1>1, OnwardAdd DEF Add
<1>2. ASSUME Retry(c) PROVE Onward(c)
  BY <1>2, OnwardTo, OnwardRemoves DEF Retry, Entering
<1>3. ASSUME AddAgain(c) PROVE Onward(c)
  BY <1>3, OnwardAdd DEF AddAgain
<1>4. ASSUME Store(c) PROVE Onward(c)
  BY <1>4, OnwardEnds DEF Store, Unchanged
<1>5. ASSUME Flush(c) PROVE Onward(c)
  <2>1. PICK ids, mine, todo :
          calls' = [calls EXCEPT ![c].seen = Loaded(ids), ![c].mine = mine, ![c].todo = todo, ![c].at = "each"]
    BY <1>5 DEF Flush
  <2>2. DOMAIN calls' = DOMAIN calls /\ \A e \in DOMAIN calls \ {c} : calls'[e] = calls[e]
    BY <2>1
  <2>3. calls'[c] = [calls[c] EXCEPT !.seen = Loaded(ids), !.mine = mine, !.todo = todo, !.at = "each"]
    BY <2>1
  <2>4. calls'[c].at = "each"
    BY <2>3, CallIs DEF OnLine
  <2>. QED
    BY <1>5, <2>2, <2>4 DEF Onward, Entering, Flush, history
<1>6. ASSUME Each(c) PROVE Onward(c)
  <2>1. PICK i : /\ calls' = [calls EXCEPT ![c].mine[i].peer = 0, ![c].todo = @ \ {i}]
                 /\ RemovePeer(calls[c].mine[i].peer)
    BY <1>6 DEF Each
  <2>2. DOMAIN calls' = DOMAIN calls /\ \A e \in DOMAIN calls \ {c} : calls'[e] = calls[e]
    BY <2>1
  <2>3. calls'[c] = [calls[c] EXCEPT !.mine[i].peer = 0, !.todo = @ \ {i}]
    BY <2>1
  <2>4. calls'[c].at = "each"
    BY <1>6, <2>3, CallIs DEF OnLine, Each
  <2>. QED
    BY <2>1, <2>2, <2>4, OnwardRemoves DEF Onward, Entering
<1>7. ASSUME Finish(c) PROVE Onward(c)
  BY <1>7, OnwardCommit DEF Finish, Unchanged, Entering
<1>. QED
  BY <1>1, <1>2, <1>3, <1>4, <1>5, <1>6, <1>7

LEMMA OnwardJob ==
  ASSUME TunnelInv, NEW c \in DOMAIN calls,
         Next1(c) \/ Poll(c) \/ Count(c) \/ Mark(c) \/ Off(c) \/ Remove(c) \/ Gone(c) \/ Locked(c)
  PROVE  Onward(c)
<1>1. ASSUME Next1(c) PROVE Onward(c)
  <2>1. clash' = clash
    BY <1>1 DEF Next1, history
  <2>2. \/ calls' = Ended(c) \/ calls' = To(c, "finish")
        \/ \E i : \E at \in {"poll", "mark"} : calls' = [calls EXCEPT ![c].row = i, ![c].todo = @ \ {i}, ![c].at = at]
    BY <1>1 DEF Next1
  <2>3. ASSUME NEW i, NEW at \in {"poll", "mark"},
               calls' = [calls EXCEPT ![c].row = i, ![c].todo = @ \ {i}, ![c].at = at]
        PROVE  Onward(c)
    <3>1. DOMAIN calls' = DOMAIN calls /\ \A e \in DOMAIN calls \ {c} : calls'[e] = calls[e]
      BY <2>3
    <3>2. calls'[c] = [calls[c] EXCEPT !.row = i, !.todo = @ \ {i}, !.at = at]
      BY <2>3
    <3>3. calls'[c].at = at
      BY <3>2, CallIs DEF OnLine
    <3>. QED
      BY <2>1, <3>1, <3>3 DEF Onward, Entering
  <2>. QED
    BY <2>1, <2>2, <2>3, OnwardEnds, OnwardTo DEF Entering
<1>2. ASSUME Poll(c) PROVE Onward(c)
  <2>1. calls[c].row \in DOMAIN calls[c].mine /\ clash' = clash
    BY <1>2, CallIs DEF Poll, OnLine, WithRow, history
  <2>2. \/ calls' = To(c, "next")
        \/ \E row : \E at \in {"next", "count"} : calls' = Change(c, calls[c].row, row, at)
    BY <1>2 DEF Poll
  <2>. QED
    BY <2>1, <2>2, OnwardChange, OnwardTo DEF Entering
<1>3. ASSUME Count(c) \/ Off(c) \/ Gone(c) PROVE Onward(c)
  <2>1. clash' = clash /\ \E at \in {"mark", "next", "remove", "end"} : Commit(c, at)
    BY <1>3 DEF Count, Off, Gone, Unchanged
  <2>. QED
    BY <2>1, OnwardCommit DEF Entering
<1>4. ASSUME Mark(c) PROVE Onward(c)
  <2>1. calls[c].row \in DOMAIN calls[c].mine
    BY <1>4, CallIs DEF Mark, OnLine, WithRow
  <2>. QED
    BY <1>4, <2>1, OnwardChange DEF Mark, Entering, history
<1>5. ASSUME Remove(c) PROVE Onward(c)
  <2>1. calls[c].row \in DOMAIN calls[c].mine
    BY <1>5, CallIs DEF Remove, OnLine, WithRow
  <2>. QED
    BY <1>5, <2>1, OnwardChange, OnwardRemoves DEF Remove, Entering
<1>6. ASSUME Locked(c) PROVE Onward(c)
  BY <1>6, OnwardEnds DEF Locked
<1>. QED
  BY <1>1, <1>2, <1>3, <1>4, <1>5, <1>6

LEMMA StepOnward ==
  ASSUME TunnelInv, NEW c \in DOMAIN calls, Step(c)
  PROVE  Onward(c)
BY OnwardUser, OnwardAdmin, OnwardJob DEF Step

-----------------------------------------------------------------------------
(* The table after every step.                                                *)
Begun(c) ==
  /\ c \notin DOMAIN calls /\ DOMAIN calls' = DOMAIN calls \union {c} /\ clash \subseteq clash'
  /\ \A e \in DOMAIN calls : calls'[e] = calls[e]
  /\ "overlap" \notin clash' => DOMAIN calls = {}
  /\ UNCHANGED <<database, node>>

LEMMA StartBegun ==
  ASSUME NEW c, Start(c)
  PROVE  Begun(c)
<1>1. ASSUME NEW op, NEW more, clash' = clash \union Overlap(op) \union more, NEW y, c \notin DOMAIN calls,
             calls' = Put(calls, c, y), UNCHANGED <<database, node>>
      PROVE  Begun(c)
  <2>1. "overlap" \notin clash' => DOMAIN calls = {}
    <3>1. "overlap" \notin clash' => calls = << >>
      BY <1>1 DEF Overlap
    <3>. QED
      BY <3>1
  <2>. QED
    BY <1>1, <2>1 DEF Begun, Put
<1>2. ASSUME NEW op, NEW d, NEW at, NEW loaded, NEW rest, Begin(c, op, d, at, loaded, rest)
      PROVE  Begun(c)
  <2>1. clash' = clash \union Overlap(op) \union {}
    BY <1>2 DEF Begin
  <2>. QED
    BY <1>1, <1>2, <2>1 DEF Begin
<1>3. ASSUME NEW d, Enroll(c, d) \/ Drop(c, d) \/ Toggle(c, d) \/ \E k \in Key : Register(c, d, k)
      PROVE  Begun(c)
  BY <1>2, <1>3 DEF Enroll, Drop, Toggle, Register
<1>4. ASSUME NEW d, NEW victim, Revoke(c, d, victim) PROVE Begun(c)
  BY <1>2, <1>4 DEF Revoke
<1>5. ASSUME NEW op, Job(c, op) PROVE Begun(c)
  BY <1>2, <1>5 DEF Job
<1>6. ASSUME NEW i, Deactivate(c, i) \/ SyncSubscription(c, i) PROVE Begun(c)
  BY <1>2, <1>6 DEF Deactivate, SyncSubscription
<1>7. ASSUME NEW i, NEW less, Bonus(c, i, less) PROVE Begun(c)
  <2>1. \E more, y : /\ clash' = clash \union Overlap("bonus") \union more /\ c \notin DOMAIN calls
                     /\ calls' = Put(calls, c, y) /\ UNCHANGED <<database, node>>
    BY <1>7 DEF Bonus
  <2>. QED
    BY <1>1, <2>1
<1>. QED
  BY <1>3, <1>4, <1>5, <1>6, <1>7 DEF Start

\* One call at most is left, and the table is as it says.
LEMMA AccessFine ==
  ASSUME NEW c, DOMAIN calls' \subseteq {c}, Fine(c)
  PROVE  AccessInv'
<1>1. Alone'
  BY DEF Alone
<1>2. \A e \in DOMAIN calls' : Account(calls'[e], rows', store', Up')
  BY DEF Fine
<1>3. DOMAIN calls' = {} => Calm(rows', store', Up')
  BY DEF Fine
<1>. QED
  BY <1>1, <1>2, <1>3 DEF Fine, AccessInv

LEMMA AccessStep ==
  ASSUME TunnelInv, AccessInv, [Next]_vars
  PROVE  AccessInv'
<1>1. ASSUME UNCHANGED vars PROVE AccessInv'
  <2>1. UNCHANGED <<clash, live, store, rows, calls>> /\ Up' = Up
    BY <1>1, UpSame DEF vars
  <2>2. Alone'
    BY <2>1 DEF AccessInv, Alone
  <2>. QED
    BY <2>1, <2>2 DEF AccessInv, Keys
<1>2. ASSUME NEW c \in Slot, Start(c)
      PROVE  AccessInv'
  <2>1. Begun(c)
    BY <1>2, StartBegun
  <2>2. CASE "overlap" \in clash'
    BY <2>2 DEF AccessInv, Alone
  <2>3. CASE clash' = {}
    BY <1>2, <2>1, <2>3, StartFine, AccessFine DEF Begun
  <2>4. CASE "overlap" \notin clash' /\ clash' # {}
    BY <2>1, <2>4 DEF AccessInv, Alone, Begun
  <2>. QED
    BY <2>2, <2>3, <2>4
<1>3. ASSUME NEW c \in DOMAIN calls, Step(c)
      PROVE  AccessInv'
  <2>1. Onward(c)
    BY <1>3, StepOnward
  <2>2. CASE clash' = {}
    <3>1. clash = {} /\ DOMAIN calls = {c}
      BY <2>1, <2>2 DEF Onward, AccessInv, Alone
    <3>2. Quiet(c)
      BY <2>2, <3>1 DEF Quiet, AccessInv
    <3>. QED
      BY <1>3, <2>1, <3>1, <3>2, FineStep, AccessFine DEF Onward
  <2>3. CASE clash' # {}
    BY <2>1, <2>3 DEF AccessInv, Alone, Onward
  <2>. QED
    BY <2>2, <2>3
<1>4. ASSUME (\E k \in Key : Traffic(k)) \/ NodeRestart \/ Expire
      PROVE  AccessInv'
  <2>1. /\ UNCHANGED <<rows, store, calls, clash, device>> /\ account'.active = account.active
        /\ live' = live \/ live' = Keys(store)
    BY <1>4 DEF Traffic, NodeRestart, Expire, database, node, history, TunnelInv, Plainly
  <2>2. Up' = Up
    BY <2>1 DEF Up
  <2>3. Alone' /\ (clash = {} => live' = Keys(store'))
    BY <2>1 DEF AccessInv, Alone, Keys
  <2>. QED
    BY <2>1, <2>2, <2>3 DEF AccessInv
<1>5. ASSUME Restart
      PROVE  AccessInv'
  BY <1>5 DEF AccessInv, Restart, Alone
<1>. QED
  BY <1>1, <1>2, <1>3, <1>4, <1>5 DEF Next

LEMMA AccessStarts == Init => AccessInv
<1>. SUFFICES ASSUME Init PROVE AccessInv
  OBVIOUS
<1>1. DOMAIN rows = {} /\ DOMAIN store = {} /\ DOMAIN calls = {} /\ live = {}
  BY DEF Init
<1>. QED
  BY <1>1 DEF AccessInv, Alone, Calm, Keys

-----------------------------------------------------------------------------
(* The limit of the plan.                                                     *)
Within == Cardinality(Enrolled) <= MaxDevices
LimitInv ==
  /\ \A c \in DOMAIN calls : calls[c].at = "rebind" => device[calls[c].dev] # "none"
  /\ clash \intersect {"again", "overlap"} = {} =>
       /\ Within
       /\ \A c \in DOMAIN calls : calls[c].at = "bind" => Cardinality(Enrolled) < MaxDevices

LEMMA EnrolledFew ==
  IsFiniteSet(Enrolled) /\ Cardinality(Enrolled) \in Nat
BY TunnelAssumption, FS_Subset, FS_CardinalityType DEF Enrolled

\* No more devices than there were.
LEMMA LimitLess ==
  ASSUME Enrolled' \subseteq Enrolled
  PROVE  Cardinality(Enrolled') <= Cardinality(Enrolled) /\ Cardinality(Enrolled') \in Nat
BY EnrolledFew, FS_Subset, FS_CardinalityType

\* Which calls are about to enroll a device.
LEMMA EntersIs ==
  ASSUME NEW c, Start(c), c \in DOMAIN calls', calls'[c].at \in Entering
  PROVE  /\ calls'[c].at = "rebind" => device[calls'[c].dev] # "none"
         /\ calls'[c].at = "bind" => Cardinality(Enrolled) < MaxDevices
<1>1. ASSUME NEW op, NEW d, NEW at, NEW loaded, NEW rest, Begin(c, op, d, at, loaded, rest)
      PROVE  calls'[c].at = at /\ calls'[c].dev = d
  BY <1>1 DEF Begin, Put
<1>2. ASSUME NEW d, Enroll(c, d)
      PROVE  /\ calls'[c].at = "rebind" => device[calls'[c].dev] # "none"
             /\ calls'[c].at = "bind" => Cardinality(Enrolled) < MaxDevices
  <2>1. \/ /\ Cardinality(Enrolled) < MaxDevices /\ Begin(c, "enroll", d, "bind", << >>, Plain(0))
        \/ device[d] = "revoked" /\ Begin(c, "enroll", d, "rebind", << >>, Plain(0))
    BY <1>2 DEF Enroll
  <2>. QED
    BY <1>1, <2>1
<1>3. ASSUME NEW d, Drop(c, d) \/ Toggle(c, d) \/ \E k \in Key : Register(c, d, k)
      PROVE  FALSE
  <2>1. calls'[c].at \in {"load", "flush", "finish"}
    BY <1>1, <1>3 DEF Drop, Toggle, Register
  <2>. QED
    BY <2>1 DEF Entering
<1>4. ASSUME NEW d, NEW victim, Revoke(c, d, victim) PROVE FALSE
  BY <1>1, <1>4 DEF Revoke, Entering
<1>5. ASSUME NEW op, Job(c, op) PROVE FALSE
  BY <1>1, <1>5 DEF Job, Entering
<1>6. ASSUME NEW i, Deactivate(c, i) \/ SyncSubscription(c, i) PROVE FALSE
  <2>1. calls'[c].at \in {"next", "add"}
    BY <1>1, <1>6 DEF Deactivate, SyncSubscription
  <2>. QED
    BY <2>1 DEF Entering
<1>7. ASSUME NEW i, NEW less, Bonus(c, i, less) PROVE FALSE
  <2>1. PICK y : y = calls'[c]
    OBVIOUS
  <2>2. calls'[c].at = "save"
    BY <1>7 DEF Bonus, Put
  <2>. QED
    BY <2>2 DEF Entering
<1>. QED
  BY <1>2, <1>3, <1>4, <1>5, <1>6, <1>7 DEF Start

\* Who is enrolled changes where a device is enrolled or revoked only.
LEMMA StepDevice ==
  ASSUME NEW c, Step(c), ~EnrollSave(c), ~Finish(c)
  PROVE  device' = device
<1>1. ASSUME LoadRow(c) \/ Insert(c) \/ Replace(c) \/ Set(c) \/ Save(c) \/ Add(c) \/ Retry(c) \/ AddAgain(c)
      PROVE  device' = device
  BY <1>1 DEF LoadRow, Insert, Replace, Set, Save, Add, Retry, AddAgain, Fail, database
<1>2. ASSUME Store(c) \/ Flush(c) \/ Each(c) \/ Next1(c) \/ Poll(c) \/ Count(c) \/ Mark(c) \/ Off(c)
             \/ Remove(c) \/ Gone(c) \/ Locked(c)
      PROVE  device' = device
  BY <1>2 DEF Store, Flush, Each, Next1, Poll, Count, Mark, Off, Remove, Gone, Locked, database
<1>. QED
  BY <1>1, <1>2 DEF Step

LEMMA LimitStep ==
  ASSUME TunnelInv, AccessInv, LimitInv, [Next]_vars
  PROVE  LimitInv'
<1>1. device \in [Device -> {"none", "active", "revoked"}] /\ MaxDevices \in Nat
  BY TunnelAssumption DEF TunnelInv, Plainly
<1>2. ASSUME UNCHANGED <<device, calls, clash>> PROVE LimitInv'
  <2>1. Enrolled' = Enrolled
    BY <1>2 DEF Enrolled
  <2>. QED
    BY <1>2, <2>1 DEF LimitInv, Within
<1>3. ASSUME UNCHANGED vars PROVE LimitInv'
  BY <1>2, <1>3 DEF vars
<1>4. ASSUME NEW c \in Slot, Start(c)
      PROVE  LimitInv'
  <2>1. Begun(c) /\ device' = device /\ Enrolled' = Enrolled
    BY <1>4, StartBegun DEF Begun, database, Enrolled
  <2>2. c \in DOMAIN calls'
    BY <2>1 DEF Begun
  <2>3. ASSUME NEW e \in DOMAIN calls', calls'[e].at = "rebind"
        PROVE  device'[calls'[e].dev] # "none"
    <3>1. CASE e = c
      BY <1>4, <2>1, <2>2, <2>3, <3>1, EntersIs DEF Entering
    <3>2. CASE e # c
      BY <2>1, <2>3, <3>2 DEF Begun, LimitInv
    <3>. QED
      BY <3>1, <3>2
  <2>4. ASSUME clash' \intersect {"again", "overlap"} = {}
        PROVE  Within' /\ \A e \in DOMAIN calls' : calls'[e].at = "bind" => Cardinality(Enrolled') < MaxDevices
    <3>1. clash \intersect {"again", "overlap"} = {} /\ DOMAIN calls' = {c}
      BY <2>1, <2>4 DEF Begun
    <3>2. Within'
      BY <2>1, <3>1 DEF LimitInv, Within
    <3>3. calls'[c].at = "bind" => Cardinality(Enrolled) < MaxDevices
      BY <1>4, <2>2, EntersIs DEF Entering
    <3>. QED
      BY <2>1, <3>1, <3>2, <3>3
  <2>. QED
    BY <2>3, <2>4 DEF LimitInv
<1>5. ASSUME NEW c \in DOMAIN calls, Step(c)
      PROVE  LimitInv'
  <2>1. Onward(c)
    BY <1>5, StepOnward
  <2>2. \A e \in DOMAIN calls' : calls'[e].at \in Entering => e \in DOMAIN calls /\ calls'[e] = calls[e] /\ e # c
    BY <2>1 DEF Onward
  <2>3. \A d \in Device : device[d] # "none" => device'[d] # "none"
    <3>1. device' # device => EnrollSave(c) \/ Finish(c)
      BY <1>5, StepDevice
    <3>2. ASSUME EnrollSave(c) PROVE \A d \in Device : device[d] # "none" => device'[d] # "none"
      BY <1>1, <3>2 DEF EnrollSave
    <3>3. ASSUME Finish(c) PROVE \A d \in Device : device[d] # "none" => device'[d] # "none"
      <4>1. calls[c].op \in {"revoke", "toggle", "page"}
        BY <3>3, CallIs DEF Finish, OnLine
      <4>2. calls[c].op = "revoke" => device' = [device EXCEPT ![calls[c].dev] = "revoked"]
        BY <3>3 DEF Finish
      <4>3. calls[c].op \in {"toggle", "page"} => device' = device
        BY <3>3 DEF Finish
      <4>. QED
        BY <1>1, <4>1, <4>2, <4>3
    <3>. QED
      BY <3>1, <3>2, <3>3
  <2>4. ASSUME NEW e \in DOMAIN calls', calls'[e].at = "rebind"
        PROVE  device'[calls'[e].dev] # "none"
    <3>1. e \in DOMAIN calls /\ calls'[e] = calls[e] /\ calls[e].at = "rebind"
      BY <2>2, <2>4 DEF Entering
    <3>2. calls[e].dev \in Device
      BY <3>1, CallIs DEF OnLine
    <3>. QED
      BY <2>3, <3>1, <3>2 DEF LimitInv
  <2>5. ASSUME clash' \intersect {"again", "overlap"} = {}
        PROVE  Within' /\ \A e \in DOMAIN calls' : calls'[e].at = "bind" => Cardinality(Enrolled') < MaxDevices
    <3>1. clash \intersect {"again", "overlap"} = {}
      BY <2>1, <2>5 DEF Onward
    <3>2. \A e \in DOMAIN calls' : calls'[e].at # "bind"
      <4>1. \A e \in DOMAIN calls : e = c
        BY <3>1 DEF AccessInv, Alone
      <4>. QED
        BY <2>2, <4>1 DEF Entering
    <3>3. Within /\ (calls[c].at = "bind" => Cardinality(Enrolled) < MaxDevices)
      BY <3>1 DEF LimitInv
    <3>4. ASSUME Enrolled' \subseteq Enrolled PROVE Within'
      <4>1. Cardinality(Enrolled') <= Cardinality(Enrolled) /\ Cardinality(Enrolled') \in Nat
        BY <3>4, LimitLess
      <4>2. Cardinality(Enrolled) \in Nat
        BY EnrolledFew
      <4>. QED
        BY <1>1, <3>3, <4>1, <4>2 DEF Within
    <3>5. ASSUME EnrollSave(c), device' # device
          PROVE  Within'
      <4>1. PICK d : d = calls[c].dev
        OBVIOUS
      <4>2. /\ d \in Device /\ device' = [device EXCEPT ![d] = "active"] /\ device[d] # "revoked"
            /\ calls[c].at \in {"bind", "rebind"} /\ (calls[c].at = "bind" => device[d] = "none")
        BY <2>5, <3>5, <4>1, CallIs DEF EnrollSave, OnLine
      <4>3. CASE device[d] = "active"
        BY <1>1, <3>4, <4>2, <4>3 DEF Enrolled
      <4>4. CASE device[d] = "none"
        <5>1. calls[c].at = "bind"
          BY <4>1, <4>2, <4>4 DEF LimitInv
        <5>2. Enrolled' = Enrolled \union {d} /\ d \notin Enrolled
          BY <1>1, <4>2, <4>4 DEF Enrolled
        <5>3. Cardinality(Enrolled') = Cardinality(Enrolled) + 1
          BY <5>2, EnrolledFew, FS_AddElement
        <5>4. Cardinality(Enrolled) \in Nat
          BY EnrolledFew
        <5>. QED
          BY <1>1, <3>3, <5>1, <5>3, <5>4 DEF Within
      <4>. QED
        BY <1>1, <4>2, <4>3, <4>4
    <3>6. ASSUME Finish(c)
          PROVE  Within'
      <4>1. calls[c].op \in {"revoke", "toggle", "page"}
        BY <3>6, CallIs DEF Finish, OnLine
      <4>2. calls[c].op = "revoke" => device' = [device EXCEPT ![calls[c].dev] = "revoked"]
        BY <3>6 DEF Finish
      <4>3. calls[c].op \in {"toggle", "page"} => device' = device
        BY <3>6 DEF Finish
      <4>4. Enrolled' \subseteq Enrolled
        BY <1>1, <4>1, <4>2, <4>3 DEF Enrolled
      <4>. QED
        BY <3>4, <4>4
    <3>7. ASSUME device' = device
          PROVE  Within'
      BY <3>4, <3>7 DEF Enrolled
    <3>. QED
      BY <1>5, <3>2, <3>5, <3>6, <3>7, StepDevice
  <2>. QED
    BY <2>4, <2>5 DEF LimitInv
<1>6. ASSUME (\E k \in Key : Traffic(k)) \/ NodeRestart \/ Expire PROVE LimitInv'
  BY <1>2, <1>6 DEF Traffic, NodeRestart, Expire, database, history
<1>7. ASSUME Restart PROVE LimitInv'
  <2>1. DOMAIN calls' = {} /\ "overlap" \in clash'
    BY <1>7 DEF Restart
  <2>. QED
    BY <2>1 DEF LimitInv
<1>. QED
  BY <1>3, <1>4, <1>5, <1>6, <1>7 DEF Next

LEMMA LimitStarts == Init => LimitInv
<1>. SUFFICES ASSUME Init PROVE LimitInv
  OBVIOUS
<1>1. DOMAIN calls = {} /\ Enrolled = {}
  BY DEF Init, Enrolled
<1>. QED
  BY <1>1, FS_EmptySet, TunnelAssumption DEF LimitInv, Within

\* As long as nothing went wrong and no two handlers overlapped: between calls each peer
\* of the node belongs to an enrolled device, an active row and an active account, and
\* whoever is told of a peer has it; and the devices are no more than the plan allows.
THEOREM AccessIsGrantedHolds == Spec => []AccessIsGranted
<1>1. TunnelInv /\ AccessInv /\ LimitInv => AccessIsGranted
  <2>. SUFFICES ASSUME TunnelInv, AccessInv, LimitInv PROVE AccessIsGranted
    OBVIOUS
  <2>1. LimitKept
    BY DEF LimitInv, LimitKept, Within
  <2>2. ASSUME clash = {}, calls = << >>
        PROVE  Calm(rows, store, Up) /\ live = Keys(store)
    <3>1. DOMAIN calls = {}
      BY <2>2
    <3>. QED
      BY <2>2, <3>1 DEF AccessInv
  <2>3. 0 \notin DOMAIN store
    BY DEF TunnelInv, NodeTrue, Peer
  <2>4. ASSUME Calm(rows, store, Up)
        PROVE  /\ \A p \in DOMAIN store : \E i \in DOMAIN rows :
                    /\ rows[i].peer = p /\ rows[i].key = store[p] /\ rows[i].active
                    /\ device[rows[i].dev] = "active" /\ account.active
               /\ \A i \in DOMAIN rows : rows[i].active /\ rows[i].peer # 0 => rows[i].peer \in DOMAIN store
    <3>1. ASSUME NEW p \in DOMAIN store
          PROVE  \E i \in DOMAIN rows :
                    /\ rows[i].peer = p /\ rows[i].key = store[p] /\ rows[i].active
                    /\ device[rows[i].dev] = "active" /\ account.active
      <4>1. PICK i \in DOMAIN rows : rows[i].peer = p
        BY <2>4 DEF Calm
      <4>2. Settled(rows[i], store, Up)
        BY <2>4 DEF Calm
      <4>. QED
        BY <2>3, <4>1, <4>2 DEF Settled, Up
    <3>. QED
      BY <2>4, <3>1 DEF Calm, Settled
  <2>. QED
    BY <2>1, <2>2, <2>4 DEF AccessIsGranted
<1>2. TunnelInv /\ AccessInv /\ LimitInv /\ [Next]_vars => TunnelInv' /\ AccessInv' /\ LimitInv'
  BY TunnelStep, AccessStep, LimitStep
<1>. QED
  BY <1>1, <1>2, TunnelStarts, AccessStarts, LimitStarts, PTL DEF Spec

-----------------------------------------------------------------------------
(***************************************************************************)
(* What a device is charged for.  Every unit of its traffic is charged to   *)
(* one of its rows at most: the units that its rows are charged with, and   *)
(* those of its keys that are still to be counted, are no more than it      *)
(* caused.                                                                  *)
(***************************************************************************)
\* The units that the rows of a device are charged with (u), and those of its
\* keys that are open: beyond what is booked (bk).
ChargedUnits(dv, u, d) ==
  {z \in {0} \X (DOMAIN u) \X Nat : dv[z[2]] = d /\ 0 < z[3] /\ z[3] <= u[z[2]]}
OpenUnits(bk, ra, d) ==
  {z \in {1} \X Key \X Nat : KeyOwner[z[2]] = d /\ bk[z[2]] < z[3] /\ z[3] <= ra[z[2]]}

Fits(s, n) == \E f \in [s -> 1 .. n] : IsInjective(f)

LEMMA FitsInto ==
  ASSUME NEW s, NEW n, Fits(s, n), NEW t, NEW m \in [t -> s], IsInjective(m)
  PROVE  Fits(t, n)
<1>1. PICK f \in [s -> 1 .. n] : IsInjective(f)
  BY DEF Fits
<1>2. PICK g : g = [x \in t |-> f[m[x]]]
  OBVIOUS
<1>3. g \in [t -> 1 .. n]
  BY <1>1, <1>2
<1>4. IsInjective(g)
  BY <1>1, <1>2 DEF IsInjective
<1>. QED
  BY <1>3, <1>4 DEF Fits

LEMMA FitsLess ==
  ASSUME NEW s, NEW n, Fits(s, n), NEW t \in SUBSET s
  PROVE  Fits(t, n)
<1>1. PICK m : m = [x \in t |-> x]
  OBVIOUS
<1>2. m \in [t -> s] /\ IsInjective(m)
  BY <1>1 DEF IsInjective
<1>. QED
  BY <1>2, FitsInto

LEMMA FitsOneMore ==
  ASSUME NEW s, NEW n \in Nat, Fits(s, n), NEW z
  PROVE  Fits(s \union {z}, n + 1)
<1>1. PICK f \in [s -> 1 .. n] : IsInjective(f)
  BY DEF Fits
<1>2. PICK g : g = [x \in s \union {z} |-> IF x \in s THEN f[x] ELSE n + 1]
  OBVIOUS
<1>3. /\ DOMAIN g = s \union {z} /\ \A x \in s : g[x] = f[x] /\ f[x] \in 1 .. n
      /\ z \notin s => g[z] = n + 1
  BY <1>1, <1>2
<1>4. g \in [s \union {z} -> 1 .. (n + 1)]
  BY <1>2, <1>3
<1>5. IsInjective(g)
  BY <1>1, <1>3 DEF IsInjective
<1>. QED
  BY <1>4, <1>5 DEF Fits

LEMMA FitsCount ==
  ASSUME NEW s, NEW n \in Nat, Fits(s, n)
  PROVE  IsFiniteSet(s) /\ Cardinality(s) <= n
<1>1. PICK f \in [s -> 1 .. n] : IsInjective(f)
  BY DEF Fits
<1>2. IsFiniteSet(1 .. n) /\ Cardinality(1 .. n) = n
  BY FS_Interval
<1>3. f \in Injection(s, 1 .. n)
  BY <1>1 DEF Injection
<1>. QED
  BY <1>2, <1>3, FS_Injection

\* Booked is what was charged of the counter of a key. A peer may be claimed by a row,
\* which will count its key from the last value it saw, and what was booked must not
\* be beyond; nothing is booked of the key of a clean peer.
Balanced(st, ra, ca, dv, u, l, claims, clean) ==
  \E bk \in [Key -> Nat] :
    /\ \A k \in Key : bk[k] <= ra[k]
    /\ \A i \in DOMAIN u : \A p \in claims[i] : p \in DOMAIN st =>
         bk[st[p]] = 0 \/ (bk[st[p]] <= l[i] /\ l[i] <= ra[st[p]])
    /\ \A p \in clean : p \in DOMAIN st => bk[st[p]] = 0
    /\ \A d \in Device : Fits(ChargedUnits(dv, u, d) \union OpenUnits(bk, ra, d), ca[d])

\* Counters that are kept or reset, and rows that are kept or begin with nothing; a peer
\* is claimed as before, or was clean, or its counter is at zero.
LEMMA BalancedStays ==
  ASSUME NEW st, NEW ra \in [Key -> Nat], NEW ca, NEW dv, NEW u, NEW l, NEW claims, NEW clean,
         Balanced(st, ra, ca, dv, u, l, claims, clean),
         NEW st2, NEW ra2 \in [Key -> Nat], NEW dv2, NEW u2, NEW l2, NEW claims2, NEW clean2,
         \A k \in Key : ra2[k] \in {ra[k], 0},
         \A p \in DOMAIN st2 : st2[p] \in Key,
         \A p \in DOMAIN st2 : (p \in DOMAIN st /\ st2[p] = st[p]) \/ ra2[st2[p]] = 0,
         \A i \in DOMAIN u2 : IF i \in DOMAIN u THEN dv2[i] = dv[i] /\ u2[i] = u[i] /\ l2[i] = l[i] ELSE u2[i] = 0,
         \A p \in clean2 : p \in DOMAIN st2 => p \in clean \/ ra2[st2[p]] = 0,
         \A i \in DOMAIN u2 : \A p \in claims2[i] : p \in DOMAIN st2 =>
            p \in clean \/ (i \in DOMAIN u /\ p \in claims[i]) \/ ra2[st2[p]] = 0
  PROVE  Balanced(st2, ra2, ca, dv2, u2, l2, claims2, clean2)
<1>1. PICK bk \in [Key -> Nat] :
        /\ \A k \in Key : bk[k] <= ra[k]
        /\ \A i \in DOMAIN u : \A p \in claims[i] : p \in DOMAIN st =>
             bk[st[p]] = 0 \/ (bk[st[p]] <= l[i] /\ l[i] <= ra[st[p]])
        /\ \A p \in clean : p \in DOMAIN st => bk[st[p]] = 0
        /\ \A d \in Device : Fits(ChargedUnits(dv, u, d) \union OpenUnits(bk, ra, d), ca[d])
  BY DEF Balanced
<1>2. PICK b2 : b2 = [k \in Key |-> IF ra2[k] = ra[k] THEN bk[k] ELSE 0]
  OBVIOUS
<1>3. /\ b2 \in [Key -> Nat] /\ \A k \in Key : b2[k] <= ra2[k]
      /\ \A k \in Key : (ra2[k] = ra[k] /\ b2[k] = bk[k]) \/ (ra2[k] = 0 /\ b2[k] = 0)
  BY <1>1, <1>2
<1>4. ASSUME NEW i \in DOMAIN u2, NEW p \in claims2[i], p \in DOMAIN st2
      PROVE  b2[st2[p]] = 0 \/ (b2[st2[p]] <= l2[i] /\ l2[i] <= ra2[st2[p]])
  <2>1. PICK k \in Key : k = st2[p]
    BY <1>4
  <2>2. CASE ra2[k] = 0
    BY <1>3, <2>1, <2>2
  <2>3. CASE ra2[k] # 0
    <3>1. p \in DOMAIN st /\ st[p] = k /\ b2[k] = bk[k] /\ ra2[k] = ra[k]
      BY <1>3, <1>4, <2>1, <2>3
    <3>2. CASE p \in clean
      BY <1>1, <2>1, <3>1, <3>2
    <3>3. CASE i \in DOMAIN u /\ p \in claims[i]
      <4>1. bk[k] = 0 \/ (bk[k] <= l[i] /\ l[i] <= ra[k])
        BY <1>1, <3>1, <3>3
      <4>2. l2[i] = l[i]
        BY <3>3
      <4>. QED
        BY <2>1, <3>1, <4>1, <4>2
    <3>. QED
      BY <1>4, <2>1, <2>3, <3>2, <3>3
  <2>. QED
    BY <2>2, <2>3
<1>5. ASSUME NEW p \in clean2, p \in DOMAIN st2
      PROVE  b2[st2[p]] = 0
  <2>1. PICK k \in Key : k = st2[p]
    BY <1>5
  <2>2. CASE ra2[k] = 0
    BY <1>3, <2>1, <2>2
  <2>3. CASE ra2[k] # 0
    <3>1. p \in DOMAIN st /\ st[p] = k /\ b2[k] = bk[k] /\ p \in clean
      BY <1>3, <1>5, <2>1, <2>3
    <3>. QED
      BY <1>1, <2>1, <3>1
  <2>. QED
    BY <2>2, <2>3
<1>6. ASSUME NEW d \in Device
      PROVE  Fits(ChargedUnits(dv2, u2, d) \union OpenUnits(b2, ra2, d), ca[d])
  <2>1. ChargedUnits(dv2, u2, d) \subseteq ChargedUnits(dv, u, d)
    BY DEF ChargedUnits
  <2>2. OpenUnits(b2, ra2, d) \subseteq OpenUnits(bk, ra, d)
    BY <1>1, <1>3 DEF OpenUnits
  <2>3. PICK s, t : /\ s = ChargedUnits(dv, u, d) \union OpenUnits(bk, ra, d)
                    /\ t = ChargedUnits(dv2, u2, d) \union OpenUnits(b2, ra2, d)
    OBVIOUS
  <2>4. t \in SUBSET s /\ Fits(s, ca[d])
    BY <1>1, <2>1, <2>2, <2>3
  <2>. QED
    BY <2>3, <2>4, FitsLess
<1>. QED
  BY <1>3, <1>4, <1>5, <1>6 DEF Balanced

\* One unit more goes through a key, and is one that its device caused.
LEMMA BalancedTraffic ==
  ASSUME NEW st, NEW ra \in [Key -> Nat], NEW ca \in [Device -> Nat], NEW dv, NEW u, NEW l, NEW claims, NEW clean,
         Balanced(st, ra, ca, dv, u, l, claims, clean), NEW k \in Key, \A p \in DOMAIN st : st[p] \in Key,
         \A i \in DOMAIN u : l[i] \in Nat
  PROVE  Balanced(st, [ra EXCEPT ![k] = @ + 1], [ca EXCEPT ![KeyOwner[k]] = @ + 1], dv, u, l, claims, clean)
<1>1. PICK bk \in [Key -> Nat] :
        /\ \A j \in Key : bk[j] <= ra[j]
        /\ \A i \in DOMAIN u : \A p \in claims[i] : p \in DOMAIN st =>
             bk[st[p]] = 0 \/ (bk[st[p]] <= l[i] /\ l[i] <= ra[st[p]])
        /\ \A p \in clean : p \in DOMAIN st => bk[st[p]] = 0
        /\ \A d \in Device : Fits(ChargedUnits(dv, u, d) \union OpenUnits(bk, ra, d), ca[d])
  BY DEF Balanced
<1>2. PICK ra2, ca2 : ra2 = [ra EXCEPT ![k] = @ + 1] /\ ca2 = [ca EXCEPT ![KeyOwner[k]] = @ + 1]
  OBVIOUS
<1>3. KeyOwner[k] \in Device
  BY TunnelAssumption
<1>4. /\ ra2[k] = ra[k] + 1 /\ \A j \in Key : ra[j] \in Nat /\ (j # k => ra2[j] = ra[j])
      /\ ca2[KeyOwner[k]] = ca[KeyOwner[k]] + 1 /\ \A d \in Device : ca[d] \in Nat /\ (d # KeyOwner[k] => ca2[d] = ca[d])
  BY <1>2, <1>3
<1>5. \A j \in Key : bk[j] <= ra2[j]
  BY <1>1, <1>4
<1>6. ASSUME NEW i \in DOMAIN u, NEW p \in claims[i], p \in DOMAIN st
      PROVE  bk[st[p]] = 0 \/ (bk[st[p]] <= l[i] /\ l[i] <= ra2[st[p]])
  <2>1. bk[st[p]] = 0 \/ (bk[st[p]] <= l[i] /\ l[i] <= ra[st[p]])
    BY <1>1, <1>6
  <2>2. st[p] \in Key /\ l[i] \in Nat
    BY <1>6
  <2>3. ra[st[p]] \in Nat /\ ra2[st[p]] \in {ra[st[p]], ra[st[p]] + 1}
    BY <1>4, <2>2
  <2>. QED
    BY <2>1, <2>2, <2>3
<1>7. ASSUME NEW d \in Device
      PROVE  Fits(ChargedUnits(dv, u, d) \union OpenUnits(bk, ra2, d), ca2[d])
  <2>1. PICK s, t : /\ s = ChargedUnits(dv, u, d) \union OpenUnits(bk, ra, d)
                    /\ t = ChargedUnits(dv, u, d) \union OpenUnits(bk, ra2, d)
    OBVIOUS
  <2>2. Fits(s, ca[d]) /\ ca[d] \in Nat
    BY <1>1, <1>4, <2>1
  <2>3. CASE d = KeyOwner[k]
    <3>1. OpenUnits(bk, ra2, d) \subseteq OpenUnits(bk, ra, d) \union {<<1, k, ra[k] + 1>>}
      <4>1. ASSUME NEW z \in OpenUnits(bk, ra2, d), z \notin OpenUnits(bk, ra, d)
            PROVE  z = <<1, k, ra[k] + 1>>
        <5>1. PICK j \in Key, n \in Nat : z = <<1, j, n>>
          BY <4>1 DEF OpenUnits
        <5>2. KeyOwner[j] = d /\ bk[j] < n /\ n <= ra2[j] /\ ~(n <= ra[j])
          BY <4>1, <5>1 DEF OpenUnits
        <5>3. j = k /\ n = ra[k] + 1
          BY <1>4, <5>2
        <5>. QED
          BY <5>1, <5>3
      <4>. QED
        BY <4>1
    <3>2. PICK z : z = <<1, k, ra[k] + 1>>
      OBVIOUS
    <3>3. t \in SUBSET (s \union {z})
      BY <2>1, <3>1, <3>2
    <3>4. Fits(s \union {z}, ca[d] + 1)
      BY <2>2, FitsOneMore
    <3>5. Fits(t, ca[d] + 1)
      BY <3>3, <3>4, FitsLess
    <3>. QED
      BY <1>4, <2>1, <2>3, <3>5
  <2>4. CASE d # KeyOwner[k]
    <3>1. OpenUnits(bk, ra2, d) \subseteq OpenUnits(bk, ra, d)
      BY <1>4, <2>4 DEF OpenUnits
    <3>2. t \in SUBSET s
      BY <2>1, <3>1
    <3>3. Fits(t, ca[d])
      BY <2>2, <3>2, FitsLess
    <3>. QED
      BY <1>4, <2>1, <2>4, <3>3
  <2>. QED
    BY <2>3, <2>4
<1>8. Balanced(st, ra2, ca2, dv, u, l, claims, clean)
  BY <1>1, <1>5, <1>6, <1>7 DEF Balanced
<1>. QED
  BY <1>2, <1>8

\* A row counts the key of a peer that no other row claims. What it adds is what was
\* open of that key at most, whether the counter went on or began again.
LEMMA BalancedPoll ==
  ASSUME NEW st, NEW ra \in [Key -> Nat], NEW ca, NEW dv, NEW u, NEW l, NEW claims, NEW clean,
         Balanced(st, ra, ca, dv, u, l, claims, clean),
         \A p \in DOMAIN st : st[p] \in Key, \A p, q \in DOMAIN st : st[p] = st[q] => p = q,
         NEW i \in DOMAIN u, NEW p \in DOMAIN st, p \in claims[i], KeyOwner[st[p]] = dv[i],
         u[i] \in Nat, l[i] \in Nat,
         NEW u2, NEW l2, NEW claims2, NEW clean2, DOMAIN u2 = DOMAIN u,
         u2[i] = u[i] + Delta(ra[st[p]], l[i]), l2[i] = ra[st[p]],
         \A j \in DOMAIN u \ {i} : u2[j] = u[j] /\ l2[j] = l[j] /\ claims2[j] \subseteq claims[j] /\ p \notin claims2[j],
         \A q \in claims2[i] : q \in DOMAIN st => q = p \/ q \in clean,
         clean2 \subseteq clean, p \notin clean2
  PROVE  Balanced(st, ra, ca, dv, u2, l2, claims2, clean2)
<1>1. PICK bk \in [Key -> Nat] :
        /\ \A k \in Key : bk[k] <= ra[k]
        /\ \A j \in DOMAIN u : \A q \in claims[j] : q \in DOMAIN st =>
             bk[st[q]] = 0 \/ (bk[st[q]] <= l[j] /\ l[j] <= ra[st[q]])
        /\ \A q \in clean : q \in DOMAIN st => bk[st[q]] = 0
        /\ \A d \in Device : Fits(ChargedUnits(dv, u, d) \union OpenUnits(bk, ra, d), ca[d])
  BY DEF Balanced
<1>2. PICK k \in Key : k = st[p]
  OBVIOUS
<1>3. PICK b2 : b2 = [bk EXCEPT ![k] = ra[k]]
  OBVIOUS
<1>4. /\ b2 \in [Key -> Nat] /\ b2[k] = ra[k] /\ \A j \in Key : j # k => b2[j] = bk[j]
      /\ bk[k] \in Nat /\ ra[k] \in Nat /\ \A j \in Key : b2[j] <= ra[j]
  BY <1>1, <1>2, <1>3
<1>5. PICK more : more = Delta(ra[k], l[i])
  OBVIOUS
<1>6. more \in Nat /\ bk[k] + more <= ra[k]
  BY <1>1, <1>2, <1>4, <1>5 DEF Delta
<1>7. ASSUME NEW j \in DOMAIN u2, NEW q \in claims2[j], q \in DOMAIN st
      PROVE  b2[st[q]] = 0 \/ (b2[st[q]] <= l2[j] /\ l2[j] <= ra[st[q]])
  <2>1. CASE j = i
    <3>1. CASE q = p
      BY <1>2, <1>4, <2>1, <3>1
    <3>2. CASE q # p
      <4>1. st[q] # k /\ st[q] \in Key /\ bk[st[q]] = 0
        BY <1>1, <1>2, <1>7, <2>1, <3>2
      <4>. QED
        BY <1>4, <4>1
    <3>. QED
      BY <3>1, <3>2
  <2>2. CASE j # i
    <3>1. j \in DOMAIN u /\ q \in claims[j] /\ q # p /\ l2[j] = l[j]
      BY <1>7, <2>2
    <3>2. st[q] # k /\ st[q] \in Key
      BY <1>2, <1>7, <3>1
    <3>3. bk[st[q]] = 0 \/ (bk[st[q]] <= l[j] /\ l[j] <= ra[st[q]])
      BY <1>1, <1>7, <3>1
    <3>. QED
      BY <1>4, <3>1, <3>2, <3>3
  <2>. QED
    BY <2>1, <2>2
<1>8. ASSUME NEW q \in clean2, q \in DOMAIN st
      PROVE  b2[st[q]] = 0
  <2>1. st[q] # k /\ st[q] \in Key /\ bk[st[q]] = 0
    BY <1>1, <1>2, <1>8
  <2>. QED
    BY <1>4, <2>1
<1>9. ASSUME NEW d \in Device
      PROVE  Fits(ChargedUnits(dv, u2, d) \union OpenUnits(b2, ra, d), ca[d])
  <2>1. PICK s, t : /\ s = ChargedUnits(dv, u, d) \union OpenUnits(bk, ra, d)
                    /\ t = ChargedUnits(dv, u2, d) \union OpenUnits(b2, ra, d)
    OBVIOUS
  <2>2. PICK m : m = [z \in t |-> IF z \in s THEN z ELSE <<1, k, bk[k] + (z[3] - u[i])>>]
    OBVIOUS
  <2>3. ASSUME NEW z \in t, z \notin s
        PROVE  /\ z[1] = 0 /\ z[2] = i /\ z = <<0, i, z[3]>> /\ z[3] \in Nat
               /\ u[i] < z[3] /\ z[3] <= u[i] + more /\ KeyOwner[k] = d
    <3>1. z \in ChargedUnits(dv, u2, d)
      <4>1. ASSUME z \in OpenUnits(b2, ra, d) PROVE FALSE
        <5>1. PICK j \in Key, n \in Nat : z = <<1, j, n>> /\ KeyOwner[j] = d /\ b2[j] < n /\ n <= ra[j]
          BY <4>1 DEF OpenUnits
        <5>2. j # k /\ bk[j] < n
          BY <1>4, <5>1
        <5>3. z \in OpenUnits(bk, ra, d)
          BY <5>1, <5>2 DEF OpenUnits
        <5>. QED
          BY <2>1, <2>3, <5>3
      <4>. QED
        BY <2>1, <2>3, <4>1
    <3>2. PICK j \in DOMAIN u, n \in Nat : z = <<0, j, n>> /\ dv[j] = d /\ 0 < n /\ n <= u2[j]
      BY <3>1 DEF ChargedUnits
    <3>3. ~(n <= u[j])
      BY <2>1, <2>3, <3>2 DEF ChargedUnits
    <3>4. j = i
      BY <3>2, <3>3
    <3>5. u2[i] = u[i] + more /\ KeyOwner[k] = d
      BY <1>2, <1>5, <3>2, <3>4
    <3>6. z[1] = 0 /\ z[2] = j /\ z[3] = n
      BY <3>2
    <3>. QED
      BY <3>2, <3>3, <3>4, <3>5, <3>6
  <2>4. ASSUME NEW z \in t, z \notin s
        PROVE  /\ m[z] = <<1, k, bk[k] + (z[3] - u[i])>> /\ m[z] \in s
               /\ m[z] \notin t
    <3>1. m[z] = <<1, k, bk[k] + (z[3] - u[i])>>
      BY <2>2, <2>4
    <3>2. PICK n : n = bk[k] + (z[3] - u[i])
      OBVIOUS
    <3>3. n \in Nat /\ bk[k] < n /\ n <= ra[k] /\ KeyOwner[k] = d
      BY <1>4, <1>6, <2>3, <2>4, <3>2
    <3>4. <<1, k, n>> \in OpenUnits(bk, ra, d)
      BY <3>3 DEF OpenUnits
    <3>5. <<1, k, n>> \notin t
      <4>1. <<1, k, n>> \notin OpenUnits(b2, ra, d)
        BY <1>4, <3>3 DEF OpenUnits
      <4>2. <<1, k, n>> \notin ChargedUnits(dv, u2, d)
        BY DEF ChargedUnits
      <4>. QED
        BY <2>1, <4>1, <4>2
    <3>. QED
      BY <2>1, <3>1, <3>2, <3>4, <3>5
  <2>5. \A z \in t : z \in s => m[z] = z
    BY <2>2
  <2>6. m \in [t -> s]
    BY <2>2, <2>4, <2>5
  <2>7. ASSUME NEW y \in t, NEW z \in t, m[y] = m[z]
        PROVE  y = z
    <3>1. CASE y \in s /\ z \in s
      BY <2>5, <2>7, <3>1
    <3>2. CASE y \notin s /\ z \notin s
      <4>1. bk[k] + (y[3] - u[i]) = bk[k] + (z[3] - u[i])
        BY <2>4, <2>7, <3>2
      <4>2. y[3] \in Nat /\ z[3] \in Nat
        BY <2>3, <3>2
      <4>3. y[3] = z[3]
        BY <1>4, <4>1, <4>2
      <4>. QED
        BY <2>3, <3>2, <4>3
    <3>3. CASE y \in s /\ z \notin s
      BY <2>4, <2>5, <2>7, <3>3
    <3>4. CASE y \notin s /\ z \in s
      BY <2>4, <2>5, <2>7, <3>4
    <3>. QED
      BY <3>1, <3>2, <3>3, <3>4
  <2>8. IsInjective(m)
    BY <2>6, <2>7 DEF IsInjective
  <2>9. Fits(s, ca[d])
    BY <1>1, <2>1
  <2>10. Fits(t, ca[d])
    BY <2>6, <2>8, <2>9, FitsInto
  <2>. QED
    BY <2>1, <2>10
<1>. QED
  BY <1>4, <1>7, <1>8, <1>9 DEF Balanced

-----------------------------------------------------------------------------
(* Rows, calls and peers, whatever the counters say.                          *)

\* The calls that read the counters, and the rows that such a call has still to poll.
Poller(x) == x.op \in {"traffic", "page"}
Still(x, i) == i \in x.todo \/ (x.at = "poll" /\ i = x.row)

\* Only a poller changes what a row has used.
PollerLines == {"next", "poll", "count", "mark", "off", "remove", "gone", "finish"}
PollLine(x) ==
  IF Poller(x)
  THEN x.at \in PollerLines /\ (x.at \in WithRow => x.row \notin x.todo)
  ELSE /\ x.at \notin {"poll", "count"}
       /\ \A i \in DOMAIN x.mine : x.mine[i].used = x.seen[i].used /\ x.mine[i].last = x.seen[i].last

\* A row, and every copy of it, is of the device that made its key.
RowOwned(r, d) == r.dev = d /\ KeyOwner[r.key] = d
CallOwned(x, ro) ==
  /\ \A i \in DOMAIN x.mine : RowOwned(x.seen[i], ro[i].dev) /\ RowOwned(x.mine[i], ro[i].dev)
  /\ x.op = "register" =>
       KeyOwner[x.key] = x.dev /\ (x.at \in WithRow => ro[x.row].dev = x.dev)

\* The peer a call was just given is named nowhere else.
NewlyGot(ro, cs) ==
  \A c \in DOMAIN cs : cs[c].got # 0 =>
    /\ \A i \in DOMAIN ro : ro[i].peer # cs[c].got
    /\ \A e \in DOMAIN cs \ {c} : cs[e].got # cs[c].got
    /\ \A e \in DOMAIN cs : Poller(cs[e]) =>
         \A i \in DOMAIN cs[e].mine : cs[e].mine[i].peer # cs[c].got

\* Every peer was made for one row, and its key is of the row's device.
Homes(h, ro, cs, st) ==
  /\ \A i \in DOMAIN ro : ro[i].peer # 0 => h[ro[i].peer] = i
  /\ \A c \in DOMAIN cs : cs[c].got # 0 => h[cs[c].got] = cs[c].row
  /\ \A c \in DOMAIN cs : Poller(cs[c]) =>
       \A i \in DOMAIN cs[c].mine : cs[c].mine[i].peer # 0 => h[cs[c].mine[i].peer] = i
  /\ \A p \in DOMAIN st : h[p] \in DOMAIN ro /\ KeyOwner[st[p]] = ro[h[p]].dev

Belongs ==
  /\ carried \in [Device -> Nat]
  /\ \A i \in DOMAIN rows : KeyOwner[rows[i].key] = rows[i].dev
  /\ \A c \in DOMAIN calls : PollLine(calls[c]) /\ CallOwned(calls[c], rows)
  /\ NewlyGot(rows, calls)
  /\ \E h : Homes(h, rows, calls, store)

InTune(cl) == cl \intersect {"poll", "sync"} = {}

\* What a step of one call does to the other calls, the rows, the node and itself.
OnlyMoves(c) == \A e \in DOMAIN calls' \ {c} : e \in DOMAIN calls /\ calls'[e] = calls[e]
RowMoves(c, i) ==
  /\ rows'[i].dev = rows[i].dev /\ KeyOwner[rows'[i].key] = rows[i].dev
  /\ \/ rows'[i].peer \in {0, rows[i].peer}
     \/ /\ c \in DOMAIN calls \ DOMAIN calls' /\ calls[c].row = i
        /\ calls[c].got # 0 /\ rows'[i].peer = calls[c].got
RowsMove(c) ==
  /\ DOMAIN rows \subseteq DOMAIN rows'
  /\ \A i \in DOMAIN rows : RowMoves(c, i)
  /\ \A i \in DOMAIN rows' \ DOMAIN rows :
       rows'[i].peer = 0 /\ rows'[i].used = 0 /\ KeyOwner[rows'[i].key] = rows'[i].dev
NodeMoves(c) ==
  /\ \A p \in DOMAIN store' :
       \/ p \in DOMAIN store /\ store'[p] = store[p]
       \/ /\ p = nextPeer /\ c \in DOMAIN calls /\ calls[c].row \in DOMAIN rows
          /\ KeyOwner[store'[p]] = rows[calls[c].row].dev
          /\ InTune(clash') /\ live = Keys(store) => raw'[store'[p]] = 0
  /\ InTune(clash') /\ live = Keys(store) =>
       live' = Keys(store') /\ \A k \in Key : raw'[k] \in {raw[k], 0}
NamesMove(c) ==
  c \in DOMAIN calls' =>
    /\ \/ calls'[c].got = 0
       \/ c \in DOMAIN calls /\ calls'[c].got = nextPeer /\ calls'[c].row = calls[c].row
    /\ Poller(calls'[c]) => \A i \in DOMAIN calls'[c].mine :
         \/ calls'[c].mine[i].peer = 0
         \/ i \in DOMAIN rows /\ calls'[c].mine[i].peer = rows[i].peer
         \/ /\ c \in DOMAIN calls /\ Poller(calls[c]) /\ i \in DOMAIN calls[c].mine
            /\ calls'[c].mine[i].peer = calls[c].mine[i].peer
    /\ PollLine(calls'[c]) /\ CallOwned(calls'[c], rows')
Moves(c) == OnlyMoves(c) /\ RowsMove(c) /\ NodeMoves(c) /\ NamesMove(c)

\* No name that is in use is the next one.
LEMMA NamesEarlier ==
  ASSUME TunnelInv
  PROVE  /\ nextPeer \in Nat \ {0} /\ 0 \notin DOMAIN store /\ nextPeer \notin DOMAIN store
         /\ \A i \in DOMAIN rows : rows[i].peer # nextPeer
         /\ \A c \in DOMAIN calls : /\ calls[c].got # nextPeer
                                    /\ \A i \in DOMAIN calls[c].mine : calls[c].mine[i].peer # nextPeer
<1>1. NodeTrue(store, nextPeer, excused) /\ RowsTrue(rows, store, nextPeer, excused)
  BY DEF TunnelInv
<1>2. nextPeer \in Nat \ {0} /\ 0 \notin DOMAIN store /\ nextPeer \notin DOMAIN store
  BY <1>1 DEF NodeTrue, Peer
<1>3. \A r : RowTrue(r, store, nextPeer, excused) => r.peer # nextPeer
  BY <1>2, TunnelAssumption DEF RowTrue, Row, Peer
<1>4. \A i \in DOMAIN rows : rows[i].peer # nextPeer
  BY <1>1, <1>3 DEF RowsTrue
<1>5. ASSUME NEW c \in DOMAIN calls
      PROVE  calls[c].got # nextPeer /\ \A i \in DOMAIN calls[c].mine : calls[c].mine[i].peer # nextPeer
  <2>1. calls[c].got # nextPeer
    BY <1>2, CallIs DEF AddTrue
  <2>. QED
    BY <1>3, <2>1, CallIs
<1>. QED
  BY <1>2, <1>4, <1>5

LEMMA NewlyGotKept ==
  ASSUME TunnelInv, NewlyGot(rows, calls), NEW c, Moves(c)
  PROVE  NewlyGot(rows', calls')
<1>1. /\ nextPeer # 0 /\ \A i \in DOMAIN rows : rows[i].peer # nextPeer
      /\ \A e \in DOMAIN calls : /\ calls[e].got # nextPeer
                                 /\ \A i \in DOMAIN calls[e].mine : calls[e].mine[i].peer # nextPeer
  BY NamesEarlier
<1>2. ASSUME NEW e \in DOMAIN calls', calls'[e].got # 0
      PROVE  /\ \A i \in DOMAIN rows' : rows'[i].peer # calls'[e].got
             /\ \A f \in DOMAIN calls' \ {e} : calls'[f].got # calls'[e].got
             /\ \A f \in DOMAIN calls' : Poller(calls'[f]) =>
                  \A i \in DOMAIN calls'[f].mine : calls'[f].mine[i].peer # calls'[e].got
  <2>1. PICK g : g = calls'[e].got
    OBVIOUS
  <2>2. CASE e # c
    <3>1. /\ e \in DOMAIN calls /\ calls[e].got = g /\ g # 0
          /\ g # nextPeer /\ \A i \in DOMAIN rows : rows[i].peer # g
          /\ \A f \in DOMAIN calls \ {e} : calls[f].got # g
          /\ \A f \in DOMAIN calls : Poller(calls[f]) => \A i \in DOMAIN calls[f].mine : calls[f].mine[i].peer # g
      BY <1>1, <1>2, <2>1, <2>2 DEF Moves, OnlyMoves, NewlyGot
    <3>2. \A i \in DOMAIN rows' : rows'[i].peer # g
      BY <2>2, <3>1 DEF Moves, RowsMove, RowMoves
    <3>3. \A f \in DOMAIN calls' \ {e} : calls'[f].got # g
      BY <3>1 DEF Moves, OnlyMoves, NamesMove
    <3>4. ASSUME NEW f \in DOMAIN calls', Poller(calls'[f]), NEW i \in DOMAIN calls'[f].mine
          PROVE  calls'[f].mine[i].peer # g
      <4>1. CASE f = c
        BY <3>1, <3>4, <4>1 DEF Moves, NamesMove
      <4>2. CASE f # c
        BY <3>1, <3>4, <4>2 DEF Moves, OnlyMoves
      <4>. QED
        BY <4>1, <4>2
    <3>. QED
      BY <2>1, <3>2, <3>3, <3>4
  <2>3. CASE e = c
    <3>1. g = nextPeer /\ c \in DOMAIN calls'
      BY <1>2, <2>1, <2>3 DEF Moves, NamesMove
    <3>2. \A i \in DOMAIN rows' : rows'[i].peer # g
      BY <1>1, <3>1 DEF Moves, RowsMove, RowMoves
    <3>3. \A f \in DOMAIN calls' \ {e} : calls'[f].got # g
      BY <1>1, <2>3, <3>1 DEF Moves, OnlyMoves
    <3>4. ASSUME NEW f \in DOMAIN calls', Poller(calls'[f]), NEW i \in DOMAIN calls'[f].mine
          PROVE  calls'[f].mine[i].peer # g
      <4>1. CASE f = c
        BY <1>1, <3>1, <3>4, <4>1 DEF Moves, NamesMove
      <4>2. CASE f # c
        BY <1>1, <3>1, <3>4, <4>2 DEF Moves, OnlyMoves
      <4>. QED
        BY <4>1, <4>2
    <3>. QED
      BY <2>1, <3>2, <3>3, <3>4
  <2>. QED
    BY <2>2, <2>3
<1>. QED
  BY <1>2 DEF NewlyGot

LEMMA HomesKept ==
  ASSUME TunnelInv, NEW h, Homes(h, rows, calls, store), NEW c, Moves(c)
  PROVE  \E h2 : Homes(h2, rows', calls', store')
<1>1. /\ nextPeer # 0 /\ nextPeer \notin DOMAIN store /\ \A i \in DOMAIN rows : rows[i].peer # nextPeer
      /\ \A e \in DOMAIN calls : /\ calls[e].got # nextPeer
                                 /\ \A i \in DOMAIN calls[e].mine : calls[e].mine[i].peer # nextPeer
  BY NamesEarlier
<1>2. PICK h2 : h2 = [p \in Nat |-> IF p = nextPeer THEN calls[c].row ELSE h[p]]
  OBVIOUS
<1>3. /\ nextPeer \in Nat /\ h2[nextPeer] = calls[c].row
      /\ \A p \in Nat : p # nextPeer => h2[p] = h[p]
  BY <1>2, NamesEarlier
<1>4. /\ \A i \in DOMAIN rows : rows[i].peer \in Nat
      /\ \A e \in DOMAIN calls : /\ calls[e].got \in Nat
                                 /\ \A i \in DOMAIN calls[e].mine : calls[e].mine[i].peer \in Nat
      /\ \A p \in DOMAIN store : p \in Nat
  <2>1. \A r \in Row : r.peer \in Nat
    BY TunnelAssumption DEF Row, Peer
  <2>2. \A i \in DOMAIN rows : rows[i].peer \in Nat
    BY <2>1 DEF TunnelInv, RowsTrue, RowTrue
  <2>3. ASSUME NEW e \in DOMAIN calls
        PROVE  calls[e].got \in Nat /\ \A i \in DOMAIN calls[e].mine : calls[e].mine[i].peer \in Nat
    <3>1. calls[e].got \in Nat
      BY CallIs, TunnelAssumption DEF AddTrue, Peer
    <3>. QED
      BY <2>1, <3>1, CallIs DEF RowTrue
  <2>4. \A p \in DOMAIN store : p \in Nat
    BY TunnelAssumption DEF TunnelInv, NodeTrue, Peer
  <2>. QED
    BY <2>2, <2>3, <2>4
<1>5. ASSUME NEW i \in DOMAIN rows', rows'[i].peer # 0
      PROVE  h2[rows'[i].peer] = i
  <2>1. i \in DOMAIN rows
    BY <1>5 DEF Moves, RowsMove
  <2>2. RowMoves(c, i)
    BY <2>1 DEF Moves, RowsMove
  <2>3. CASE rows'[i].peer = rows[i].peer
    BY <1>1, <1>3, <1>4, <1>5, <2>1, <2>3 DEF Homes
  <2>4. CASE c \in DOMAIN calls /\ calls[c].row = i /\ calls[c].got # 0 /\ rows'[i].peer = calls[c].got
    BY <1>1, <1>3, <1>4, <2>4 DEF Homes
  <2>. QED
    BY <1>5, <2>2, <2>3, <2>4 DEF RowMoves
<1>6. ASSUME NEW e \in DOMAIN calls', calls'[e].got # 0
      PROVE  h2[calls'[e].got] = calls'[e].row
  <2>1. CASE e = c
    BY <1>3, <1>6, <2>1 DEF Moves, NamesMove
  <2>2. CASE e # c
    <3>1. e \in DOMAIN calls /\ calls'[e] = calls[e]
      BY <1>6, <2>2 DEF Moves, OnlyMoves
    <3>. QED
      BY <1>1, <1>3, <1>4, <1>6, <3>1 DEF Homes
  <2>. QED
    BY <2>1, <2>2
<1>7. ASSUME NEW e \in DOMAIN calls', Poller(calls'[e]), NEW i \in DOMAIN calls'[e].mine, calls'[e].mine[i].peer # 0
      PROVE  h2[calls'[e].mine[i].peer] = i
  <2>1. CASE e # c
    <3>1. e \in DOMAIN calls /\ calls'[e] = calls[e]
      BY <1>7, <2>1 DEF Moves, OnlyMoves
    <3>. QED
      BY <1>1, <1>3, <1>4, <1>7, <3>1 DEF Homes
  <2>2. CASE e = c /\ i \in DOMAIN rows /\ calls'[e].mine[i].peer = rows[i].peer
    BY <1>1, <1>3, <1>4, <1>7, <2>2 DEF Homes
  <2>3. CASE /\ e = c /\ c \in DOMAIN calls /\ Poller(calls[c]) /\ i \in DOMAIN calls[c].mine
             /\ calls'[e].mine[i].peer = calls[c].mine[i].peer
    BY <1>1, <1>3, <1>4, <1>7, <2>3 DEF Homes
  <2>. QED
    BY <1>7, <2>1, <2>2, <2>3 DEF Moves, NamesMove
<1>8. ASSUME NEW p \in DOMAIN store'
      PROVE  h2[p] \in DOMAIN rows' /\ KeyOwner[store'[p]] = rows'[h2[p]].dev
  <2>1. \A i \in DOMAIN rows : i \in DOMAIN rows' /\ rows'[i].dev = rows[i].dev
    BY DEF Moves, RowsMove, RowMoves
  <2>2. CASE p \in DOMAIN store /\ store'[p] = store[p]
    <3>1. h2[p] = h[p]
      BY <1>1, <1>3, <1>4, <2>2
    <3>. QED
      BY <2>1, <2>2, <3>1 DEF Homes
  <2>3. CASE p = nextPeer /\ calls[c].row \in DOMAIN rows /\ KeyOwner[store'[p]] = rows[calls[c].row].dev
    BY <1>3, <2>1, <2>3
  <2>. QED
    BY <2>2, <2>3 DEF Moves, NodeMoves
<1>9. Homes(h2, rows', calls', store')
  BY <1>5, <1>6, <1>7, <1>8 DEF Homes
<1>. QED
  BY <1>9

LEMMA BelongsKept ==
  ASSUME TunnelInv, Belongs, NEW c, Moves(c), carried' = carried
  PROVE  Belongs'
<1>1. \A i \in DOMAIN rows : i \in DOMAIN rows' /\ rows'[i].dev = rows[i].dev
  BY DEF Moves, RowsMove, RowMoves
<1>2. \A i \in DOMAIN rows' : KeyOwner[rows'[i].key] = rows'[i].dev
  BY DEF Moves, RowsMove, RowMoves
<1>3. ASSUME NEW e \in DOMAIN calls'
      PROVE  PollLine(calls'[e]) /\ CallOwned(calls'[e], rows')
  <2>1. CASE e = c
    BY <1>3, <2>1 DEF Moves, NamesMove
  <2>2. CASE e # c
    <3>1. e \in DOMAIN calls /\ calls'[e] = calls[e]
      BY <1>3, <2>2 DEF Moves, OnlyMoves
    <3>2. PICK x : x = calls[e]
      OBVIOUS
    <3>3. PollLine(x) /\ CallOwned(x, rows) /\ OnLine(x) /\ DOMAIN x.mine \subseteq DOMAIN rows
      BY <3>1, <3>2, CallIs DEF Belongs
    <3>4. CallOwned(x, rows')
      BY <1>1, <3>3 DEF CallOwned, OnLine
    <3>. QED
      BY <3>1, <3>2, <3>3, <3>4
  <2>. QED
    BY <2>1, <2>2
<1>4. NewlyGot(rows', calls')
  BY NewlyGotKept DEF Belongs
<1>5. \E h : Homes(h, rows', calls', store')
  BY HomesKept DEF Belongs
<1>6. carried' \in [Device -> Nat]
  BY DEF Belongs
<1>. QED
  BY <1>2, <1>3, <1>4, <1>5, <1>6 DEF Belongs

-----------------------------------------------------------------------------
(* The account of the table, and that of a poller: its session holds what the *)
(* rows it polled will be charged with, once it commits.                      *)
Devs(ro) == [i \in DOMAIN ro |-> ro[i].dev]
Gots(cs) == {cs[c].got : c \in DOMAIN cs}
TableUsed(ro) == [i \in DOMAIN ro |-> ro[i].used]
TableLast(ro) == [i \in DOMAIN ro |-> ro[i].last]
TableClaims(ro) == [i \in DOMAIN ro |-> {ro[i].peer}]
PollUsed(x, ro) == [i \in DOMAIN ro |-> IF i \in DOMAIN x.mine THEN x.mine[i].used ELSE ro[i].used]
PollLast(x, ro) == [i \in DOMAIN ro |-> IF i \in DOMAIN x.mine THEN x.mine[i].last ELSE ro[i].last]
PollClaims(x, ro) == [i \in DOMAIN ro |-> {ro[i].peer} \union (IF Still(x, i) THEN {x.mine[i].peer} ELSE {})]
\* The peers that were stored for a row while the poller still has another one.
Elsewhere(x, ro) == {ro[i].peer : i \in {j \in DOMAIN ro : Still(x, j) /\ ro[j].peer # x.mine[j].peer}}

TableTrue(st, ra, ca, ro, cs) ==
  Balanced(st, ra, ca, Devs(ro), TableUsed(ro), TableLast(ro), TableClaims(ro), Gots(cs))
PollTrue(st, ra, ca, ro, cs, x) ==
  /\ \A i \in DOMAIN x.mine : x.seen[i].used = ro[i].used /\ x.seen[i].last = ro[i].last
  /\ Balanced(st, ra, ca, Devs(ro), PollUsed(x, ro), PollLast(x, ro), PollClaims(x, ro),
              Gots(cs) \union Elsewhere(x, ro))

Booked ==
  /\ live = Keys(store)
  /\ \A c, e \in DOMAIN calls : Poller(calls[c]) /\ Poller(calls[e]) => c = e
  /\ TableTrue(store, raw, carried, rows, calls)
  /\ \A c \in DOMAIN calls : Poller(calls[c]) => PollTrue(store, raw, carried, rows, calls, calls[c])

ChargeInv == Belongs /\ (InTune(clash) => Booked)

\* The counts of the table stay, and those of a session.
CountsStay == \A i \in DOMAIN rows : rows'[i].used = rows[i].used /\ rows'[i].last = rows[i].last
PollStays(x, y) ==
  /\ Poller(x) /\ DOMAIN y.mine = DOMAIN x.mine
  /\ \A i \in DOMAIN x.mine : /\ y.mine[i].used = x.mine[i].used /\ y.mine[i].last = x.mine[i].last
                              /\ Still(y, i) => y.mine[i].peer = x.mine[i].peer
  /\ \A i : Still(y, i) => Still(x, i)
SeenStays(x, y) ==
  \A i \in DOMAIN x.mine : y.seen[i].used = x.seen[i].used /\ y.seen[i].last = x.seen[i].last

\* The peers a call was given are clean: the old ones were, and the counter of the new
\* one is at zero.
LEMMA GotsKept ==
  ASSUME TunnelInv, NEW c, Moves(c), InTune(clash'), live = Keys(store), NEW p \in Gots(calls'), p \in DOMAIN store'
  PROVE  p \in Gots(calls) \/ raw'[store'[p]] = 0
<1>1. PICK e \in DOMAIN calls' : p = calls'[e].got
  BY DEF Gots
<1>2. nextPeer # 0 /\ 0 \notin DOMAIN store /\ nextPeer \notin DOMAIN store
  BY NamesEarlier
<1>3. p # 0
  BY <1>2 DEF Moves, NodeMoves
<1>4. CASE e # c
  BY <1>1, <1>4 DEF Moves, OnlyMoves, Gots
<1>5. CASE e = c
  <2>1. p = nextPeer
    BY <1>1, <1>3, <1>5 DEF Moves, NamesMove
  <2>. QED
    BY <1>2, <2>1 DEF Moves, NodeMoves
<1>. QED
  BY <1>4, <1>5

\* An account of the rows goes on to be one.
LEMMA AccountMoves ==
  ASSUME TunnelInv, TunnelInv', NEW c, Moves(c), InTune(clash'), live = Keys(store), carried' = carried,
         NEW u, NEW l, NEW claims, NEW clean, DOMAIN u = DOMAIN rows,
         Balanced(store, raw, carried, Devs(rows), u, l, claims, clean),
         NEW u2, NEW l2, NEW claims2, NEW clean2, DOMAIN u2 = DOMAIN rows',
         \A i \in DOMAIN rows : u2[i] = u[i] /\ l2[i] = l[i],
         \A i \in DOMAIN rows' \ DOMAIN rows : u2[i] = 0,
         \A p \in clean2 : p \in DOMAIN store' => p \in clean \/ raw'[store'[p]] = 0,
         \A i \in DOMAIN rows' : \A p \in claims2[i] : p \in DOMAIN store' =>
            p \in clean \/ (i \in DOMAIN rows /\ p \in claims[i]) \/ raw'[store'[p]] = 0
  PROVE  Balanced(store', raw', carried', Devs(rows'), u2, l2, claims2, clean2)
<1>1. PICK st, ra, ca, dv, st2, ra2, dv2 :
        /\ st = store /\ ra = raw /\ ca = carried /\ dv = Devs(rows)
        /\ st2 = store' /\ ra2 = raw' /\ dv2 = Devs(rows')
  OBVIOUS
<1>2. ra \in [Key -> Nat] /\ ra2 \in [Key -> Nat] /\ \A p \in DOMAIN st2 : st2[p] \in Key
  BY <1>1 DEF TunnelInv, Plainly, NodeTrue
<1>3. \A k \in Key : ra2[k] \in {ra[k], 0}
  BY <1>1 DEF Moves, NodeMoves
<1>4. \A p \in DOMAIN st2 : (p \in DOMAIN st /\ st2[p] = st[p]) \/ ra2[st2[p]] = 0
  BY <1>1 DEF Moves, NodeMoves
<1>5. \A i \in DOMAIN u2 : IF i \in DOMAIN u THEN dv2[i] = dv[i] /\ u2[i] = u[i] /\ l2[i] = l[i] ELSE u2[i] = 0
  <2>1. \A i \in DOMAIN rows : i \in DOMAIN rows' /\ dv2[i] = dv[i]
    BY <1>1 DEF Moves, RowsMove, RowMoves, Devs
  <2>. QED
    BY <2>1
<1>6. Balanced(st, ra, ca, dv, u, l, claims, clean)
  BY <1>1
<1>7. /\ \A p \in clean2 : p \in DOMAIN st2 => p \in clean \/ ra2[st2[p]] = 0
      /\ \A i \in DOMAIN u2 : \A p \in claims2[i] : p \in DOMAIN st2 =>
            p \in clean \/ (i \in DOMAIN u /\ p \in claims[i]) \/ ra2[st2[p]] = 0
  BY <1>1
<1>8. Balanced(st2, ra2, ca, dv2, u2, l2, claims2, clean2)
  BY <1>2, <1>3, <1>4, <1>5, <1>6, <1>7, BalancedStays
<1>. QED
  BY <1>1, <1>8

\* The account of the table, from itself or from that of the poller that commits.
LEMMA TableMoves ==
  ASSUME TunnelInv, TunnelInv', NEW c, Moves(c), InTune(clash'), live = Keys(store), carried' = carried,
         NEW u, NEW l, NEW claims, NEW clean, DOMAIN u = DOMAIN rows,
         Balanced(store, raw, carried, Devs(rows), u, l, claims, clean),
         Gots(calls) \subseteq clean, \A i \in DOMAIN rows : rows[i].peer \in claims[i],
         \A i \in DOMAIN rows : rows'[i].used = u[i] /\ rows'[i].last = l[i]
  PROVE  TableTrue(store', raw', carried', rows', calls')
<1>1. PICK u2, l2, claims2, clean2 :
        /\ u2 = TableUsed(rows') /\ l2 = TableLast(rows')
        /\ claims2 = TableClaims(rows') /\ clean2 = Gots(calls')
  OBVIOUS
<1>2. DOMAIN u2 = DOMAIN rows' /\ \A i \in DOMAIN rows' : u2[i] = rows'[i].used /\ l2[i] = rows'[i].last /\ claims2[i] = {rows'[i].peer}
  BY <1>1 DEF TableUsed, TableLast, TableClaims
<1>3. DOMAIN rows \subseteq DOMAIN rows' /\ 0 \notin DOMAIN store'
  BY DEF Moves, RowsMove, TunnelInv, NodeTrue, Peer
<1>4. \A i \in DOMAIN rows' \ DOMAIN rows : u2[i] = 0
  BY <1>2 DEF Moves, RowsMove
<1>5. \A p \in clean2 : p \in DOMAIN store' => p \in clean \/ raw'[store'[p]] = 0
  BY <1>1, GotsKept
<1>6. ASSUME NEW i \in DOMAIN rows', NEW p \in claims2[i], p \in DOMAIN store'
      PROVE  p \in clean \/ (i \in DOMAIN rows /\ p \in claims[i]) \/ raw'[store'[p]] = 0
  <2>1. p = rows'[i].peer /\ p # 0
    BY <1>2, <1>3, <1>6
  <2>2. i \in DOMAIN rows /\ RowMoves(c, i)
    BY <2>1 DEF Moves, RowsMove
  <2>. QED
    BY <2>1, <2>2 DEF RowMoves, Gots
<1>7. Balanced(store', raw', carried', Devs(rows'), u2, l2, claims2, clean2)
  BY <1>2, <1>3, <1>4, <1>5, <1>6, AccountMoves
<1>. QED
  BY <1>1, <1>7 DEF TableTrue

\* A poller that still has rows to poll has them in its session.
Polls(x) == Poller(x) /\ \A i : Still(x, i) => i \in DOMAIN x.mine

\* The account of a poller.
LEMMA PollMoves ==
  ASSUME TunnelInv, TunnelInv', NEW c, Moves(c), InTune(clash'), live = Keys(store), carried' = carried,
         NEW x, NEW y, Polls(x), DOMAIN x.mine \subseteq DOMAIN rows, PollStays(x, y),
         PollTrue(store, raw, carried, rows, calls, x),
         \A i \in DOMAIN rows \ DOMAIN x.mine : rows'[i].used = rows[i].used /\ rows'[i].last = rows[i].last,
         \A i \in DOMAIN x.mine : y.seen[i].used = rows'[i].used /\ y.seen[i].last = rows'[i].last
  PROVE  PollTrue(store', raw', carried', rows', calls', y)
<1>1. PICK u, l, claims, clean :
        /\ u = PollUsed(x, rows) /\ l = PollLast(x, rows)
        /\ claims = PollClaims(x, rows) /\ clean = Gots(calls) \union Elsewhere(x, rows)
  OBVIOUS
<1>2. PICK u2, l2, claims2, clean2 :
        /\ u2 = PollUsed(y, rows') /\ l2 = PollLast(y, rows')
        /\ claims2 = PollClaims(y, rows') /\ clean2 = Gots(calls') \union Elsewhere(y, rows')
  OBVIOUS
<1>3. DOMAIN rows \subseteq DOMAIN rows' /\ 0 \notin DOMAIN store'
  BY DEF Moves, RowsMove, TunnelInv, NodeTrue, Peer
<1>4. /\ DOMAIN u = DOMAIN rows /\ DOMAIN u2 = DOMAIN rows'
      /\ Balanced(store, raw, carried, Devs(rows), u, l, claims, clean)
  BY <1>1, <1>2 DEF PollUsed, PollTrue
<1>5. \A i \in DOMAIN rows : u2[i] = u[i] /\ l2[i] = l[i]
  <2>1. ASSUME NEW i \in DOMAIN rows, i \in DOMAIN x.mine PROVE u2[i] = u[i] /\ l2[i] = l[i]
    <3>1. /\ u[i] = x.mine[i].used /\ l[i] = x.mine[i].last
          /\ u2[i] = y.mine[i].used /\ l2[i] = y.mine[i].last
      BY <1>1, <1>2, <1>3, <2>1 DEF PollUsed, PollLast, PollStays
    <3>. QED
      BY <2>1, <3>1 DEF PollStays
  <2>2. ASSUME NEW i \in DOMAIN rows, i \notin DOMAIN x.mine PROVE u2[i] = u[i] /\ l2[i] = l[i]
    <3>1. /\ u[i] = rows[i].used /\ l[i] = rows[i].last
          /\ u2[i] = rows'[i].used /\ l2[i] = rows'[i].last
      BY <1>1, <1>2, <1>3, <2>2 DEF PollUsed, PollLast, PollStays
    <3>. QED
      BY <2>2, <3>1
  <2>. QED
    BY <2>1, <2>2
<1>6. \A i \in DOMAIN rows' \ DOMAIN rows : u2[i] = 0
  <2>1. ASSUME NEW i \in DOMAIN rows' \ DOMAIN rows PROVE u2[i] = 0
    <3>1. u2[i] = rows'[i].used
      BY <1>2, <2>1 DEF PollUsed, PollStays
    <3>. QED
      BY <2>1, <3>1 DEF Moves, RowsMove
  <2>. QED
    BY <2>1
<1>7. ASSUME NEW i, Still(y, i)
      PROVE  i \in DOMAIN rows /\ Still(x, i) /\ y.mine[i].peer = x.mine[i].peer
  BY <1>7 DEF PollStays, Polls
<1>8. ASSUME NEW p \in clean2, p \in DOMAIN store'
      PROVE  p \in clean \/ raw'[store'[p]] = 0
  <2>1. CASE p \in Gots(calls')
    BY <1>1, <1>8, <2>1, GotsKept
  <2>2. CASE p \in Elsewhere(y, rows')
    <3>1. PICK j \in DOMAIN rows' : p = rows'[j].peer /\ Still(y, j) /\ rows'[j].peer # y.mine[j].peer
      BY <2>2 DEF Elsewhere
    <3>2. j \in DOMAIN rows /\ Still(x, j) /\ p # x.mine[j].peer /\ p # 0
      BY <1>3, <1>7, <1>8, <3>1
    <3>3. RowMoves(c, j)
      BY <3>2 DEF Moves, RowsMove
    <3>4. p = rows[j].peer \/ p \in Gots(calls)
      BY <3>1, <3>2, <3>3 DEF RowMoves, Gots
    <3>. QED
      BY <1>1, <3>2, <3>4 DEF Elsewhere
  <2>. QED
    BY <1>2, <1>8, <2>1, <2>2
<1>9. ASSUME NEW i \in DOMAIN rows', NEW p \in claims2[i], p \in DOMAIN store'
      PROVE  p \in clean \/ (i \in DOMAIN rows /\ p \in claims[i]) \/ raw'[store'[p]] = 0
  <2>1. p # 0 /\ (p = rows'[i].peer \/ (Still(y, i) /\ p = y.mine[i].peer))
    BY <1>2, <1>3, <1>9 DEF PollClaims
  <2>2. \A j \in DOMAIN rows : rows[j].peer \in claims[j] /\ (Still(x, j) => x.mine[j].peer \in claims[j])
    BY <1>1 DEF PollClaims
  <2>3. CASE p = rows'[i].peer
    <3>1. i \in DOMAIN rows /\ RowMoves(c, i)
      BY <2>1, <2>3 DEF Moves, RowsMove
    <3>2. p = rows[i].peer \/ p \in Gots(calls)
      BY <2>1, <2>3, <3>1 DEF RowMoves, Gots
    <3>. QED
      BY <1>1, <2>2, <3>1, <3>2
  <2>4. CASE Still(y, i) /\ p = y.mine[i].peer
    BY <1>7, <2>2, <2>4
  <2>. QED
    BY <2>1, <2>3, <2>4
<1>10. Balanced(store', raw', carried', Devs(rows'), u2, l2, claims2, clean2)
  BY <1>3, <1>4, <1>5, <1>6, <1>8, <1>9, AccountMoves
<1>11. \A i \in DOMAIN y.mine : y.seen[i].used = rows'[i].used /\ y.seen[i].last = rows'[i].last
  BY DEF PollStays
<1>. QED
  BY <1>2, <1>10, <1>11 DEF PollTrue

\* A call that reads the counters polls rows of its session.
LEMMA PollerPolls ==
  ASSUME TunnelInv, NEW c \in DOMAIN calls, Poller(calls[c])
  PROVE  Polls(calls[c]) /\ DOMAIN calls[c].mine \subseteq DOMAIN rows
BY CallIs DEF Polls, Still, OnLine, WithRow

\* A step that changes no count, in the table or in the session of a poller.
Silent(c) ==
  /\ CountsStay
  /\ c \in DOMAIN calls' /\ Poller(calls'[c]) =>
       c \in DOMAIN calls /\ PollStays(calls[c], calls'[c]) /\ SeenStays(calls[c], calls'[c])

LEMMA BookedKept ==
  ASSUME TunnelInv, TunnelInv', Booked, NEW c, Moves(c), InTune(clash'), carried' = carried, Silent(c)
  PROVE  Booked'
<1>1. live = Keys(store) /\ live' = Keys(store')
  BY DEF Booked, Moves, NodeMoves
<1>2. TableTrue(store', raw', carried', rows', calls')
  <2>1. PICK u, l, claims, clean :
          u = TableUsed(rows) /\ l = TableLast(rows) /\ claims = TableClaims(rows) /\ clean = Gots(calls)
    OBVIOUS
  <2>2. /\ DOMAIN u = DOMAIN rows /\ Balanced(store, raw, carried, Devs(rows), u, l, claims, clean)
        /\ \A i \in DOMAIN rows : u[i] = rows[i].used /\ l[i] = rows[i].last /\ rows[i].peer \in claims[i]
    BY <2>1 DEF Booked, TableTrue, TableUsed, TableLast, TableClaims
  <2>3. \A i \in DOMAIN rows : rows'[i].used = u[i] /\ rows'[i].last = l[i]
    BY <2>2 DEF Silent, CountsStay
  <2>. QED
    BY <1>1, <2>1, <2>2, <2>3, TableMoves
<1>3. ASSUME NEW e \in DOMAIN calls', Poller(calls'[e])
      PROVE  e \in DOMAIN calls /\ PollStays(calls[e], calls'[e]) /\ SeenStays(calls[e], calls'[e])
  BY <1>3 DEF Silent, Moves, OnlyMoves, PollStays, SeenStays
<1>4. \A e, f \in DOMAIN calls' : Poller(calls'[e]) /\ Poller(calls'[f]) => e = f
  BY <1>3 DEF Booked, PollStays
<1>5. ASSUME NEW e \in DOMAIN calls', Poller(calls'[e])
      PROVE  PollTrue(store', raw', carried', rows', calls', calls'[e])
  <2>1. PICK x, y : x = calls[e] /\ y = calls'[e]
    OBVIOUS
  <2>2. PollStays(x, y) /\ SeenStays(x, y) /\ e \in DOMAIN calls
    BY <1>3, <1>5, <2>1
  <2>3. Polls(x) /\ DOMAIN x.mine \subseteq DOMAIN rows /\ PollTrue(store, raw, carried, rows, calls, x)
    BY <2>1, <2>2, PollerPolls DEF Booked, PollStays
  <2>4. \A i \in DOMAIN x.mine : y.seen[i].used = rows'[i].used /\ y.seen[i].last = rows'[i].last
    BY <2>2, <2>3 DEF SeenStays, PollTrue, Silent, CountsStay
  <2>5. \A i \in DOMAIN rows \ DOMAIN x.mine : rows'[i].used = rows[i].used /\ rows'[i].last = rows[i].last
    BY DEF Silent, CountsStay
  <2>6. PollTrue(store', raw', carried', rows', calls', y)
    BY <1>1, <2>2, <2>3, <2>4, <2>5, PollMoves
  <2>. QED
    BY <2>1, <2>6
<1>. QED
  BY <1>1, <1>2, <1>4, <1>5 DEF Booked

\* A poller commits what it counted.
Pays(c) ==
  LET x == calls[c] IN
  /\ c \in DOMAIN calls /\ Poller(x)
  /\ \A i \in DOMAIN rows : /\ rows'[i].used = PollUsed(x, rows)[i]
                            /\ rows'[i].last = PollLast(x, rows)[i]
  /\ c \in DOMAIN calls' =>
       PollStays(x, calls'[c]) /\ \A i \in DOMAIN x.mine : calls'[c].seen[i] = x.mine[i]

LEMMA BookedPaid ==
  ASSUME TunnelInv, TunnelInv', Booked, NEW c, Moves(c), InTune(clash'), carried' = carried, Pays(c)
  PROVE  Booked'
<1>1. live = Keys(store) /\ live' = Keys(store')
  BY DEF Booked, Moves, NodeMoves
<1>2. PICK x : x = calls[c]
  OBVIOUS
<1>3. /\ c \in DOMAIN calls /\ Poller(x) /\ Polls(x) /\ DOMAIN x.mine \subseteq DOMAIN rows
      /\ PollTrue(store, raw, carried, rows, calls, x)
  BY <1>2, PollerPolls DEF Pays, Booked
<1>4. TableTrue(store', raw', carried', rows', calls')
  <2>1. PICK u, l, claims, clean :
          /\ u = PollUsed(x, rows) /\ l = PollLast(x, rows)
          /\ claims = PollClaims(x, rows) /\ clean = Gots(calls) \union Elsewhere(x, rows)
    OBVIOUS
  <2>2. /\ DOMAIN u = DOMAIN rows /\ Balanced(store, raw, carried, Devs(rows), u, l, claims, clean)
        /\ Gots(calls) \subseteq clean /\ \A i \in DOMAIN rows : rows[i].peer \in claims[i]
    BY <1>3, <2>1 DEF PollTrue, PollUsed, PollClaims
  <2>3. \A i \in DOMAIN rows : rows'[i].used = u[i] /\ rows'[i].last = l[i]
    BY <1>2, <2>1 DEF Pays
  <2>. QED
    BY <1>1, <2>2, <2>3, TableMoves
<1>5. ASSUME NEW e \in DOMAIN calls', Poller(calls'[e])
      PROVE  e = c
  BY <1>2, <1>3, <1>5 DEF Booked, Moves, OnlyMoves
<1>6. ASSUME NEW e \in DOMAIN calls', Poller(calls'[e])
      PROVE  PollTrue(store', raw', carried', rows', calls', calls'[e])
  <2>1. PICK y : y = calls'[c]
    OBVIOUS
  <2>2. e = c /\ PollStays(x, y) /\ \A i \in DOMAIN x.mine : y.seen[i] = x.mine[i]
    BY <1>2, <1>5, <1>6, <2>1 DEF Pays
  <2>3. \A i \in DOMAIN rows : /\ rows'[i].used = PollUsed(x, rows)[i]
                               /\ rows'[i].last = PollLast(x, rows)[i]
    BY <1>2 DEF Pays
  <2>4. \A i \in DOMAIN rows \ DOMAIN x.mine : rows'[i].used = rows[i].used /\ rows'[i].last = rows[i].last
    BY <2>3 DEF PollUsed, PollLast
  <2>5. \A i \in DOMAIN x.mine : y.seen[i].used = rows'[i].used /\ y.seen[i].last = rows'[i].last
    BY <1>3, <2>2, <2>3 DEF PollUsed, PollLast
  <2>6. PollTrue(store', raw', carried', rows', calls', y)
    BY <1>1, <1>3, <2>2, <2>4, <2>5, PollMoves
  <2>. QED
    BY <2>1, <2>2, <2>6
<1>. QED
  BY <1>1, <1>4, <1>5, <1>6 DEF Booked

\* A poller begins with the rows as they are.
Opens(c) ==
  /\ c \in DOMAIN calls' \ DOMAIN calls /\ Poller(calls'[c])
  /\ \A i : Still(calls'[c], i) => i \in DOMAIN calls'[c].mine
  /\ DOMAIN calls'[c].mine \subseteq DOMAIN rows
  /\ \A i \in DOMAIN calls'[c].mine : calls'[c].mine[i] = rows[i] /\ calls'[c].seen[i] = rows[i]

LEMMA BookedOpens ==
  ASSUME TunnelInv, TunnelInv', Booked, NEW c, Moves(c), InTune(clash'), carried' = carried,
         UNCHANGED <<rows, store>>, Opens(c), \A e \in DOMAIN calls : ~Poller(calls[e])
  PROVE  Booked'
<1>1. live = Keys(store) /\ live' = Keys(store')
  BY DEF Booked, Moves, NodeMoves
<1>2. PICK u, l, claims, clean :
        u = TableUsed(rows) /\ l = TableLast(rows) /\ claims = TableClaims(rows) /\ clean = Gots(calls)
  OBVIOUS
<1>3. /\ DOMAIN u = DOMAIN rows /\ Balanced(store, raw, carried, Devs(rows), u, l, claims, clean)
      /\ \A i \in DOMAIN rows : u[i] = rows[i].used /\ l[i] = rows[i].last /\ rows[i].peer \in claims[i]
  BY <1>2 DEF Booked, TableTrue, TableUsed, TableLast, TableClaims
<1>4. TableTrue(store', raw', carried', rows', calls')
  <2>1. \A i \in DOMAIN rows : rows'[i].used = u[i] /\ rows'[i].last = l[i]
    BY <1>3
  <2>. QED
    BY <1>1, <1>2, <1>3, <2>1, TableMoves
<1>5. PICK y : y = calls'[c]
  OBVIOUS
<1>6. /\ \A i : Still(y, i) => i \in DOMAIN y.mine
      /\ DOMAIN y.mine \subseteq DOMAIN rows
      /\ \A i \in DOMAIN y.mine : y.mine[i] = rows[i] /\ y.seen[i] = rows[i]
  BY <1>5 DEF Opens
<1>7. PICK u2, l2, claims2, clean2 :
        /\ u2 = PollUsed(y, rows') /\ l2 = PollLast(y, rows')
        /\ claims2 = PollClaims(y, rows') /\ clean2 = Gots(calls') \union Elsewhere(y, rows')
  OBVIOUS
<1>8. /\ DOMAIN u2 = DOMAIN rows'
      /\ \A i \in DOMAIN rows : u2[i] = rows[i].used /\ l2[i] = rows[i].last /\ claims2[i] = {rows[i].peer}
  BY <1>6, <1>7 DEF PollUsed, PollLast, PollClaims
<1>9. Elsewhere(y, rows') = {}
  BY <1>6 DEF Elsewhere
<1>10. \A p \in clean2 : p \in DOMAIN store' => p \in clean \/ raw'[store'[p]] = 0
  BY <1>1, <1>2, <1>7, <1>9, GotsKept
<1>11. \A i \in DOMAIN rows' : \A p \in claims2[i] : p \in DOMAIN store' =>
          p \in clean \/ (i \in DOMAIN rows /\ p \in claims[i]) \/ raw'[store'[p]] = 0
  BY <1>3, <1>8
<1>12. Balanced(store', raw', carried', Devs(rows'), u2, l2, claims2, clean2)
  BY <1>1, <1>3, <1>8, <1>10, <1>11, AccountMoves
<1>13. PollTrue(store', raw', carried', rows', calls', y)
  BY <1>6, <1>7, <1>12 DEF PollTrue
<1>14. \A e \in DOMAIN calls' : Poller(calls'[e]) => e = c
  BY DEF Moves, OnlyMoves
<1>. QED
  BY <1>1, <1>4, <1>5, <1>13, <1>14 DEF Booked

\* A row of the session is charged with what its peer's key carried.
Counts(x, y, i, st, ra) ==
  /\ Poller(x) /\ x.at = "poll" /\ x.row = i /\ y.op = x.op /\ y.at \in {"next", "count"}
  /\ y.todo = x.todo /\ y.got = x.got /\ y.row = x.row /\ y.seen = x.seen /\ DOMAIN y.mine = DOMAIN x.mine
  /\ \A j \in DOMAIN x.mine : j # i => y.mine[j] = x.mine[j]
  /\ i \in DOMAIN x.mine /\ x.mine[i].peer \in DOMAIN st
  /\ y.mine[i].used = x.mine[i].used + Delta(ra[st[x.mine[i].peer]], x.mine[i].last)
  /\ y.mine[i].last = ra[st[x.mine[i].peer]]

LEMMA PollCounts ==
  ASSUME TunnelInv, Belongs, Booked, NEW c \in DOMAIN calls, NEW y, NEW i, Counts(calls[c], y, i, store, raw)
  PROVE  PollTrue(store, raw, carried, rows, calls, y)
<1>1. PICK x, p : x = calls[c] /\ p = x.mine[i].peer
  OBVIOUS
<1>2. /\ Polls(x) /\ DOMAIN x.mine \subseteq DOMAIN rows /\ PollTrue(store, raw, carried, rows, calls, x)
      /\ p \in DOMAIN store /\ i \in DOMAIN x.mine /\ i \in DOMAIN rows /\ Counts(x, y, i, store, raw)
      /\ i \notin x.todo
  BY <1>1, PollerPolls DEF Booked, Counts, Belongs, PollLine, WithRow
<1>3. PICK h : Homes(h, rows, calls, store)
  BY DEF Belongs
<1>4. 0 \notin DOMAIN store /\ p # 0 /\ raw \in [Key -> Nat] /\ \A q \in DOMAIN store : store[q] \in Key
  BY <1>2 DEF TunnelInv, NodeTrue, Peer, Plainly
<1>5. h[p] = i /\ KeyOwner[store[p]] = rows[i].dev
  BY <1>1, <1>2, <1>3, <1>4 DEF Homes, Counts
<1>6. \A j \in DOMAIN rows : rows[j].peer = p => j = i
  BY <1>3, <1>4, <1>5 DEF Homes
<1>7. p \notin Gots(calls)
  BY <1>1, <1>2, <1>4 DEF Belongs, NewlyGot, Gots, Counts
<1>8. \A j : Still(y, j) => Still(x, j) /\ j # i /\ y.mine[j] = x.mine[j]
  BY <1>2 DEF Counts, Still, Polls
<1>9. PICK u, l, claims, clean :
        /\ u = PollUsed(x, rows) /\ l = PollLast(x, rows)
        /\ claims = PollClaims(x, rows) /\ clean = Gots(calls) \union Elsewhere(x, rows)
  OBVIOUS
<1>10. PICK u2, l2, claims2, clean2 :
        /\ u2 = PollUsed(y, rows) /\ l2 = PollLast(y, rows)
        /\ claims2 = PollClaims(y, rows) /\ clean2 = Gots(calls) \union Elsewhere(y, rows)
  OBVIOUS
<1>11. PICK dv : dv = Devs(rows)
  OBVIOUS
<1>12. /\ Balanced(store, raw, carried, dv, u, l, claims, clean)
       /\ \A q \in DOMAIN store : store[q] \in Key
       /\ \A q, r \in DOMAIN store : store[q] = store[r] => q = r
  BY <1>2, <1>4, <1>9, <1>11 DEF PollTrue, TunnelInv, NodeTrue
<1>13. /\ DOMAIN u = DOMAIN rows /\ DOMAIN u2 = DOMAIN rows
       /\ u[i] = x.mine[i].used /\ l[i] = x.mine[i].last /\ u2[i] = y.mine[i].used /\ l2[i] = y.mine[i].last
       /\ p \in claims[i] /\ dv[i] = rows[i].dev
  BY <1>1, <1>2, <1>9, <1>10, <1>11 DEF PollUsed, PollLast, PollClaims, Devs, Counts, Still
<1>14. u[i] \in Nat /\ l[i] \in Nat
  BY <1>1, <1>2, <1>13, CallIs DEF RowTrue, Row
<1>15. u2[i] = u[i] + Delta(raw[store[p]], l[i]) /\ l2[i] = raw[store[p]]
  BY <1>1, <1>2, <1>13 DEF Counts
<1>16. ASSUME NEW j \in DOMAIN u \ {i}
       PROVE  u2[j] = u[j] /\ l2[j] = l[j] /\ claims2[j] \subseteq claims[j] /\ p \notin claims2[j]
  <2>1. u2[j] = u[j] /\ l2[j] = l[j]
    BY <1>2, <1>9, <1>10, <1>13 DEF PollUsed, PollLast, Counts
  <2>2. claims2[j] \subseteq claims[j]
    BY <1>8, <1>9, <1>10, <1>13 DEF PollClaims
  <2>3. rows[j].peer # p
    BY <1>6, <1>13
  <2>4. Still(y, j) => y.mine[j].peer # p
    BY <1>1, <1>2, <1>3, <1>4, <1>5, <1>8 DEF Homes, Polls
  <2>. QED
    BY <1>10, <1>13, <2>1, <2>2, <2>3, <2>4 DEF PollClaims
<1>17. \A q \in claims2[i] : q \in DOMAIN store => q = p \/ q \in clean
  <2>1. claims2[i] = {rows[i].peer}
    BY <1>2, <1>8, <1>10 DEF PollClaims
  <2>2. rows[i].peer # p => rows[i].peer \in Elsewhere(x, rows)
    BY <1>1, <1>2 DEF Elsewhere, Still, Counts
  <2>. QED
    BY <1>9, <2>1, <2>2
<1>18. clean2 \subseteq clean /\ p \notin clean2
  <2>1. ASSUME NEW q \in Elsewhere(y, rows) PROVE q \in Elsewhere(x, rows) /\ q # p
    <3>1. PICK j \in DOMAIN rows : q = rows[j].peer /\ Still(y, j) /\ rows[j].peer # y.mine[j].peer
      BY <2>1 DEF Elsewhere
    <3>. QED
      BY <1>6, <1>8, <3>1 DEF Elsewhere
  <2>. QED
    BY <1>7, <1>9, <1>10, <2>1
<1>19. Balanced(store, raw, carried, dv, u2, l2, claims2, clean2)
  BY <1>2, <1>4, <1>5, <1>12, <1>13, <1>14, <1>15, <1>16, <1>17, <1>18, BalancedPoll
<1>20. \A j \in DOMAIN y.mine : y.seen[j].used = rows[j].used /\ y.seen[j].last = rows[j].last
  BY <1>2 DEF Counts, PollTrue
<1>. QED
  BY <1>10, <1>11, <1>19, <1>20 DEF PollTrue

LEMMA BookedPolled ==
  ASSUME TunnelInv, Belongs, Booked, NEW c \in DOMAIN calls, NEW i, Counts(calls[c], calls'[c], i, store, raw),
         OneMoves(c), DOMAIN calls' = DOMAIN calls, UNCHANGED <<rows, store, raw, live, carried>>
  PROVE  Booked'
<1>1. PICK y : y = calls'[c]
  OBVIOUS
<1>2. Counts(calls[c], y, i, store, raw) /\ Poller(calls[c])
  BY <1>1 DEF Counts
<1>3. PollTrue(store, raw, carried, rows, calls, y)
  BY <1>2, PollCounts
<1>4. Gots(calls') = Gots(calls)
  <2>1. \A e \in DOMAIN calls : calls'[e].got = calls[e].got
    BY DEF OneMoves, Counts
  <2>. QED
    BY <2>1 DEF Gots
<1>5. PICK cs : cs = calls'
  OBVIOUS
<1>6. \A e \in DOMAIN cs : Poller(cs[e]) => e = c
  BY <1>2, <1>5 DEF OneMoves, Booked
<1>7. TableTrue(store, raw, carried, rows, cs) /\ PollTrue(store, raw, carried, rows, cs, y)
  BY <1>3, <1>4, <1>5 DEF Booked, TableTrue, PollTrue
<1>. QED
  BY <1>1, <1>5, <1>6, <1>7 DEF Booked, Keys

-----------------------------------------------------------------------------
(* What the steps of a call do to the accounts.                              *)

LEMMA ChargeKept ==
  ASSUME TunnelInv, TunnelInv', ChargeInv, NEW c, Moves(c), carried' = carried, clash \subseteq clash',
         Silent(c) \/ Pays(c)
  PROVE  ChargeInv'
<1>1. Belongs'
  BY BelongsKept DEF ChargeInv
<1>2. ASSUME InTune(clash') PROVE Booked'
  <2>1. Booked
    BY <1>2 DEF ChargeInv, InTune
  <2>. QED
    BY <1>2, <2>1, BookedKept, BookedPaid
<1>. QED
  BY <1>1, <1>2 DEF ChargeInv

LEMMA RowsSame ==
  ASSUME Belongs, NEW c, rows' = rows
  PROVE  RowsMove(c) /\ CountsStay
BY DEF Belongs, RowsMove, RowMoves, CountsStay

LEMMA NodeSame ==
  ASSUME NEW c, UNCHANGED <<store, live, raw>>
  PROVE  NodeMoves(c)
BY DEF NodeMoves

\* A call that goes on, with its session.
Holds(x, y, ro) ==
  /\ y.op = x.op /\ PollLine(y) /\ CallOwned(y, ro)
  /\ Poller(x) => /\ PollStays(x, y) /\ SeenStays(x, y)
                  /\ \A i \in DOMAIN x.mine : y.mine[i].peer \in {0, x.mine[i].peer}

LEMMA GoesOnSilently ==
  ASSUME NEW c \in DOMAIN calls, Onward(c), RowsMove(c), NodeMoves(c), CountsStay,
         c \in DOMAIN calls' =>
           /\ Holds(calls[c], calls'[c], rows')
           /\ calls'[c].got = 0 \/ (calls'[c].got = nextPeer /\ calls'[c].row = calls[c].row)
  PROVE  Moves(c) /\ Silent(c)
<1>1. OnlyMoves(c)
  BY DEF Onward, OnlyMoves
<1>2. ASSUME c \in DOMAIN calls', Poller(calls'[c])
      PROVE  Poller(calls[c]) /\ PollStays(calls[c], calls'[c]) /\ SeenStays(calls[c], calls'[c])
  BY <1>2 DEF Holds, Poller
<1>3. NamesMove(c)
  <2>1. ASSUME c \in DOMAIN calls', Poller(calls'[c]), NEW i \in DOMAIN calls'[c].mine
        PROVE  \/ calls'[c].mine[i].peer = 0
               \/ Poller(calls[c]) /\ i \in DOMAIN calls[c].mine /\ calls'[c].mine[i].peer = calls[c].mine[i].peer
    BY <1>2, <2>1 DEF Holds, PollStays
  <2>. QED
    BY <2>1 DEF NamesMove, Holds
<1>4. Silent(c)
  BY <1>2 DEF Silent
<1>. QED
  BY <1>1, <1>3, <1>4 DEF Moves

LEMMA CallBelongs ==
  ASSUME TunnelInv, Belongs, NEW c \in DOMAIN calls
  PROVE  /\ PollLine(calls[c]) /\ CallOwned(calls[c], rows) /\ c \in Slot
         /\ DOMAIN calls[c].seen = DOMAIN calls[c].mine /\ DOMAIN calls[c].mine \subseteq DOMAIN rows
         /\ calls[c].got # 0 <=> calls[c].at = "store"
         /\ calls[c].at \in WithRow => calls[c].row \in DOMAIN calls[c].mine /\ calls[c].row \in DOMAIN rows
BY CallIs DEF Belongs, AddTrue, OnLine

\* A call that ends without a trace.
LEMMA EndsSilently ==
  ASSUME TunnelInv, Belongs, NEW c \in DOMAIN calls, calls' = Ended(c), Onward(c), UNCHANGED <<rows, store, live, raw>>
  PROVE  Moves(c) /\ Silent(c)
BY EndedIs, RowsSame, NodeSame, GoesOnSilently

\* A call that goes on to another line.
LEMMA LineChanged ==
  ASSUME NEW x, NEW y, NEW at, NEW ro, SameCall(x, y, at), y.todo = x.todo, y.seen = x.seen, y.mine = x.mine,
         PollLine(x), CallOwned(x, ro),
         Poller(x) => at \in PollerLines \ {"poll"} /\ (at \in WithRow => x.at \in WithRow),
         ~Poller(x) => at \notin {"poll", "count"},
         x.op = "register" /\ at \in WithRow => x.at \in WithRow
  PROVE  Holds(x, y, ro)
<1>1. PollLine(y) /\ CallOwned(y, ro)
  BY DEF SameCall, PollLine, CallOwned, Poller
<1>2. Poller(x) => PollStays(x, y) /\ SeenStays(x, y)
  BY DEF SameCall, PollStays, SeenStays, Still, Poller
<1>. QED
  BY <1>1, <1>2 DEF Holds, SameCall

\* A call that goes on and has changed a row of its session, but not its counts.
LEMMA RowChangedOwned ==
  ASSUME NEW x, NEW y, NEW at, NEW ro, NEW i \in DOMAIN x.mine, NEW row,
         SameCall(x, y, at), y.todo = x.todo, y.seen = x.seen, DOMAIN y.mine = DOMAIN x.mine,
         y.mine[i] = row, \A j \in DOMAIN x.mine : j # i => y.mine[j] = x.mine[j],
         PollLine(x), CallOwned(x, ro),
         row.used = x.mine[i].used, row.last = x.mine[i].last, row.dev = x.mine[i].dev, KeyOwner[row.key] = ro[i].dev,
         Poller(x) => /\ at \in PollerLines \ {"poll"} /\ x.at \in WithRow /\ i = x.row
                      /\ row.peer \in {0, x.mine[i].peer},
         ~Poller(x) => at \notin {"poll", "count"},
         x.op = "register" /\ at \in WithRow => x.at \in WithRow
  PROVE  Holds(x, y, ro)
<1>1. \A j \in DOMAIN x.mine : y.mine[j].used = x.mine[j].used /\ y.mine[j].last = x.mine[j].last
  OBVIOUS
<1>2. PollLine(y)
  BY <1>1 DEF SameCall, PollLine, Poller
<1>3. CallOwned(y, ro)
  <2>1. \A j \in DOMAIN x.mine : RowOwned(y.mine[j], ro[j].dev)
    BY DEF CallOwned, RowOwned
  <2>. QED
    BY <2>1 DEF SameCall, CallOwned
<1>4. ASSUME Poller(x) PROVE PollStays(x, y) /\ SeenStays(x, y)
  <2>1. ASSUME NEW j, Still(y, j) PROVE j \in x.todo /\ j # i
    BY <1>4, <2>1 DEF Still, SameCall, PollLine
  <2>. QED
    BY <1>1, <1>4, <2>1 DEF PollStays, SeenStays, Still
<1>5. Poller(x) => \A j \in DOMAIN x.mine : y.mine[j].peer \in {0, x.mine[j].peer}
  OBVIOUS
<1>. QED
  BY <1>2, <1>3, <1>4, <1>5 DEF Holds, SameCall

\* The node without a peer.
LEMMA RemovedMoves ==
  ASSUME TunnelInv, NEW c, NEW p, RemovePeer(p)
  PROVE  NodeMoves(c)
<1>1. DOMAIN store' \subseteq DOMAIN store /\ \A q \in DOMAIN store' : store'[q] = store[q]
  BY RemovedIs
<1>2. ASSUME InTune(clash'), live = Keys(store)
      PROVE  live' = Keys(store') /\ \A k \in Key : raw'[k] \in {raw[k], 0}
  <2>1. CASE UNCHANGED node
    BY <1>2, <2>1 DEF node
  <2>2. CASE Sync(store')
    BY <2>2 DEF Sync
  <2>3. CASE "sync" \in clash'
    BY <1>2, <2>3 DEF InTune
  <2>. QED
    BY <2>1, <2>2, <2>3 DEF RemovePeer
<1>. QED
  BY <1>1, <1>2 DEF NodeMoves

\* The node with another peer.
LEMMA AddedMoves ==
  ASSUME TunnelInv, NEW c \in DOMAIN calls, NEW k \in Key, NEW else, AddPeer(c, k, "store", else),
         calls[c].row \in DOMAIN rows, KeyOwner[k] = rows[calls[c].row].dev
  PROVE  NodeMoves(c)
<1>1. CASE UNCHANGED node
  BY <1>1 DEF node, NodeMoves
<1>2. CASE /\ k \notin Keys(store) /\ store' = Put(store, nextPeer, k)
           /\ Sync(store') \/ "sync" \in clash'
  <2>1. /\ DOMAIN store' = DOMAIN store \union {nextPeer} /\ store'[nextPeer] = k
        /\ \A p \in DOMAIN store : store'[p] = store[p]
    <3>1. nextPeer \notin DOMAIN store
      BY NamesEarlier
    <3>. QED
      BY <1>2, <3>1 DEF Put
  <2>2. ASSUME InTune(clash'), live = Keys(store)
        PROVE  live' = Keys(store') /\ raw'[k] = 0 /\ \A j \in Key : raw'[j] \in {raw[j], 0}
    <3>1. Sync(store')
      BY <1>2, <2>2 DEF InTune
    <3>. QED
      BY <1>2, <2>2, <3>1 DEF Sync
  <2>. QED
    BY <2>1, <2>2 DEF NodeMoves
<1>. QED
  BY <1>1, <1>2 DEF AddPeer

LEMMA LoadRowMoves ==
  ASSUME TunnelInv, Belongs, NEW c \in DOMAIN calls, LoadRow(c)
  PROVE  Moves(c) /\ Silent(c)
<1>1. /\ calls[c].at = "load" /\ calls[c].got = 0 /\ UNCHANGED <<rows, store, live, raw>>
      /\ PollLine(calls[c]) /\ CallOwned(calls[c], rows) /\ calls[c].op \in {"register", "drop"}
  BY LoadRowIs, CallBelongs, CallIs DEF database, node, OnLine
<1>2. Onward(c) /\ RowsMove(c) /\ CountsStay /\ NodeMoves(c)
  BY <1>1, OnwardUser, RowsSame, NodeSame
<1>3. CASE calls' = Ended(c)
  BY <1>1, <1>2, <1>3, EndsSilently
<1>4. PICK x, y : x = calls[c] /\ y = calls'[c]
  OBVIOUS
<1>5. CASE calls' = To(c, "insert")
  <2>1. SameCall(x, y, "insert") /\ y.todo = x.todo /\ y.got = x.got /\ y.seen = x.seen /\ y.mine = x.mine
    BY <1>4, <1>5, ToIs
  <2>2. Holds(x, y, rows)
    BY <1>1, <1>4, <2>1, LineChanged, SMTT(30) DEF Poller, WithRow
  <2>. QED
    BY <1>1, <1>2, <1>4, <2>1, <2>2, GoesOnSilently, SMTT(30)
<1>6. ASSUME NEW i, LoadsRow(c, i) PROVE Moves(c) /\ Silent(c)
  <2>1. /\ y.op = x.op /\ y.dev = x.dev /\ y.key = x.key /\ y.row = i /\ y.at = AtOf(c, i) /\ y.got = x.got
        /\ i \in DOMAIN rows /\ rows[i].dev = x.dev
        /\ DOMAIN y.seen = {i} /\ y.seen[i] = rows[i] /\ DOMAIN y.mine = {i}
        /\ y.mine[i] = IF AtOf(c, i) \in {"gone", "remove"} THEN [rows[i] EXCEPT !.active = FALSE] ELSE rows[i]
    BY <1>4, <1>6, LoadsRowIs
  <2>2. rows[i] \in Row /\ KeyOwner[rows[i].key] = rows[i].dev
    BY <2>1 DEF TunnelInv, RowsTrue, RowTrue, Belongs
  <2>3. /\ y.mine[i].used = rows[i].used /\ y.mine[i].last = rows[i].last
        /\ y.mine[i].dev = rows[i].dev /\ y.mine[i].key = rows[i].key
    BY <2>1, <2>2 DEF Row
  <2>4. PollLine(y) /\ y.op = x.op /\ ~Poller(x)
    <3>1. AtOf(c, i) \notin {"poll", "count"}
      BY DEF AtOf
    <3>2. x.op \in {"register", "drop"}
      BY <1>1, <1>4
    <3>. QED
      BY <2>1, <2>3, <3>1, <3>2 DEF PollLine, Poller
  <2>5. CallOwned(y, rows)
    BY <1>1, <1>4, <2>1, <2>2, <2>3, ZenonT(30) DEF CallOwned, RowOwned
  <2>6. Holds(x, y, rows)
    BY <2>4, <2>5 DEF Holds
  <2>. QED
    BY <1>1, <1>2, <1>4, <2>1, <2>6, GoesOnSilently, SMTT(30)
<1>. QED
  BY <1>3, <1>5, <1>6, LoadRowIs

LEMMA InsertMoves ==
  ASSUME TunnelInv, Belongs, NEW c \in DOMAIN calls, Insert(c)
  PROVE  Moves(c) /\ Silent(c)
<1>1. /\ calls[c].at = "insert" /\ calls[c].got = 0 /\ UNCHANGED <<store, live, raw>>
      /\ PollLine(calls[c]) /\ CallOwned(calls[c], rows) /\ calls[c].op = "register"
  BY CallBelongs, CallIs DEF Insert, Fail, node, OnLine
<1>2. Onward(c) /\ NodeMoves(c)
  BY <1>1, OnwardUser, NodeSame
<1>3. CASE Fail(c)
  BY <1>1, <1>2, <1>3, EndsSilently DEF Fail, database
<1>4. PICK x, y : x = calls[c] /\ y = calls'[c]
  OBVIOUS
<1>5. ASSUME NEW i, i = Cardinality(DOMAIN rows) + 1, NEW new, new = NewRow(x.dev, x.key),
             rows' = Put(rows, i, new),
             calls' = [calls EXCEPT ![c].row = i, ![c].at = "add", ![c].seen = Only(i, new), ![c].mine = Only(i, new)]
      PROVE  Moves(c) /\ Silent(c)
  <2>1. PICK n \in Nat : DOMAIN rows = 1 .. n
    BY DEF TunnelInv, RowsTrue
  <2>2. i = n + 1 /\ i \notin DOMAIN rows
    BY <1>5, <2>1, FS_Interval
  <2>3. /\ DOMAIN rows' = DOMAIN rows \union {i} /\ rows'[i] = new
        /\ \A j \in DOMAIN rows : rows'[j] = rows[j]
    BY <1>5, <2>2 DEF Put
  <2>4. /\ new.dev = x.dev /\ new.key = x.key /\ new.peer = 0 /\ new.used = 0 /\ new.last = 0
        /\ KeyOwner[x.key] = x.dev
    BY <1>1, <1>4, <1>5 DEF NewRow, CallOwned
  <2>5. RowsMove(c) /\ CountsStay
    <3>1. \A j \in DOMAIN rows : RowMoves(c, j)
      BY <2>3 DEF Belongs, RowMoves
    <3>. QED
      BY <2>3, <2>4, <3>1 DEF RowsMove, CountsStay
  <2>6. y = [x EXCEPT !.row = i, !.at = "add", !.seen = Only(i, new), !.mine = Only(i, new)]
    BY <1>4, <1>5
  <2>7. /\ y.op = x.op /\ y.dev = x.dev /\ y.key = x.key /\ y.row = i
        /\ y.at = "add" /\ y.got = x.got /\ y.seen = Only(i, new) /\ y.mine = Only(i, new)
    BY <1>4, <2>6, CallIs DEF OnLine
  <2>8. DOMAIN y.mine = {i} /\ DOMAIN y.seen = {i} /\ y.mine[i] = new /\ y.seen[i] = new
    BY <2>7 DEF Only
  <2>9. CallOwned(y, rows')
    BY <2>3, <2>4, <2>7, <2>8 DEF CallOwned, RowOwned
  <2>10. Holds(x, y, rows')
    BY <1>1, <1>4, <2>7, <2>8, <2>9 DEF Holds, PollLine, Poller
  <2>. QED
    BY <1>1, <1>2, <1>4, <2>5, <2>7, <2>10, GoesOnSilently, SMTT(30)
<1>6. CASE /\ rows' = Put(rows, Cardinality(DOMAIN rows) + 1, NewRow(calls[c].dev, calls[c].key))
           /\ calls' = [calls EXCEPT ![c].row = Cardinality(DOMAIN rows) + 1, ![c].at = "add",
                            ![c].seen = Only(Cardinality(DOMAIN rows) + 1, NewRow(calls[c].dev, calls[c].key)),
                            ![c].mine = Only(Cardinality(DOMAIN rows) + 1, NewRow(calls[c].dev, calls[c].key))]
  BY <1>4, <1>5, <1>6
<1>. QED
  BY <1>3, <1>6 DEF Insert

\* The call goes on without the peer of its row.
LEMMA PeerGoneMoves ==
  ASSUME TunnelInv, Belongs, NEW c \in DOMAIN calls, NEW at, calls[c].at \in {"replace", "remove"}, at \in {"set", "gone"},
         at = "set" => calls[c].op = "register", Onward(c),
         RemovePeer(calls[c].mine[calls[c].row].peer), rows' = rows,
         calls' = Change(c, calls[c].row, [calls[c].mine[calls[c].row] EXCEPT !.peer = 0], at)
  PROVE  Moves(c) /\ Silent(c)
<1>1. PICK x, y, i : x = calls[c] /\ y = calls'[c] /\ i = x.row
  OBVIOUS
<1>2. PICK row : row = [x.mine[i] EXCEPT !.peer = 0]
  OBVIOUS
<1>3. /\ i \in DOMAIN x.mine /\ x.mine[i] \in Row /\ x.got = 0 /\ PollLine(x) /\ CallOwned(x, rows)
  BY <1>1, CallBelongs, RowIs DEF WithRow
<1>4. /\ row.peer = 0 /\ row.used = x.mine[i].used /\ row.last = x.mine[i].last
      /\ row.dev = x.mine[i].dev /\ row.key = x.mine[i].key
  BY <1>2, <1>3 DEF Row
<1>5. /\ SameCall(x, y, at) /\ y.todo = x.todo /\ y.got = x.got /\ y.seen = x.seen /\ DOMAIN y.mine = DOMAIN x.mine
      /\ y.mine[i] = row /\ \A j \in DOMAIN x.mine : j # i => y.mine[j] = x.mine[j]
  <2>1. i \in DOMAIN calls[c].mine /\ calls' = Change(c, i, row, at)
    BY <1>1, <1>2, <1>3
  <2>2. /\ SameCall(calls[c], calls'[c], at) /\ calls'[c].todo = calls[c].todo /\ calls'[c].got = calls[c].got
        /\ calls'[c].seen = calls[c].seen /\ DOMAIN calls'[c].mine = DOMAIN calls[c].mine
        /\ calls'[c].mine[i] = row
        /\ \A j \in DOMAIN calls[c].mine : j # i => calls'[c].mine[j] = calls[c].mine[j]
    BY <2>1, ChangeIs
  <2>. QED
    BY <1>1, <2>2
<1>6. KeyOwner[row.key] = rows[i].dev
  BY <1>3, <1>4 DEF CallOwned, RowOwned
<1>7. Holds(x, y, rows)
  <2>1. x.at \in WithRow
    BY <1>1 DEF WithRow
  <2>2. Poller(x) => at \in PollerLines \ {"poll"} /\ x.at \in WithRow /\ i = x.row /\ row.peer \in {0, x.mine[i].peer}
    BY <1>1, <1>4, <2>1 DEF Poller, PollerLines
  <2>. QED
    BY <1>3, <1>4, <1>5, <1>6, <2>1, <2>2, RowChangedOwned, SMTT(30)
<1>. QED
  BY <1>1, <1>3, <1>5, <1>7, RowsSame, RemovedMoves, GoesOnSilently

LEMMA SetMoves ==
  ASSUME TunnelInv, Belongs, NEW c \in DOMAIN calls, Set(c)
  PROVE  Moves(c) /\ Silent(c)
<1>1. PICK x, y, i : x = calls[c] /\ y = calls'[c] /\ i = x.row
  OBVIOUS
<1>2. /\ x.at = "set" /\ i \in DOMAIN x.mine /\ x.mine[i] \in Row /\ x.got = 0 /\ PollLine(x) /\ CallOwned(x, rows)
      /\ x.op = "register" /\ UNCHANGED <<rows, store, live, raw>> /\ Onward(c)
  BY <1>1, CallBelongs, RowIs, CallIs, OnwardUser DEF WithRow, Set, database, node, OnLine
<1>3. CASE calls' = Ended(c)
  BY <1>2, <1>3, EndsSilently
<1>4. ASSUME NEW row, row = [x.mine[i] EXCEPT !.key = x.key, !.active = TRUE], calls' = Change(c, i, row, "save")
      PROVE  Moves(c) /\ Silent(c)
  <2>1. /\ row.used = x.mine[i].used /\ row.last = x.mine[i].last
        /\ row.dev = x.mine[i].dev /\ row.key = x.key
    <3>1. PICK r : r = [x.mine[i] EXCEPT !.key = x.key]
      OBVIOUS
    <3>2. row = [r EXCEPT !.active = TRUE]
      BY <1>4, <3>1
    <3>3. r \in Row /\ r.used = x.mine[i].used /\ r.last = x.mine[i].last /\ r.dev = x.mine[i].dev /\ r.key = x.key
      BY <1>1, <1>2, <3>1, CallIs DEF Row, OnLine
    <3>. QED
      BY <3>2, <3>3 DEF Row
  <2>2. /\ SameCall(x, y, "save") /\ y.todo = x.todo /\ y.got = x.got /\ y.seen = x.seen /\ DOMAIN y.mine = DOMAIN x.mine
        /\ y.mine[i] = row /\ \A j \in DOMAIN x.mine : j # i => y.mine[j] = x.mine[j]
    <3>1. i \in DOMAIN calls[c].mine /\ calls' = Change(c, i, row, "save")
      BY <1>1, <1>2, <1>4
    <3>. QED
      BY <1>1, <3>1, ChangeIs
  <2>3. KeyOwner[row.key] = rows[i].dev
    BY <1>1, <1>2, <2>1 DEF CallOwned, WithRow
  <2>4. Holds(x, y, rows)
    BY <1>2, <2>1, <2>2, <2>3, RowChangedOwned DEF WithRow, Poller
  <2>. QED
    BY <1>1, <1>2, <2>2, <2>4, RowsSame, NodeSame, GoesOnSilently, SMTT(30)
<1>5. CASE calls' = Change(c, i, [x.mine[i] EXCEPT !.key = x.key, !.active = TRUE], "save")
  BY <1>4, <1>5
<1>. QED
  BY <1>1, <1>3, <1>5 DEF Set

\* What a commit leaves of a row.
LEMMA MergedOwned ==
  ASSUME TunnelInv, Belongs, NEW c \in DOMAIN calls, NEW i \in DOMAIN calls[c].mine
  PROVE  LET m == Merged(c, i) IN
         /\ m.dev = rows[i].dev /\ KeyOwner[m.key] = rows[i].dev /\ m.peer \in {0, rows[i].peer}
         /\ m.used = IF calls[c].mine[i].used # calls[c].seen[i].used THEN calls[c].mine[i].used ELSE rows[i].used
         /\ m.last = IF calls[c].mine[i].last # calls[c].seen[i].last THEN calls[c].mine[i].last ELSE rows[i].last
<1>1. PICK x, m : x = calls[c] /\ m = Merged(c, i)
  OBVIOUS
<1>2. \A col \in Columns : m[col] = IF x.mine[i][col] # x.seen[i][col] THEN x.mine[i][col] ELSE rows[i][col]
  BY <1>1, MergedIs
<1>3. /\ RowOwned(x.seen[i], rows[i].dev) /\ RowOwned(x.mine[i], rows[i].dev)
      /\ KeyOwner[rows[i].key] = rows[i].dev /\ Changed(x, i, store, excused)
  BY <1>1, CallBelongs, CallIs DEF CallOwned, Belongs
<1>4. /\ m.dev = IF x.mine[i].dev # x.seen[i].dev THEN x.mine[i].dev ELSE rows[i].dev
      /\ m.key = IF x.mine[i].key # x.seen[i].key THEN x.mine[i].key ELSE rows[i].key
      /\ m.peer = IF x.mine[i].peer # x.seen[i].peer THEN x.mine[i].peer ELSE rows[i].peer
      /\ m.used = IF x.mine[i].used # x.seen[i].used THEN x.mine[i].used ELSE rows[i].used
      /\ m.last = IF x.mine[i].last # x.seen[i].last THEN x.mine[i].last ELSE rows[i].last
  BY <1>2 DEF Columns
<1>. QED
  BY <1>1, <1>3, <1>4 DEF RowOwned, Changed

LEMMA SaveMoves ==
  ASSUME TunnelInv, Belongs, NEW c \in DOMAIN calls, Save(c)
  PROVE  Moves(c) /\ Silent(c)
<1>1. PICK x, y, i : x = calls[c] /\ y = calls'[c] /\ i = x.row
  OBVIOUS
<1>2. /\ x.at = "save" /\ i \in DOMAIN x.mine /\ i \in DOMAIN rows /\ x.got = 0 /\ PollLine(x) /\ CallOwned(x, rows)
      /\ UNCHANGED <<store, live, raw>> /\ Onward(c)
  BY <1>1, CallBelongs, OnwardUser DEF WithRow, Save, Fail, Unchanged, database, node
<1>3. ~Poller(x) /\ x.mine[i].used = x.seen[i].used /\ x.mine[i].last = x.seen[i].last
  BY <1>2 DEF PollLine, PollerLines
<1>4. CASE Fail(c)
  BY <1>2, <1>4, EndsSilently DEF Fail, database
<1>5. ASSUME NEW row, row = Merged(c, i), rows' = [rows EXCEPT ![i] = row],
             \/ calls' = Ended(c)
             \/ calls' = [calls EXCEPT ![c].seen[i] = row, ![c].mine[i] = row, ![c].at = "add"]
      PROVE  Moves(c) /\ Silent(c)
  <2>1. /\ row.dev = rows[i].dev /\ KeyOwner[row.key] = rows[i].dev /\ row.peer \in {0, rows[i].peer}
        /\ row.used = rows[i].used /\ row.last = rows[i].last
    BY <1>1, <1>2, <1>3, <1>5, MergedOwned
  <2>2. RowsMove(c) /\ CountsStay
    <3>1. /\ DOMAIN rows' = DOMAIN rows /\ rows'[i] = row /\ \A j \in DOMAIN rows : j # i => rows'[j] = rows[j]
      BY <1>2, <1>5
    <3>2. ASSUME NEW j \in DOMAIN rows
          PROVE  RowMoves(c, j) /\ rows'[j].used = rows[j].used /\ rows'[j].last = rows[j].last
      BY <2>1, <3>1 DEF RowMoves, Belongs
    <3>. QED
      BY <3>1, <3>2 DEF RowsMove, CountsStay
  <2>3. CASE calls' = Ended(c)
    BY <1>2, <2>2, <2>3, EndedIs, NodeSame, GoesOnSilently
  <2>4. CASE calls' = [calls EXCEPT ![c].seen[i] = row, ![c].mine[i] = row, ![c].at = "add"]
    <3>1. SavedRow(x, y, i, row)
      <4>1. i \in DOMAIN calls[c].mine
        BY <1>1, <1>2
      <4>. QED
        BY <1>1, <2>4, <4>1, SavedIs
    <3>2. PollLine(y)
      BY <1>2, <1>3, <3>1 DEF SavedRow, SameCall, PollLine, Poller
    <3>3. DOMAIN rows' = DOMAIN rows /\ \A j \in DOMAIN rows : rows'[j].dev = rows[j].dev
      BY <1>2, <1>5, <2>1
    <3>4. CallOwned(y, rows')
      <4>1. \A j \in DOMAIN y.mine : RowOwned(y.seen[j], rows'[j].dev) /\ RowOwned(y.mine[j], rows'[j].dev)
        <5>1. DOMAIN x.mine \subseteq DOMAIN rows
          BY <1>1, CallBelongs
        <5>. QED
          BY <1>2, <2>1, <3>1, <3>3, <5>1 DEF SavedRow, CallOwned, RowOwned
      <4>2. y.op = "register" => KeyOwner[y.key] = y.dev /\ rows'[y.row].dev = y.dev
        BY <1>1, <1>2, <3>1, <3>3 DEF SavedRow, SameCall, CallOwned, WithRow
      <4>. QED
        BY <4>1, <4>2 DEF CallOwned
    <3>5. Holds(x, y, rows') /\ y.got = 0
      BY <1>2, <1>3, <3>1, <3>2, <3>4 DEF Holds, SavedRow, SameCall
    <3>. QED
      BY <1>1, <1>2, <2>2, <3>5, NodeSame, GoesOnSilently, SMTT(30)
  <2>. QED
    BY <1>5, <2>3, <2>4
<1>. QED
  BY <1>1, <1>4, <1>5 DEF Save

\* The answer of the node comes back to the call that adds its key.
LEMMA KeyMoves ==
  ASSUME TunnelInv, Belongs, NEW c \in DOMAIN calls, calls[c].at \in {"add", "again"}, NEW else \in {"retry", "end"},
         AddPeer(c, calls[c].mine[calls[c].row].key, "store", else), Onward(c), rows' = rows
  PROVE  Moves(c) /\ Silent(c)
<1>1. PICK x, y, i : x = calls[c] /\ y = calls'[c] /\ i = x.row
  OBVIOUS
<1>2. /\ x.at \in {"add", "again"} /\ i \in DOMAIN x.mine /\ i \in DOMAIN rows /\ x.mine[i] \in Row
      /\ x.got = 0 /\ PollLine(x) /\ CallOwned(x, rows)
  BY <1>1, CallBelongs, RowIs DEF WithRow
<1>3. PICK k \in Key : k = x.mine[i].key
  BY <1>2 DEF Row
<1>4. AddPeer(c, k, "store", else) /\ KeyOwner[k] = rows[i].dev
  BY <1>1, <1>2, <1>3 DEF CallOwned, RowOwned
<1>5. NodeMoves(c) /\ RowsMove(c) /\ CountsStay
  BY <1>1, <1>2, <1>4, AddedMoves, RowsSame
<1>6. ~Poller(x)
  BY <1>2 DEF PollLine, PollerLines
<1>7. ASSUME NEW at \in {"store", "retry"}, NEW got \in {0, nextPeer}, GoesOn(c, at, got)
      PROVE  Moves(c) /\ Silent(c)
  <2>1. /\ SameCall(x, y, at) /\ y.todo = x.todo /\ y.got = got /\ y.seen = x.seen /\ y.mine = x.mine
    BY <1>1, <1>7, ResultIs
  <2>2. Holds(x, y, rows)
    BY <1>2, <1>6, <2>1, LineChanged, SMTT(30) DEF WithRow
  <2>3. y.got = 0 \/ (y.got = nextPeer /\ y.row = x.row)
    BY <2>1 DEF SameCall
  <2>. QED
    BY <1>1, <1>5, <2>2, <2>3, GoesOnSilently, SMTT(30)
<1>8. CASE GoesOn(c, "end", 0)
  <2>1. c \notin DOMAIN calls'
    BY <1>8, EndedIs DEF GoesOn
  <2>. QED
    BY <1>5, <2>1, GoesOnSilently, SMTT(30)
<1>9. GoesOn(c, else, 0) \/ GoesOn(c, "store", nextPeer)
  BY <1>4, AddedIs
<1>. QED
  BY <1>7, <1>8, <1>9

LEMMA RetryMoves ==
  ASSUME TunnelInv, Belongs, NEW c \in DOMAIN calls, Retry(c)
  PROVE  Moves(c) /\ Silent(c)
<1>1. PICK x, y : x = calls[c] /\ y = calls'[c]
  OBVIOUS
<1>2. /\ x.at = "retry" /\ x.got = 0 /\ PollLine(x) /\ CallOwned(x, rows) /\ rows' = rows /\ Onward(c)
  BY <1>1, CallBelongs, OnwardAdmin DEF Retry, database
<1>3. NodeMoves(c) /\ RowsMove(c) /\ CountsStay
  BY <1>2, RemovedMoves, RowsSame DEF Retry
<1>4. SameCall(x, y, "again") /\ y.todo = x.todo /\ y.got = x.got /\ y.seen = x.seen /\ y.mine = x.mine
  BY <1>1, ToIs DEF Retry
<1>5. Holds(x, y, rows)
  BY <1>2, <1>4, LineChanged, SMTT(30) DEF WithRow, PollLine, PollerLines
<1>. QED
  BY <1>1, <1>2, <1>3, <1>4, <1>5, GoesOnSilently, SMTT(30)

LEMMA StoreMoves ==
  ASSUME TunnelInv, Belongs, NEW c \in DOMAIN calls, Store(c)
  PROVE  Moves(c) /\ Silent(c)
<1>1. PICK x, i : x = calls[c] /\ i = x.row
  OBVIOUS
<1>2. /\ x.at = "store" /\ i \in DOMAIN rows /\ x.got # 0
      /\ UNCHANGED <<store, live, raw>> /\ Onward(c) /\ c \notin DOMAIN calls'
  BY <1>1, CallBelongs, OnwardAdmin, EndedIs DEF WithRow, Store, Unchanged, node
<1>3. rows' = [rows EXCEPT ![i].peer = x.got]
  BY <1>1 DEF Store
<1>4. /\ DOMAIN rows' = DOMAIN rows /\ rows'[i] = [rows[i] EXCEPT !.peer = x.got]
      /\ \A j \in DOMAIN rows : j # i => rows'[j] = rows[j]
  BY <1>2, <1>3
<1>5. rows[i] \in Row
  BY <1>2 DEF TunnelInv, RowsTrue, RowTrue
<1>6. /\ rows'[i].dev = rows[i].dev /\ rows'[i].key = rows[i].key /\ rows'[i].peer = x.got
      /\ rows'[i].used = rows[i].used /\ rows'[i].last = rows[i].last
  BY <1>4, <1>5 DEF Row
<1>7. ASSUME NEW j \in DOMAIN rows
      PROVE  RowMoves(c, j) /\ rows'[j].used = rows[j].used /\ rows'[j].last = rows[j].last
  <2>1. CASE j = i
    BY <1>1, <1>2, <1>6, <2>1 DEF RowMoves, Belongs
  <2>2. CASE j # i
    BY <1>4, <2>2 DEF RowMoves, Belongs
  <2>. QED
    BY <2>1, <2>2
<1>8. RowsMove(c) /\ CountsStay
  BY <1>4, <1>7 DEF RowsMove, CountsStay
<1>. QED
  BY <1>2, <1>8, NodeSame, GoesOnSilently, SMTT(30)

LEMMA FlushMoves ==
  ASSUME TunnelInv, Belongs, NEW c \in DOMAIN calls, Flush(c)
  PROVE  Moves(c) /\ Silent(c)
<1>1. PICK x, y : x = calls[c] /\ y = calls'[c]
  OBVIOUS
<1>2. /\ x.at = "flush" /\ x.got = 0 /\ PollLine(x) /\ CallOwned(x, rows)
      /\ UNCHANGED <<rows, store, live, raw>> /\ Onward(c)
  BY <1>1, CallBelongs, OnwardAdmin DEF Flush, node
<1>3. ~Poller(x) /\ x.op # "register"
  BY <1>1, <1>2, CallIs DEF PollLine, PollerLines, OnLine
<1>4. PICK ids : ids = IF calls[c].op = "revoke" THEN RowsOf(calls[c].dev) ELSE DOMAIN rows
  OBVIOUS
<1>5. PICK mine, todo : mine = [i \in ids |-> [rows[i] EXCEPT !.active = FALSE]] /\ todo = {i \in ids : rows[i].peer # 0}
  OBVIOUS
<1>6. calls' = [calls EXCEPT ![c].seen = Loaded(ids), ![c].mine = mine, ![c].todo = todo, ![c].at = "each"]
  BY <1>4, <1>5 DEF Flush
<1>7. y = [x EXCEPT !.seen = Loaded(ids), !.mine = mine, !.todo = todo, !.at = "each"]
  BY <1>1, <1>6
<1>8. /\ y.op = x.op /\ y.at = "each" /\ y.got = x.got /\ y.seen = Loaded(ids) /\ y.mine = mine
  BY <1>1, <1>7, CallIs DEF OnLine
<1>9. ASSUME NEW i \in ids
      PROVE  /\ y.seen[i] = rows[i] /\ y.mine[i].used = rows[i].used /\ y.mine[i].last = rows[i].last
             /\ y.mine[i].dev = rows[i].dev /\ y.mine[i].key = rows[i].key /\ KeyOwner[rows[i].key] = rows[i].dev
  <2>1. i \in DOMAIN rows
    BY <1>4 DEF RowsOf
  <2>2. rows[i] \in Row
    BY <2>1 DEF TunnelInv, RowsTrue, RowTrue
  <2>3. y.mine[i] = [rows[i] EXCEPT !.active = FALSE]
    BY <1>5, <1>8
  <2>. QED
    BY <1>8, <2>1, <2>2, <2>3, LoadedIs DEF Row, Belongs
<1>10. DOMAIN y.mine = ids
  BY <1>5, <1>8
<1>11. Holds(x, y, rows)
  BY <1>3, <1>8, <1>9, <1>10 DEF Holds, PollLine, Poller, CallOwned, RowOwned
<1>. QED
  BY <1>1, <1>2, <1>8, <1>11, RowsSame, NodeSame, GoesOnSilently, SMTT(30)

LEMMA EachMoves ==
  ASSUME TunnelInv, Belongs, NEW c \in DOMAIN calls, Each(c)
  PROVE  Moves(c) /\ Silent(c)
<1>1. PICK x, y : x = calls[c] /\ y = calls'[c]
  OBVIOUS
<1>2. /\ x.at = "each" /\ x.got = 0 /\ PollLine(x) /\ CallOwned(x, rows) /\ rows' = rows /\ Onward(c)
  BY <1>1, CallBelongs, OnwardAdmin DEF Each, database
<1>3. ~Poller(x) /\ x.op # "register"
  BY <1>1, <1>2, CallIs DEF PollLine, PollerLines, OnLine
<1>4. PICK i \in x.todo :
        /\ RemovePeer(x.mine[i].peer)
        /\ calls' = [calls EXCEPT ![c].mine[i].peer = 0, ![c].todo = @ \ {i}]
  BY <1>1 DEF Each
<1>5. i \in DOMAIN x.mine /\ x.mine[i] \in Row
  BY <1>1, CallIs DEF OnLine, RowTrue
<1>6. y = [x EXCEPT !.mine = [x.mine EXCEPT ![i] = [x.mine[i] EXCEPT !.peer = 0]], !.todo = x.todo \ {i}]
  BY <1>1, <1>4
<1>7. PICK row : row = [x.mine[i] EXCEPT !.peer = 0]
  OBVIOUS
<1>8. y.op = x.op /\ y.at = "each" /\ y.got = x.got /\ y.seen = x.seen /\ y.mine = [x.mine EXCEPT ![i] = row]
  BY <1>1, <1>2, <1>6, <1>7, CallIs DEF OnLine
<1>9. row.used = x.mine[i].used /\ row.last = x.mine[i].last /\ row.dev = x.mine[i].dev /\ row.key = x.mine[i].key
  BY <1>5, <1>7 DEF Row
<1>10. /\ DOMAIN y.mine = DOMAIN x.mine
       /\ \A j \in DOMAIN x.mine : /\ y.mine[j].used = x.mine[j].used /\ y.mine[j].last = x.mine[j].last
                                   /\ y.mine[j].dev = x.mine[j].dev /\ y.mine[j].key = x.mine[j].key
  BY <1>8, <1>9
<1>11. PollLine(y) /\ CallOwned(y, rows)
  BY <1>2, <1>3, <1>8, <1>10 DEF PollLine, Poller, CallOwned, RowOwned
<1>. QED
  BY <1>1, <1>2, <1>3, <1>4, <1>8, <1>11, RowsSame, RemovedMoves, GoesOnSilently, SMTT(30) DEF Holds

\* A session commits: the table has what it changed.
LEMMA CommitMoves ==
  ASSUME TunnelInv, Belongs, InTune(clash) => Booked, NEW c \in DOMAIN calls, NEW at, Commit(c, at), Onward(c),
         calls[c].at \in {"count", "off", "gone", "each", "finish"},
         at # "end" => calls[c].at \in {"count", "off", "gone"} /\ at \in {"mark", "next", "remove"},
         UNCHANGED <<store, live, raw>>
  PROVE  Moves(c) /\ (InTune(clash) => Silent(c) \/ Pays(c))
<1>1. PICK x, y : x = calls[c] /\ y = calls'[c]
  OBVIOUS
<1>2. /\ x.got = 0 /\ PollLine(x) /\ CallOwned(x, rows) /\ DOMAIN x.mine \subseteq DOMAIN rows
      /\ DOMAIN x.seen = DOMAIN x.mine
  BY <1>1, CallBelongs
<1>3. PICK m : m = [i \in DOMAIN x.mine |-> Merged(c, i)]
  OBVIOUS
<1>4. DOMAIN rows' = DOMAIN rows /\ \A i \in DOMAIN rows : rows'[i] = IF i \in DOMAIN x.mine THEN m[i] ELSE rows[i]
  BY <1>1, <1>3 DEF Commit, Written
<1>5. \A i \in DOMAIN x.mine :
        /\ m[i].dev = rows[i].dev /\ KeyOwner[m[i].key] = rows[i].dev /\ m[i].peer \in {0, rows[i].peer}
        /\ m[i].used = IF x.mine[i].used # x.seen[i].used THEN x.mine[i].used ELSE rows[i].used
        /\ m[i].last = IF x.mine[i].last # x.seen[i].last THEN x.mine[i].last ELSE rows[i].last
  BY <1>1, <1>3, MergedOwned
<1>6. RowsMove(c)
  <2>1. \A j \in DOMAIN rows : RowMoves(c, j)
    BY <1>4, <1>5 DEF RowMoves, Belongs
  <2>. QED
    BY <1>4, <2>1 DEF RowsMove
<1>7. \A i \in DOMAIN rows : rows'[i].dev = rows[i].dev
  BY <1>6 DEF RowsMove, RowMoves
<1>8. at = "end" => c \notin DOMAIN calls'
  BY EndedIs DEF Commit
<1>9. ASSUME at # "end"
      PROVE  /\ SameCall(x, y, at) /\ y.mine = x.mine /\ y.seen = x.mine /\ y.todo = x.todo /\ y.got = 0
             /\ PollLine(y) /\ CallOwned(y, rows')
  <2>1. calls' = Committed(c, at) /\ Later(store, nextPeer, excused, store, nextPeer, excused)
    BY <1>9 DEF Commit, Later, TunnelInv, NodeTrue
  <2>2. /\ CallTrue(y, DOMAIN rows, store, nextPeer, excused)
        /\ SameCall(x, y, at) /\ y.mine = x.mine /\ y.seen = x.mine /\ y.todo = x.todo
    BY <1>1, <1>9, <2>1, CommittedTrue
  <2>3. y.got = 0
    BY <1>9, <2>2 DEF CallTrue, AddTrue, SameCall
  <2>4. PollLine(y)
    BY <1>1, <1>2, <1>9, <2>2 DEF PollLine, Poller, SameCall, PollerLines, WithRow
  <2>5. CallOwned(y, rows')
    <3>1. \A i \in DOMAIN y.mine : RowOwned(y.seen[i], rows'[i].dev) /\ RowOwned(y.mine[i], rows'[i].dev)
      BY <1>2, <1>7, <2>2 DEF CallOwned
    <3>2. x.at \in WithRow /\ (x.at \in WithRow => x.row \in DOMAIN rows)
      BY <1>1, <1>9, CallBelongs DEF WithRow
    <3>3. y.op = "register" => KeyOwner[y.key] = y.dev /\ rows'[y.row].dev = y.dev
      BY <1>2, <1>7, <2>2, <3>2 DEF CallOwned, SameCall
    <3>. QED
      BY <3>1, <3>3 DEF CallOwned
  <2>. QED
    BY <2>2, <2>3, <2>4, <2>5
<1>10. OnlyMoves(c) /\ NodeMoves(c)
  BY NodeSame DEF Onward, OnlyMoves
<1>11. NamesMove(c)
  <2>1. ASSUME c \in DOMAIN calls'
        PROVE  /\ y.got = 0 /\ PollLine(y) /\ CallOwned(y, rows') /\ y.mine = x.mine
               /\ Poller(y) => Poller(x)
    BY <1>8, <1>9, <2>1 DEF SameCall, Poller
  <2>. QED
    BY <1>1, <2>1 DEF NamesMove
<1>12. ASSUME InTune(clash), Poller(x) PROVE Pays(c)
  <2>1. PollTrue(store, raw, carried, rows, calls, x)
    BY <1>1, <1>12 DEF Booked
  <2>2. ASSUME NEW i \in DOMAIN rows
        PROVE  rows'[i].used = PollUsed(x, rows)[i] /\ rows'[i].last = PollLast(x, rows)[i]
    <3>1. CASE i \in DOMAIN x.mine
      BY <1>4, <1>5, <2>1, <3>1 DEF PollUsed, PollLast, PollTrue
    <3>2. CASE i \notin DOMAIN x.mine
      BY <1>4, <3>2 DEF PollUsed, PollLast
    <3>. QED
      BY <3>1, <3>2
  <2>3. ASSUME c \in DOMAIN calls'
        PROVE  PollStays(x, y) /\ \A i \in DOMAIN x.mine : y.seen[i] = x.mine[i]
    <3>1. at # "end"
      BY <1>8, <2>3
    <3>2. y.at # "poll"
      BY <1>9, <3>1 DEF SameCall
    <3>. QED
      BY <1>9, <1>12, <3>1, <3>2 DEF PollStays, Still
  <2>. QED
    BY <1>1, <1>12, <2>2, <2>3 DEF Pays
<1>13. ASSUME ~Poller(x) PROVE Silent(c)
  <2>1. CountsStay
    BY <1>2, <1>4, <1>5, <1>13 DEF PollLine, CountsStay
  <2>2. c \in DOMAIN calls' => ~Poller(y)
    BY <1>8, <1>9, <1>13 DEF SameCall, Poller
  <2>. QED
    BY <1>1, <2>1, <2>2 DEF Silent
<1>. QED
  BY <1>6, <1>10, <1>11, <1>12, <1>13 DEF Moves

LEMMA Next1Moves ==
  ASSUME TunnelInv, Belongs, NEW c \in DOMAIN calls, Next1(c)
  PROVE  Moves(c) /\ Silent(c)
<1>1. PICK x, y : x = calls[c] /\ y = calls'[c]
  OBVIOUS
<1>2. /\ x.at = "next" /\ x.got = 0 /\ PollLine(x) /\ CallOwned(x, rows)
      /\ UNCHANGED <<rows, store, live, raw>> /\ Onward(c)
  BY <1>1, CallBelongs, OnwardJob DEF Next1, database, node
<1>3. RowsMove(c) /\ CountsStay /\ NodeMoves(c)
  BY <1>2, RowsSame, NodeSame
<1>4. CASE calls' = Ended(c)
  BY <1>2, <1>4, EndsSilently
<1>5. CASE calls' = To(c, "finish")
  <2>1. SameCall(x, y, "finish") /\ y.todo = x.todo /\ y.got = x.got /\ y.seen = x.seen /\ y.mine = x.mine
    BY <1>1, <1>5, ToIs
  <2>2. Holds(x, y, rows)
    BY <1>2, <2>1, LineChanged, SMTT(30) DEF PollerLines, WithRow
  <2>. QED
    BY <1>1, <1>2, <1>3, <2>1, <2>2, GoesOnSilently, SMTT(30)
<1>6. ASSUME NEW i \in x.todo, NEW at, at = IF x.op \in {"traffic", "page"} THEN "poll" ELSE "mark",
             calls' = [calls EXCEPT ![c].row = i, ![c].todo = @ \ {i}, ![c].at = at]
      PROVE  Moves(c) /\ Silent(c)
  <2>1. y = [x EXCEPT !.row = i, !.todo = x.todo \ {i}, !.at = at]
    BY <1>1, <1>6
  <2>2. /\ y.op = x.op /\ y.dev = x.dev /\ y.key = x.key /\ y.row = i
        /\ y.at = at /\ y.todo = x.todo \ {i} /\ y.got = x.got /\ y.seen = x.seen /\ y.mine = x.mine
    BY <1>1, <2>1, CallIs DEF OnLine
  <2>3. x.op # "register"
    BY <1>1, <1>6, CallIs DEF OnLine
  <2>4. PollLine(y)
    BY <1>2, <1>6, <2>2 DEF PollLine, Poller, PollerLines
  <2>5. CallOwned(y, rows)
    BY <1>2, <2>2, <2>3 DEF CallOwned
  <2>6. Poller(x) => PollStays(x, y) /\ SeenStays(x, y)
    BY <1>6, <2>2 DEF PollStays, SeenStays, Still
  <2>7. Holds(x, y, rows)
    BY <2>2, <2>4, <2>5, <2>6 DEF Holds
  <2>. QED
    BY <1>1, <1>2, <1>3, <2>2, <2>7, GoesOnSilently, SMTT(30)
<1>. QED
  BY <1>1, <1>4, <1>5, <1>6, ZenonT(30) DEF Next1

LEMMA MarkMoves ==
  ASSUME TunnelInv, Belongs, NEW c \in DOMAIN calls, Mark(c)
  PROVE  Moves(c) /\ Silent(c)
<1>1. PICK x, y, i : x = calls[c] /\ y = calls'[c] /\ i = x.row
  OBVIOUS
<1>2. /\ x.at = "mark" /\ i \in DOMAIN x.mine /\ x.mine[i] \in Row /\ x.got = 0 /\ PollLine(x) /\ CallOwned(x, rows)
      /\ UNCHANGED <<rows, store, live, raw>> /\ Onward(c)
  BY <1>1, CallBelongs, RowIs, OnwardJob DEF WithRow, Mark, database, node
<1>3. PICK row : row = [x.mine[i] EXCEPT !.active = FALSE]
  OBVIOUS
<1>4. /\ row.used = x.mine[i].used /\ row.last = x.mine[i].last /\ row.peer = x.mine[i].peer
      /\ row.dev = x.mine[i].dev /\ row.key = x.mine[i].key
  BY <1>2, <1>3 DEF Row
<1>5. i \in DOMAIN calls[c].mine /\ calls' = Change(c, i, row, "off")
  BY <1>1, <1>2, <1>3 DEF Mark
<1>6. /\ SameCall(x, y, "off") /\ y.todo = x.todo /\ y.got = x.got /\ y.seen = x.seen /\ DOMAIN y.mine = DOMAIN x.mine
      /\ y.mine[i] = row /\ \A j \in DOMAIN x.mine : j # i => y.mine[j] = x.mine[j]
  BY <1>1, <1>5, ChangeIs
<1>7. KeyOwner[row.key] = rows[i].dev
  BY <1>2, <1>4 DEF CallOwned, RowOwned
<1>8. Holds(x, y, rows)
  <2>1. x.at \in WithRow /\ x.at = "mark" /\ i = x.row
    BY <1>1, <1>2 DEF WithRow
  <2>2. "off" \in PollerLines \ {"poll"} /\ "off" \notin {"poll", "count"}
    BY DEF PollerLines
  <2>3. row.peer \in {0, x.mine[i].peer}
    BY <1>4
  <2>. QED
    BY <1>2, <1>4, <1>6, <1>7, <2>1, <2>2, <2>3, RowChangedOwned
<1>. QED
  BY <1>1, <1>2, <1>6, <1>8, RowsSame, NodeSame, GoesOnSilently, SMTT(30)

LEMMA PollCharges ==
  ASSUME TunnelInv, TunnelInv', ChargeInv, NEW c \in DOMAIN calls, Poll(c)
  PROVE  ChargeInv'
<1>1. PICK x, y, i : x = calls[c] /\ y = calls'[c] /\ i = x.row
  OBVIOUS
<1>2. /\ x.at = "poll" /\ i \in DOMAIN x.mine /\ x.mine[i] \in Row /\ x.got = 0 /\ PollLine(x) /\ CallOwned(x, rows)
      /\ UNCHANGED <<rows, store, live, raw, carried, clash>> /\ Onward(c) /\ Belongs
  BY <1>1, CallBelongs, RowIs, OnwardJob DEF WithRow, Poll, database, node, history, ChargeInv
<1>3. Poller(x) /\ i \notin x.todo
  BY <1>1, <1>2 DEF PollLine, WithRow
<1>4. RowsMove(c) /\ CountsStay /\ NodeMoves(c)
  BY <1>2, RowsSame, NodeSame
<1>5. CASE calls' = To(c, "next")
  <2>1. SameCall(x, y, "next") /\ y.todo = x.todo /\ y.got = x.got /\ y.seen = x.seen /\ y.mine = x.mine
    BY <1>1, <1>5, ToIs
  <2>2. Holds(x, y, rows)
    BY <1>2, <2>1, LineChanged, SMTT(30) DEF PollerLines, WithRow
  <2>3. Moves(c) /\ Silent(c)
    BY <1>1, <1>2, <1>4, <2>1, <2>2, GoesOnSilently, SMTT(30)
  <2>. QED
    BY <1>2, <2>3, ChargeKept
<1>6. ASSUME x.mine[i].peer \in DOMAIN store, NEW now, now = raw[store[x.mine[i].peer]], NEW row,
             row = [x.mine[i] EXCEPT !.used = @ + Delta(now, x.mine[i].last), !.last = now],
             NEW at \in {"next", "count"}, calls' = Change(c, i, row, at)
      PROVE  ChargeInv'
  <2>1. /\ i \in DOMAIN calls[c].mine /\ calls' = Change(c, i, row, at) /\ at \in {"next", "count"}
        /\ now = raw[store[x.mine[i].peer]] /\ x.mine[i].peer \in DOMAIN store
    BY <1>1, <1>2, <1>6
  <2>2. /\ OneMoves(c) /\ DOMAIN calls' = DOMAIN calls /\ SameCall(x, y, at)
        /\ y.todo = x.todo /\ y.got = x.got /\ y.seen = x.seen /\ DOMAIN y.mine = DOMAIN x.mine
        /\ y.mine[i] = row /\ \A j \in DOMAIN x.mine : j # i => y.mine[j] = x.mine[j]
    BY <1>1, <2>1, ChangeIs
  <2>3. row = [[x.mine[i] EXCEPT !.used = x.mine[i].used + Delta(now, x.mine[i].last)] EXCEPT !.last = now]
    BY <1>6
  <2>4. /\ row.used = x.mine[i].used + Delta(now, x.mine[i].last) /\ row.last = now
        /\ row.peer = x.mine[i].peer /\ row.dev = x.mine[i].dev /\ row.key = x.mine[i].key
    BY <1>2, <2>3 DEF Row
  <2>5. Counts(x, y, i, store, raw)
    BY <1>1, <1>2, <1>3, <2>1, <2>2, <2>4 DEF Counts, SameCall
  <2>6. PollLine(y)
    BY <1>1, <1>3, <2>2 DEF PollLine, Poller, SameCall, PollerLines
  <2>7. CallOwned(y, rows)
    <3>1. \A j \in DOMAIN x.mine : y.mine[j].dev = x.mine[j].dev /\ y.mine[j].key = x.mine[j].key
      BY <2>2, <2>4
    <3>. QED
      BY <1>2, <1>3, <2>2, <3>1 DEF CallOwned, RowOwned, SameCall, Poller
  <2>8. NamesMove(c)
    <3>1. \A j \in DOMAIN x.mine : y.mine[j].peer = x.mine[j].peer
      BY <2>2, <2>4
    <3>. QED
      BY <1>1, <1>2, <1>3, <2>2, <2>6, <2>7, <3>1 DEF NamesMove
  <2>9. Moves(c)
    BY <1>4, <2>2, <2>8 DEF Moves, OnlyMoves, OneMoves
  <2>10. Belongs'
    BY <1>2, <2>9, BelongsKept
  <2>11. ASSUME InTune(clash') PROVE Booked'
    <3>1. Booked
      BY <1>2, <2>11 DEF ChargeInv
    <3>. QED
      BY <1>1, <1>2, <2>2, <2>5, <3>1, BookedPolled
  <2>. QED
    BY <2>10, <2>11 DEF ChargeInv
<1>7. \/ calls' = To(c, "next")
      \/ /\ x.mine[i].peer \in DOMAIN store
         /\ \E at \in {"next", "count"} : calls' =
              Change(c, i, [x.mine[i] EXCEPT !.used = @ + Delta(raw[store[x.mine[i].peer]], x.mine[i].last),
                                             !.last = raw[store[x.mine[i].peer]]], at)
  BY <1>1 DEF Poll
<1>. QED
  BY <1>5, <1>6, <1>7

LEMMA StepCarried ==
  ASSUME NEW c, Step(c)
  PROVE  carried' = carried
<1>1. ASSUME EnrollSave(c) \/ LoadRow(c) \/ Insert(c) \/ Replace(c) \/ Set(c) \/ Save(c) PROVE carried' = carried
  <2>1. ASSUME LoadRow(c) PROVE carried' = carried
    BY <2>1, LoadRowIs DEF history
  <2>. QED
    BY <1>1, <2>1 DEF EnrollSave, Insert, Replace, Set, Save, Fail, Unchanged, history
<1>2. ASSUME Add(c) \/ Retry(c) \/ AddAgain(c) \/ Store(c) \/ Flush(c) \/ Each(c) \/ Finish(c) PROVE carried' = carried
  BY <1>2 DEF Add, Retry, AddAgain, Store, Flush, Each, Finish, Unchanged, history
<1>3. ASSUME Next1(c) \/ Poll(c) \/ Count(c) \/ Mark(c) \/ Off(c) \/ Remove(c) \/ Gone(c) \/ Locked(c) PROVE carried' = carried
  BY <1>3 DEF Next1, Poll, Count, Mark, Off, Remove, Gone, Locked, Unchanged, history
<1>. QED
  BY <1>1, <1>2, <1>3 DEF Step

LEMMA StepCharges ==
  ASSUME TunnelInv, TunnelInv', ChargeInv, NEW c \in DOMAIN calls, Step(c)
  PROVE  ChargeInv'
<1>1. Onward(c) /\ carried' = carried /\ clash \subseteq clash' /\ Belongs
  BY StepOnward, StepCarried DEF Onward, ChargeInv
<1>2. ASSUME Moves(c), Silent(c) PROVE ChargeInv'
  BY <1>1, <1>2, ChargeKept
<1>3. ASSUME EnrollSave(c) PROVE ChargeInv'
  BY <1>1, <1>2, <1>3, EndsSilently DEF EnrollSave, node
<1>4. ASSUME Locked(c) PROVE ChargeInv'
  BY <1>1, <1>2, <1>4, EndsSilently DEF Locked, node, database
<1>5. ASSUME Replace(c) PROVE ChargeInv'
  <2>1. calls[c].op = "register"
    BY <1>5, CallIs DEF Replace, OnLine
  <2>. QED
    BY <1>1, <1>2, <1>5, <2>1, PeerGoneMoves DEF Replace, database
<1>6. ASSUME Remove(c) PROVE ChargeInv'
  BY <1>1, <1>2, <1>6, PeerGoneMoves DEF Remove, database
<1>7. ASSUME Add(c) \/ AddAgain(c) PROVE ChargeInv'
  BY <1>1, <1>2, <1>7, KeyMoves DEF Add, AddAgain, database
<1>8. ASSUME LoadRow(c) \/ Insert(c) \/ Set(c) \/ Save(c) \/ Retry(c) \/ Store(c) PROVE ChargeInv'
  BY <1>1, <1>2, <1>8, LoadRowMoves, InsertMoves, SetMoves, SaveMoves, RetryMoves, StoreMoves
<1>9. ASSUME Flush(c) \/ Each(c) \/ Next1(c) \/ Mark(c) PROVE ChargeInv'
  BY <1>1, <1>2, <1>9, FlushMoves, EachMoves, Next1Moves, MarkMoves
<1>10. ASSUME Finish(c) \/ Count(c) \/ Off(c) \/ Gone(c) PROVE ChargeInv'
  <2>1. PICK at : /\ Commit(c, at) /\ calls[c].at \in {"count", "off", "gone", "each", "finish"}
                  /\ at # "end" => calls[c].at \in {"count", "off", "gone"} /\ at \in {"mark", "next", "remove"}
                  /\ UNCHANGED <<store, live, raw, clash>>
    <3>1. ASSUME Finish(c)
          PROVE  Commit(c, "end") /\ calls[c].at \in {"each", "finish"} /\ UNCHANGED <<store, live, raw, clash>>
      BY <3>1 DEF Finish, Unchanged, node
    <3>2. ASSUME Count(c) \/ Off(c) \/ Gone(c)
          PROVE  \E at : /\ Commit(c, at) /\ calls[c].at \in {"count", "off", "gone"}
                         /\ at \in {"mark", "next", "remove", "end"} /\ UNCHANGED <<store, live, raw, clash>>
      BY <3>2 DEF Count, Off, Gone, Unchanged, node
    <3>. QED
      BY <1>10, <3>1, <3>2
  <2>2. Moves(c) /\ (InTune(clash) => Silent(c) \/ Pays(c))
    BY <1>1, <2>1, CommitMoves DEF ChargeInv
  <2>3. Belongs'
    BY <1>1, <2>2, BelongsKept
  <2>4. ASSUME InTune(clash') PROVE Booked'
    BY <1>1, <2>1, <2>2, <2>4, BookedKept, BookedPaid DEF ChargeInv
  <2>. QED
    BY <2>3, <2>4 DEF ChargeInv
<1>11. ASSUME Poll(c) PROVE ChargeInv'
  BY <1>11, PollCharges
<1>. QED
  BY <1>3, <1>4, <1>5, <1>6, <1>7, <1>8, <1>9, <1>10, <1>11 DEF Step

\* A call that begins, with the rows as they are.
LEMMA BegunMoves ==
  ASSUME Belongs, NEW c, Begun(c), NEW y, y = calls'[c], y.got = 0,
         DOMAIN y.mine \subseteq DOMAIN rows,
         \A i \in DOMAIN y.mine :
           /\ y.seen[i] = rows[i] /\ y.mine[i].dev = rows[i].dev /\ y.mine[i].key = rows[i].key
           /\ y.mine[i].peer = rows[i].peer /\ y.mine[i].used = rows[i].used /\ y.mine[i].last = rows[i].last,
         y.at \notin {"poll", "count"}, Poller(y) => y.at = "next",
         y.op = "register" => KeyOwner[y.key] = y.dev /\ y.at \notin WithRow
  PROVE  Moves(c) /\ CountsStay
<1>1. UNCHANGED <<rows, store, live, raw>>
  BY DEF Begun, database, node
<1>2. RowsMove(c) /\ CountsStay /\ NodeMoves(c)
  BY <1>1, RowsSame, NodeSame
<1>3. OnlyMoves(c)
  BY DEF Begun, OnlyMoves
<1>4. PollLine(y)
  BY DEF PollLine, PollerLines, WithRow
<1>5. CallOwned(y, rows')
  BY <1>1 DEF CallOwned, RowOwned, Belongs
<1>6. NamesMove(c)
  BY <1>4, <1>5 DEF NamesMove
<1>. QED
  BY <1>2, <1>3, <1>6 DEF Moves

LEMMA BeginMoves ==
  ASSUME Belongs, NEW c, Begun(c), NEW op, NEW d, NEW at, NEW ids, NEW loaded, NEW rest,
         ids \subseteq DOMAIN rows, DOMAIN loaded = ids, \A i \in ids : loaded[i] = rows[i],
         Begin(c, op, d, at, loaded, rest), at \notin {"poll", "count"},
         op \in {"traffic", "page"} => at = "next",
         op = "register" => KeyOwner[rest.key] = d /\ at = "load"
  PROVE  /\ Moves(c) /\ CountsStay /\ carried' = carried
         /\ calls'[c].op = op /\ calls'[c].at = at /\ calls'[c].todo = rest.todo
         /\ calls'[c].mine = loaded /\ calls'[c].seen = loaded
<1>1. PICK y : y = [op |-> op, dev |-> d, at |-> at, key |-> rest.key, todo |-> rest.todo, row |-> rest.row,
                    got |-> 0, seen |-> loaded, mine |-> loaded]
  OBVIOUS
<1>2. calls' = Put(calls, c, y) /\ carried' = carried
  BY <1>1 DEF Begin
<1>3. calls'[c] = y
  BY <1>2 DEF Put
<1>4. /\ y.op = op /\ y.dev = d /\ y.at = at /\ y.key = rest.key /\ y.todo = rest.todo
      /\ y.got = 0 /\ y.seen = loaded /\ y.mine = loaded
  BY <1>1
<1>5. Moves(c) /\ CountsStay
  BY <1>3, <1>4, BegunMoves DEF Poller, WithRow
<1>. QED
  BY <1>2, <1>3, <1>4, <1>5

LEMMA BeginCharges ==
  ASSUME TunnelInv, TunnelInv', ChargeInv, NEW c, Begun(c), NEW op, NEW d, NEW at, NEW ids, NEW loaded, NEW rest,
         ids \subseteq DOMAIN rows, DOMAIN loaded = ids, \A i \in ids : loaded[i] = rows[i],
         Begin(c, op, d, at, loaded, rest), at \notin {"poll", "count"},
         op \in {"traffic", "page"} => at = "next" /\ rest.todo \subseteq ids,
         op = "register" => KeyOwner[rest.key] = d /\ at = "load"
  PROVE  ChargeInv'
<1>1. /\ Moves(c) /\ CountsStay /\ carried' = carried
      /\ calls'[c].op = op /\ calls'[c].at = at /\ calls'[c].todo = rest.todo
      /\ calls'[c].mine = loaded /\ calls'[c].seen = loaded
  BY BeginMoves DEF ChargeInv
<1>2. clash \subseteq clash' /\ UNCHANGED <<rows, store>> /\ c \in DOMAIN calls' \ DOMAIN calls
  BY DEF Begun, database, node
<1>3. CASE op \notin {"traffic", "page"}
  <2>1. Silent(c)
    BY <1>1, <1>3 DEF Silent, Poller
  <2>. QED
    BY <1>1, <1>2, <2>1, ChargeKept
<1>4. CASE op \in {"traffic", "page"}
  <2>1. Belongs'
    BY <1>1, BelongsKept DEF ChargeInv
  <2>2. ASSUME InTune(clash') PROVE Booked'
    <3>1. Booked
      BY <1>2, <2>2 DEF ChargeInv, InTune
    <3>2. ~Busy({"traffic", "page"})
      BY <1>4, <2>2 DEF Begin, Overlap, InTune
    <3>3. \A e \in DOMAIN calls : ~Poller(calls[e])
      BY <3>2 DEF Busy, Poller
    <3>4. Opens(c)
      BY <1>1, <1>2, <1>4 DEF Opens, Poller, Still
    <3>. QED
      BY <1>1, <1>2, <2>2, <3>1, <3>3, <3>4, BookedOpens
  <2>. QED
    BY <2>1, <2>2 DEF ChargeInv
<1>. QED
  BY <1>3, <1>4

LEMMA StartCharges ==
  ASSUME TunnelInv, TunnelInv', ChargeInv, NEW c \in Slot, Start(c)
  PROVE  ChargeInv'
<1>1. Begun(c) /\ Belongs
  BY StartBegun DEF ChargeInv
<1>2. ASSUME NEW op, NEW d, NEW at, NEW rest, Begin(c, op, d, at, << >>, rest), at \notin {"poll", "count"},
             op \notin {"traffic", "page"}, op = "register" => KeyOwner[rest.key] = d /\ at = "load"
      PROVE  ChargeInv'
  <2>1. PICK loaded : loaded = << >>
    OBVIOUS
  <2>2. DOMAIN loaded = {} /\ Begin(c, op, d, at, loaded, rest)
    BY <1>2, <2>1
  <2>. QED
    BY <1>1, <1>2, <2>2, BeginCharges
<1>3. ASSUME NEW ids, ids \subseteq DOMAIN rows, NEW op, NEW at \in {"next", "add"}, NEW rest, rest.todo \subseteq ids,
             Begin(c, op, None, at, Loaded(ids), rest), op # "register", op \in {"traffic", "page"} => at = "next"
      PROVE  ChargeInv'
  <2>1. PICK loaded : loaded = Loaded(ids)
    OBVIOUS
  <2>2. DOMAIN loaded = ids /\ \A i \in ids : loaded[i] = rows[i]
    BY <2>1, LoadedIs
  <2>3. Begin(c, op, None, at, loaded, rest)
    BY <1>3, <2>1
  <2>. QED
    BY <1>1, <1>3, <2>2, <2>3, BeginCharges
<1>4. ASSUME NEW d \in Device, Enroll(c, d) \/ Drop(c, d) PROVE ChargeInv'
  BY <1>2, <1>4 DEF Enroll, Drop
<1>5. ASSUME NEW d \in Device, NEW k \in Key, Register(c, d, k) PROVE ChargeInv'
  <2>1. PICK rest : rest = [Plain(0) EXCEPT !.key = k]
    OBVIOUS
  <2>2. rest.key = k
    BY <2>1, EmptyHanded
  <2>3. Begin(c, "register", d, "load", << >>, rest) /\ KeyOwner[k] = d
    BY <1>5, <2>1 DEF Register
  <2>. QED
    BY <1>2, <2>2, <2>3
<1>6. ASSUME NEW d, NEW victim, Revoke(c, d, victim) PROVE ChargeInv'
  BY <1>2, <1>6 DEF Revoke
<1>7. ASSUME NEW d, Toggle(c, d) PROVE ChargeInv'
  <2>1. PICK at \in {"flush", "finish"} : Begin(c, "toggle", d, at, << >>, Plain(0))
    BY <1>7 DEF Toggle
  <2>. QED
    BY <1>2, <2>1
<1>8. ASSUME NEW op \in Ops, Job(c, op) PROVE ChargeInv'
  <2>1. PICK ids : ids = {i \in DOMAIN rows : rows[i].active /\ (op = "expired" => account.expired)}
    OBVIOUS
  <2>2. PICK rest : rest = [Plain(0) EXCEPT !.todo = {i \in ids : op = "expired" \/ rows[i].peer # 0}]
    OBVIOUS
  <2>3. op \in {"expired", "traffic", "page"} /\ Begin(c, op, None, "next", Loaded(ids), rest)
    BY <1>8, <2>1, <2>2 DEF Job
  <2>4. ids \subseteq DOMAIN rows /\ rest.todo \subseteq ids
    BY <2>1, <2>2, EmptyHanded
  <2>. QED
    BY <1>3, <2>3, <2>4
<1>9. ASSUME NEW i \in DOMAIN rows, Deactivate(c, i) PROVE ChargeInv'
  <2>1. PICK rest : rest = [Plain(0) EXCEPT !.todo = {i}]
    OBVIOUS
  <2>2. rest.todo \subseteq {i} /\ Begin(c, "deactivate", None, "next", Loaded({i}), rest)
    BY <1>9, <2>1, EmptyHanded DEF Deactivate
  <2>. QED
    BY <1>3, <2>2
<1>10. ASSUME NEW i \in DOMAIN rows, SyncSubscription(c, i) PROVE ChargeInv'
  <2>1. PICK rest : rest = Plain(i)
    OBVIOUS
  <2>2. rest.todo \subseteq {i} /\ Begin(c, "sync", None, "add", Loaded({i}), rest)
    BY <1>10, <2>1, EmptyHanded DEF SyncSubscription
  <2>. QED
    BY <1>3, <2>2
<1>11. ASSUME NEW i \in DOMAIN rows, NEW less \in BOOLEAN, Bonus(c, i, less) PROVE ChargeInv'
  <2>1. PICK next, bonus, active, y :
          /\ next = [[rows[i] EXCEPT !.bonus = bonus] EXCEPT !.active = active]
          /\ y = [op |-> "bonus", dev |-> None, at |-> "save", key |-> None, todo |-> {}, row |-> i,
                  got |-> 0, seen |-> Only(i, rows[i]), mine |-> Only(i, next)]
          /\ calls' = Put(calls, c, y) /\ carried' = carried
    BY <1>11 DEF Bonus
  <2>2. rows[i] \in Row
    BY DEF TunnelInv, RowsTrue, RowTrue
  <2>3. /\ next.dev = rows[i].dev /\ next.key = rows[i].key /\ next.peer = rows[i].peer
        /\ next.used = rows[i].used /\ next.last = rows[i].last
    BY <2>1, <2>2 DEF Row
  <2>4. /\ y.op = "bonus" /\ y.at = "save" /\ y.got = 0 /\ DOMAIN y.mine = {i} /\ y.seen[i] = rows[i] /\ y.mine[i] = next
    BY <2>1 DEF Only
  <2>5. calls'[c] = y
    BY <2>1 DEF Put
  <2>6. Moves(c) /\ CountsStay
    BY <1>1, <2>3, <2>4, <2>5, BegunMoves DEF Poller
  <2>7. Silent(c)
    BY <2>4, <2>5, <2>6 DEF Silent, Poller
  <2>. QED
    BY <1>1, <2>1, <2>6, <2>7, ChargeKept DEF Begun
<1>. QED
  BY <1>4, <1>5, <1>6, <1>7, <1>8, <1>9, <1>10, <1>11 DEF Start

\* The node or the control plane is restarted, the account expires, or nothing happens.
LEMMA QuietCharges ==
  ASSUME TunnelInv, TunnelInv', ChargeInv, UNCHANGED <<rows, store, carried>>, clash \subseteq clash',
         calls' = calls \/ calls' = << >>,
         \/ UNCHANGED <<live, raw>>
         \/ live' = Keys(store) /\ \A k \in Key : raw'[k] \in {raw[k], 0}
  PROVE  ChargeInv'
<1>1. PICK c : c = None
  OBVIOUS
<1>2. c \notin DOMAIN calls'
  <2>1. DOMAIN calls' \subseteq Slot
    BY DEF TunnelInv, CallsTrue
  <2>. QED
    BY <1>1, <2>1, TunnelAssumption
<1>3. RowsMove(c) /\ CountsStay
  BY RowsSame DEF ChargeInv
<1>4. NodeMoves(c)
  BY DEF NodeMoves, Keys
<1>5. OnlyMoves(c)
  <2>1. CASE calls' = calls
    BY <2>1 DEF OnlyMoves
  <2>2. CASE calls' = << >>
    <3>1. DOMAIN calls' = {}
      BY <2>2
    <3>. QED
      BY <3>1 DEF OnlyMoves
  <2>. QED
    BY <2>1, <2>2
<1>6. Moves(c) /\ Silent(c)
  BY <1>2, <1>3, <1>4, <1>5 DEF Moves, NamesMove, Silent
<1>. QED
  BY <1>6, ChargeKept

\* A unit of traffic goes through the node.
LEMMA TrafficCharges ==
  ASSUME TunnelInv, ChargeInv, NEW k \in Key, Traffic(k)
  PROVE  ChargeInv'
<1>1. PICK st, ra, ca, ro, cs :
        st = store /\ ra = raw /\ ca = carried /\ ro = rows /\ cs = calls
  OBVIOUS
<1>2. PICK ra2, ca2 : ra2 = [ra EXCEPT ![k] = @ + 1] /\ ca2 = [ca EXCEPT ![KeyOwner[k]] = @ + 1]
  OBVIOUS
<1>3. raw' = ra2 /\ carried' = ca2 /\ UNCHANGED <<rows, store, live, calls, clash>>
  BY <1>1, <1>2 DEF Traffic, database
<1>4. /\ ra \in [Key -> Nat] /\ ca \in [Device -> Nat] /\ KeyOwner[k] \in Device
      /\ \A p \in DOMAIN st : st[p] \in Key
  BY <1>1, TunnelAssumption DEF TunnelInv, Plainly, NodeTrue, ChargeInv, Belongs
<1>5. ca2 \in [Device -> Nat]
  BY <1>2, <1>4
<1>6. Belongs'
  BY <1>3, <1>5 DEF ChargeInv, Belongs
<1>7. ASSUME NEW dv, NEW u, NEW l, NEW claims, NEW clean, Balanced(st, ra, ca, dv, u, l, claims, clean),
             \A i \in DOMAIN u : l[i] \in Nat
      PROVE  Balanced(st, ra2, ca2, dv, u, l, claims, clean)
  BY <1>2, <1>4, <1>7, BalancedTraffic
<1>8. \A i \in DOMAIN ro : ro[i].last \in Nat
  BY <1>1 DEF TunnelInv, RowsTrue, RowTrue, Row
<1>9. ASSUME TableTrue(st, ra, ca, ro, cs)
      PROVE  TableTrue(st, ra2, ca2, ro, cs)
  <2>1. PICK dv, u, l, claims, clean :
          dv = Devs(ro) /\ u = TableUsed(ro) /\ l = TableLast(ro) /\ claims = TableClaims(ro) /\ clean = Gots(cs)
    OBVIOUS
  <2>2. \A i \in DOMAIN u : l[i] \in Nat
    BY <1>8, <2>1 DEF TableUsed, TableLast
  <2>. QED
    BY <1>7, <1>9, <2>1, <2>2 DEF TableTrue
<1>10. ASSUME NEW c \in DOMAIN cs, PollTrue(st, ra, ca, ro, cs, cs[c])
       PROVE  PollTrue(st, ra2, ca2, ro, cs, cs[c])
  <2>1. PICK x : x = cs[c]
    OBVIOUS
  <2>2. PICK dv, u, l, claims, clean :
          /\ dv = Devs(ro) /\ u = PollUsed(x, ro) /\ l = PollLast(x, ro) /\ claims = PollClaims(x, ro)
          /\ clean = Gots(cs) \union Elsewhere(x, ro)
    OBVIOUS
  <2>3. \A i \in DOMAIN x.mine : x.mine[i].last \in Nat
    BY <1>1, <1>10, <2>1, CallIs DEF RowTrue, Row
  <2>4. \A i \in DOMAIN u : l[i] \in Nat
    BY <1>8, <2>2, <2>3 DEF PollUsed, PollLast
  <2>. QED
    BY <1>7, <1>10, <2>1, <2>2, <2>4 DEF PollTrue
<1>11. ASSUME InTune(clash') PROVE Booked'
  <2>1. Booked
    BY <1>3, <1>11 DEF ChargeInv
  <2>2. /\ TableTrue(st, ra2, ca2, ro, cs)
        /\ \A c \in DOMAIN cs : Poller(cs[c]) => PollTrue(st, ra2, ca2, ro, cs, cs[c])
    BY <1>1, <1>9, <1>10, <2>1 DEF Booked
  <2>3. store' = st /\ raw' = ra2 /\ carried' = ca2 /\ rows' = ro /\ calls' = cs /\ live' = Keys(st)
    BY <1>1, <1>3, <2>1 DEF Booked
  <2>4. \A c, e \in DOMAIN cs : Poller(cs[c]) /\ Poller(cs[e]) => c = e
    BY <1>1, <2>1 DEF Booked
  <2>. QED
    BY <2>2, <2>3, <2>4 DEF Booked
<1>. QED
  BY <1>6, <1>11 DEF ChargeInv

LEMMA TheRestCharges ==
  ASSUME TunnelInv, TunnelInv', ChargeInv,
         UNCHANGED vars \/ (\E k \in Key : Traffic(k)) \/ NodeRestart \/ Expire \/ Restart
  PROVE  ChargeInv'
<1>1. ASSUME NEW k \in Key, Traffic(k) PROVE ChargeInv'
  BY <1>1, TrafficCharges
<1>2. ASSUME UNCHANGED vars \/ Expire PROVE ChargeInv'
  <2>1. UNCHANGED <<rows, store, live, raw, calls, carried, clash>>
    BY <1>2 DEF vars, Expire, node, history
  <2>. QED
    BY <2>1, QuietCharges
<1>3. ASSUME NodeRestart PROVE ChargeInv'
  <2>1. UNCHANGED <<rows, store, calls, carried, clash>> /\ live' = Keys(store)
    BY <1>3 DEF NodeRestart, database, history
  <2>2. \A k \in Key : raw'[k] \in {raw[k], 0}
    BY <1>3 DEF NodeRestart
  <2>. QED
    BY <2>1, <2>2, QuietCharges
<1>4. ASSUME Restart PROVE ChargeInv'
  <2>1. UNCHANGED <<rows, store, live, raw, carried>> /\ calls' = << >> /\ clash \subseteq clash'
    BY <1>4 DEF Restart, node
  <2>. QED
    BY <2>1, QuietCharges
<1>. QED
  BY <1>1, <1>2, <1>3, <1>4

LEMMA ChargeStarts == Init => ChargeInv
<1>. SUFFICES ASSUME Init PROVE ChargeInv
  OBVIOUS
<1>1. PICK ro, cs, st : ro = rows /\ cs = calls /\ st = store
  OBVIOUS
<1>2. /\ DOMAIN ro = {} /\ DOMAIN cs = {} /\ DOMAIN st = {} /\ live = {}
      /\ carried \in [Device -> Nat] /\ raw = [k \in Key |-> 0] /\ \A d \in Device : carried[d] = 0
  BY <1>1 DEF Init
<1>3. Belongs
  BY <1>1, <1>2 DEF Belongs, NewlyGot, Homes
<1>4. live = Keys(store)
  BY <1>1, <1>2 DEF Keys
<1>5. TableTrue(st, raw, carried, ro, cs)
  <2>1. PICK bk : bk = [k \in Key |-> 0]
    OBVIOUS
  <2>2. DOMAIN TableUsed(ro) = {}
    BY <1>2 DEF TableUsed
  <2>3. ASSUME NEW d \in Device
        PROVE  Fits(ChargedUnits(Devs(ro), TableUsed(ro), d) \union OpenUnits(bk, raw, d), carried[d])
    <3>1. ChargedUnits(Devs(ro), TableUsed(ro), d) = {}
      BY <2>2 DEF ChargedUnits
    <3>2. OpenUnits(bk, raw, d) = {}
      BY <1>2, <2>1 DEF OpenUnits
    <3>3. Fits({}, 0)
      <4>1. PICK f : f = [x \in {} |-> 0]
        OBVIOUS
      <4>2. f \in [{} -> 1 .. 0] /\ IsInjective(f)
        BY <4>1 DEF IsInjective
      <4>. QED
        BY <4>2 DEF Fits
    <3>4. carried[d] = 0
      BY <1>2
    <3>. QED
      BY <3>1, <3>2, <3>3, <3>4
  <2>4. /\ bk \in [Key -> Nat] /\ \A k \in Key : bk[k] <= raw[k]
    BY <1>2, <2>1
  <2>. QED
    BY <1>2, <2>2, <2>3, <2>4 DEF TableTrue, Balanced
<1>6. Booked
  BY <1>1, <1>2, <1>4, <1>5 DEF Booked
<1>. QED
  BY <1>3, <1>6 DEF ChargeInv

LEMMA ChargeStep == TunnelInv /\ ChargeInv /\ [Next]_vars => ChargeInv'
<1>. SUFFICES ASSUME TunnelInv, ChargeInv, [Next]_vars PROVE ChargeInv'
  OBVIOUS
<1>1. TunnelInv'
  BY TunnelStep
<1>2. ASSUME NEW c \in Slot, Start(c) PROVE ChargeInv'
  BY <1>1, <1>2, StartCharges
<1>3. ASSUME NEW c \in DOMAIN calls, Step(c) PROVE ChargeInv'
  BY <1>1, <1>3, StepCharges
<1>4. ASSUME UNCHANGED vars \/ (\E k \in Key : Traffic(k)) \/ NodeRestart \/ Expire \/ Restart PROVE ChargeInv'
  BY <1>1, <1>4, TheRestCharges
<1>. QED
  BY <1>2, <1>3, <1>4 DEF Next

\* The account of the table fits what a device caused: so does what its rows say.
LEMMA ChargeCount ==
  ASSUME TunnelInv, Belongs, Booked, NEW d \in Device
  PROVE  Cardinality(Charged(d)) <= carried[d]
<1>1. PICK bk, s, u : /\ u = TableUsed(rows) /\ s = ChargedUnits(Devs(rows), u, d)
                      /\ Fits(s \union OpenUnits(bk, raw, d), carried[d])
  BY DEF Booked, TableTrue, Balanced
<1>2. Fits(s, carried[d])
  BY <1>1, FitsLess
<1>3. DOMAIN u = DOMAIN rows /\ \A i \in DOMAIN rows : u[i] = rows[i].used /\ rows[i].used \in Nat
  BY <1>1 DEF TableUsed, TunnelInv, RowsTrue, RowTrue, Row
<1>4. PICK t : t = Charged(d)
  OBVIOUS
<1>5. ASSUME NEW z \in t
      PROVE  z = <<z[1], z[2]>> /\ <<0, z[1], z[2]>> \in s
  <2>1. PICK i \in RowsOf(d) : z \in {i} \X (1 .. rows[i].used)
    BY <1>4 DEF Charged
  <2>2. PICK n \in 1 .. rows[i].used : z = <<i, n>>
    BY <2>1
  <2>3. i \in DOMAIN rows /\ rows[i].dev = d
    BY DEF RowsOf
  <2>4. n \in Nat /\ 0 < n /\ n <= u[i]
    BY <1>3, <2>3
  <2>5. Devs(rows)[i] = d
    BY <2>3 DEF Devs
  <2>6. <<0, i, n>> \in s
    BY <1>1, <1>3, <2>3, <2>4, <2>5 DEF ChargedUnits
  <2>. QED
    BY <2>2, <2>6
<1>6. PICK m : m = [z \in t |-> <<0, z[1], z[2]>>]
  OBVIOUS
<1>7. m \in [t -> s]
  BY <1>5, <1>6
<1>8. IsInjective(m)
  <2>1. ASSUME NEW y \in t, NEW z \in t, m[y] = m[z] PROVE y = z
    <3>1. y[1] = z[1] /\ y[2] = z[2]
      BY <1>6, <2>1
    <3>. QED
      BY <1>5, <3>1
  <2>. QED
    BY <1>7, <2>1 DEF IsInjective
<1>9. Fits(t, carried[d])
  BY <1>2, <1>7, <1>8, FitsInto
<1>10. carried[d] \in Nat
  BY DEF Belongs
<1>. QED
  BY <1>4, <1>9, <1>10, FitsCount

\* Whatever handlers and jobs run at once, and however keys, peers and counters come
\* and go: the rows of a device are never charged with more traffic than it caused,
\* unless the admin page polled beside the scheduler or the interface was out of step.
THEOREM NeverOverchargedHolds == Spec => []NeverOvercharged
<1>1. TunnelInv /\ ChargeInv => NeverOvercharged
  <2>. SUFFICES ASSUME TunnelInv, ChargeInv, clash \intersect {"poll", "sync"} = {}, NEW d \in Device
                PROVE  Cardinality(Charged(d)) <= carried[d]
    BY DEF NeverOvercharged
  <2>. QED
    BY ChargeCount DEF ChargeInv, InTune
<1>. QED
  BY <1>1, TunnelStarts, TunnelStep, ChargeStarts, ChargeStep, PTL DEF Spec
=============================================================================

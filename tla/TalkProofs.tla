----------------------------- MODULE TalkProofs -----------------------------
(***************************************************************************)
(* Theorems about what one device keeps and tells. Calls: a call ends      *)
(* once, what is over does not ring again, and no microphone is open       *)
(* without the consent of the callee. Routes: a session asked for the      *)
(* onion way takes no other. Threads: the conversations of one person are  *)
(* one, the queue is as it is shown, and the ticks are true of each copy.  *)
(* Announce: the books of what a contact was told are true of what he will *)
(* know. Showcase: the relay shows what was set, or will be.               *)
(***************************************************************************)
EXTENDS Calls, Routes, Threads, Announce, Showcase, WellFoundedInduction, SequenceTheorems, TLAPS

-----------------------------------------------------------------------------
(* Calls: the invariant                                                    *)

Phases == {"ringing", "incoming", "connecting"}
ActiveCall(d) ==
  [peer : Talker \ {d}, id : 1 .. nextCall - 1, phase : Phases, until : Nat,
   task : {"timer", "media", "dead"}, active : BOOLEAN]

Ops == {"offer", "accept", "end", "probe", "unavailable"}
SignalType == [from : Talker, to : Talker, id : 1 .. nextCall - 1, op : Ops, until : Nat]

\* Types.
CallTypes ==
  /\ clock \in Nat
  /\ nextCall \in 1 .. MaxCall + 1
  /\ call = [d \in Talker |-> call[d]]
  /\ \A d \in Talker : call[d] # NoCall => call[d] \in ActiveCall(d)
  /\ \A s \in signals : s \in SignalType /\ s.from # s.to
  /\ seen = [d \in Talker |-> seen[d]]
  /\ \A d \in Talker : \A k \in DOMAIN seen[d] : seen[d][k] \in Nat
  /\ asked = [d \in Talker |-> asked[d]]
  /\ orders \in [Talker -> SUBSET Id]
  /\ endings \in [Talker -> [Id -> Nat]]
  /\ gone \in [Talker -> SUBSET Id]

\* A number that was not given yet is of no call.
Unborn ==
  \A d \in Talker, id \in Id : id >= nextCall => endings[d][id] = 0 /\ id \notin gone[d]

\* All that speaks of a call, its signals and the calls of the devices, is between
\* the same two.
OnePair ==
  /\ \A s, q \in signals :
       s.id = q.id /\ {s.op, q.op} \subseteq {"offer", "accept", "end"}
         => {s.from, s.to} = {q.from, q.to}
  /\ \A s \in signals, d \in Talker :
       s.op \in {"offer", "accept", "end"} /\ call[d] # NoCall /\ call[d].id = s.id
         => {s.from, s.to} = {d, call[d].peer}
  /\ \A d, e \in Talker :
       call[d] # NoCall /\ call[e] # NoCall /\ call[d].id = call[e].id
         => {d, call[d].peer} = {e, call[e].peer}

\* While an offer is on its way its call is not known to the callee, or is known to
\* be over and remembered until the offer is stale.
OfferIsNew(s) ==
  /\ endings[s.to][s.id] = 0
  /\ call[s.to] # NoCall => call[s.to].id # s.id
  /\ s.until <= Time(s.from) + Ttl
  /\ \A q \in signals : q.id = s.id /\ q.op = "offer" => q = s
  /\ \A q \in signals : q.id = s.id /\ q.op = "end" /\ q.to = s.to => q.until >= s.until
  /\ \A d \in Talker : \A k \in DOMAIN asked[d] : k[2] # s.id
  /\ s.id \in gone[s.to] =>
       \/ s.to \in flooded
       \/ <<s.from, s.id>> \in DOMAIN seen[s.to] /\ seen[s.to][<<s.from, s.id>>] >= s.until

OffersNew == \A s \in signals : s.op = "offer" => OfferIsNew(s)

\* A probe without an answer has a number of its own, of which nothing ended.
AskedNew ==
  \A d \in Talker : \A k \in DOMAIN asked[d] :
    /\ k = <<k[1], k[2]>> /\ k[2] \in 1 .. nextCall - 1
    /\ endings[d][k[2]] = 0
    /\ call[d] # NoCall => call[d].id # k[2]
    /\ \A j \in DOMAIN asked[d] : j[2] = k[2] => j = k

\* An acceptance is that of the callee.
Accepts == \A s \in signals : s.op = "accept" => s.id \in agreed

CallInv ==
  /\ CallTypes /\ Unborn /\ OnePair /\ OffersNew /\ AskedNew
  /\ EndsOnce /\ Accepts /\ MediaAfterConsent

-----------------------------------------------------------------------------
(* The parts of it that a step leaves alone                                *)

\* What a step that only forgets does: signals and probes go, and calls may hear,
\* be aborted or be registered.
Forgets ==
  /\ clock' = clock \/ clock' = clock + 1
  /\ nextCall' = nextCall /\ endings' = endings /\ gone' = gone
  /\ flooded' = flooded /\ agreed' = agreed /\ signals' \subseteq signals
  /\ call' = [d \in Talker |-> call'[d]]
  /\ \A d \in Talker :
       \/ call'[d] = call[d]
       \/ /\ call[d] # NoCall /\ call'[d] \in ActiveCall(d)
          /\ call'[d].id = call[d].id /\ call'[d].peer = call[d].peer
          /\ call'[d].phase = "connecting" => call'[d].id \in agreed
          /\ call'[d].task = "dead" => call'[d].id \in orders'[d]
  /\ orders' \in [Talker -> SUBSET Id] /\ \A d \in Talker : orders[d] \subseteq orders'[d]
  /\ asked' = [d \in Talker |-> asked'[d]]
  /\ \A d \in Talker : DOMAIN asked'[d] \subseteq DOMAIN asked[d]
  /\ seen' = [d \in Talker |-> seen'[d]]
  /\ \A d \in Talker : \A k \in DOMAIN seen'[d] : seen'[d][k] \in Nat
  /\ \A s \in signals' : \A k : k \in DOMAIN seen[s.to] /\ seen[s.to][k] >= s.until
       => k \in DOMAIN seen'[s.to] /\ seen'[s.to][k] >= s.until

\* A signal that names the two of its call, known from a call or another signal.
Speaks(n) ==
  \/ n \in signals
  \/ n.op \notin {"offer", "accept", "end"}
  \/ \E d \in Talker : call[d] # NoCall /\ call[d].id = n.id /\ {n.from, n.to} = {d, call[d].peer}
  \/ \E q \in signals : /\ q.op \in {"offer", "accept", "end"} /\ q.id = n.id
                        /\ {n.from, n.to} = {q.from, q.to}

LEMMA SpeaksOfOne ==
  ASSUME OnePair, NEW n, Speaks(n), n.op \in {"offer", "accept", "end"}
  PROVE  /\ \A q \in signals : q.id = n.id /\ q.op \in {"offer", "accept", "end"}
                               => {n.from, n.to} = {q.from, q.to}
         /\ \A d \in Talker : call[d] # NoCall /\ call[d].id = n.id
                               => {n.from, n.to} = {d, call[d].peer}
<1>1. CASE n \in signals
  <2>1. \A q \in signals : q.id = n.id /\ q.op \in {"offer", "accept", "end"}
                               => {n.from, n.to} = {q.from, q.to}
    BY <1>1 DEF OnePair
  <2>2. \A d \in Talker : call[d] # NoCall /\ call[d].id = n.id
                               => {n.from, n.to} = {d, call[d].peer}
    BY <1>1 DEF OnePair
  <2> QED BY <2>1, <2>2
<1>2. ASSUME NEW c \in Talker, call[c] # NoCall, call[c].id = n.id, {n.from, n.to} = {c, call[c].peer}
      PROVE  /\ \A q \in signals : q.id = n.id /\ q.op \in {"offer", "accept", "end"}
                               => {n.from, n.to} = {q.from, q.to}
             /\ \A d \in Talker : call[d] # NoCall /\ call[d].id = n.id
                               => {n.from, n.to} = {d, call[d].peer}
  <2>1. \A q \in signals : q.id = n.id /\ q.op \in {"offer", "accept", "end"}
                               => {q.from, q.to} = {c, call[c].peer}
    BY <1>2 DEF OnePair
  <2>2. \A d \in Talker : call[d] # NoCall /\ call[d].id = n.id
                               => {c, call[c].peer} = {d, call[d].peer}
    BY <1>2 DEF OnePair
  <2> QED BY <1>2, <2>1, <2>2
<1>3. ASSUME NEW p \in signals, p.op \in {"offer", "accept", "end"}, p.id = n.id,
             {n.from, n.to} = {p.from, p.to}
      PROVE  /\ \A q \in signals : q.id = n.id /\ q.op \in {"offer", "accept", "end"}
                               => {n.from, n.to} = {q.from, q.to}
             /\ \A d \in Talker : call[d] # NoCall /\ call[d].id = n.id
                               => {n.from, n.to} = {d, call[d].peer}
  <2>1. \A q \in signals : q.id = n.id /\ q.op \in {"offer", "accept", "end"}
                               => {p.from, p.to} = {q.from, q.to}
    BY <1>3 DEF OnePair
  <2>2. \A d \in Talker : call[d] # NoCall /\ call[d].id = n.id
                               => {p.from, p.to} = {d, call[d].peer}
    BY <1>3 DEF OnePair
  <2> QED BY <1>3, <2>1, <2>2
<1> QED BY <1>1, <1>2, <1>3 DEF Speaks

\* OnePair after a step that says no more than was said, or one thing more.
LEMMA PairKept ==
  ASSUME OnePair, NEW n, Speaks(n), \A s \in signals' : s \in signals \/ s = n,
         \A d \in Talker : call'[d] # NoCall =>
           call[d] # NoCall /\ call'[d].id = call[d].id /\ call'[d].peer = call[d].peer
  PROVE  OnePair'
<1>1. ASSUME NEW s \in signals', NEW q \in signals', s.id = q.id,
             s.op \in {"offer", "accept", "end"}, q.op \in {"offer", "accept", "end"}
      PROVE  {s.from, s.to} = {q.from, q.to}
  <2>1. CASE s \in signals
    <3>1. CASE q \in signals
      BY <1>1, <2>1, <3>1 DEF OnePair
    <3>2. CASE q = n
      BY <1>1, <2>1, <3>2, SpeaksOfOne
    <3> QED BY <3>1, <3>2
  <2>2. CASE s = n
    <3>1. CASE q \in signals
      BY <1>1, <2>2, <3>1, SpeaksOfOne
    <3> QED BY <2>2, <3>1
  <2> QED BY <2>1, <2>2
<1>2. ASSUME NEW s \in signals', NEW d \in Talker, s.op \in {"offer", "accept", "end"},
             call'[d] # NoCall, call'[d].id = s.id
      PROVE  {s.from, s.to} = {d, call'[d].peer}
  <2>1. call[d] # NoCall /\ call[d].id = s.id /\ call'[d].peer = call[d].peer
    BY <1>2
  <2>2. CASE s \in signals
    BY <1>2, <2>1, <2>2 DEF OnePair
  <2>3. CASE s = n
    BY <1>2, <2>1, <2>3, SpeaksOfOne
  <2> QED BY <2>2, <2>3
<1>3. \A d, e \in Talker :
        call'[d] # NoCall /\ call'[e] # NoCall /\ call'[d].id = call'[e].id
          => {d, call'[d].peer} = {e, call'[e].peer}
  BY DEF OnePair
<1>4. \A s, q \in signals' :
        s.id = q.id /\ {s.op, q.op} \subseteq {"offer", "accept", "end"}
          => {s.from, s.to} = {q.from, q.to}
  BY <1>1
<1>5. \A s \in signals', d \in Talker :
        s.op \in {"offer", "accept", "end"} /\ call'[d] # NoCall /\ call'[d].id = s.id
          => {s.from, s.to} = {d, call'[d].peer}
  BY <1>2
<1> QED BY <1>3, <1>4, <1>5 DEF OnePair

LEMMA ForgetsKeeps == CallInv /\ Forgets => CallInv'
<1> SUFFICES ASSUME CallInv, Forgets PROVE CallInv'
  OBVIOUS
<1>0. clock \in Nat /\ clock' \in Nat /\ clock <= clock' /\ nextCall \in Nat
  BY DEF CallInv, CallTypes, Forgets
<1>a. \A d \in Talker : call'[d] # NoCall =>
        /\ call[d] # NoCall /\ call'[d].id = call[d].id /\ call'[d].peer = call[d].peer
  BY DEF Forgets
<1>b. \A s \in signals' : s \in signals
  BY DEF Forgets
<1>1. CallTypes'
  <2>1. \A d \in Talker : call'[d] # NoCall => call'[d] \in ActiveCall(d)
    BY DEF CallInv, CallTypes, Forgets
  <2>2. \A s \in signals' : s \in SignalType /\ s.from # s.to
    BY <1>b DEF CallInv, CallTypes
  <2>3. nextCall' = nextCall /\ endings' = endings /\ gone' = gone
    BY DEF Forgets
  <2> QED BY <1>0, <2>1, <2>2, <2>3 DEF CallInv, CallTypes, Forgets, ActiveCall, SignalType
<1>2. Unborn'
  BY DEF CallInv, Unborn, Forgets
<1>3. OnePair'
  <2>1. Speaks([op |-> "none"])
    BY DEF Speaks
  <2> QED BY <1>a, <1>b, <2>1, PairKept DEF CallInv
<1>4. OffersNew'
  <2> SUFFICES ASSUME NEW s \in signals', s.op = "offer" PROVE OfferIsNew(s)'
    BY DEF OffersNew
  <2>1. s \in signals /\ OfferIsNew(s)
    BY <1>b DEF CallInv, OffersNew
  <2>2. s.to \in Talker /\ s.from \in Talker /\ s.until \in Nat
    BY <2>1 DEF CallInv, CallTypes, SignalType
  <2>3. s.until <= Time(s.from)' + Ttl
    BY <1>0, <2>1, <2>2, CallsAssumption DEF OfferIsNew, Time
  <2>4. endings'[s.to][s.id] = 0 /\ (call'[s.to] # NoCall => call'[s.to].id # s.id)
    BY <1>a, <2>1, <2>2 DEF OfferIsNew, Forgets
  <2>5. \A d \in Talker : \A k \in DOMAIN asked'[d] : k[2] # s.id
    BY <2>1 DEF OfferIsNew, Forgets
  <2>6. s.id \in gone'[s.to] =>
          \/ s.to \in flooded'
          \/ <<s.from, s.id>> \in DOMAIN seen'[s.to] /\ seen'[s.to][<<s.from, s.id>>] >= s.until
    BY <2>1 DEF OfferIsNew, Forgets
  <2>7. \A q \in signals' : q.id = s.id /\ q.op = "offer" => q = s
    BY <1>b, <2>1 DEF OfferIsNew
  <2>8. \A q \in signals' : q.id = s.id /\ q.op = "end" /\ q.to = s.to => q.until >= s.until
    BY <1>b, <2>1 DEF OfferIsNew
  <2> QED BY <2>3, <2>4, <2>5, <2>6, <2>7, <2>8 DEF OfferIsNew
<1>5. AskedNew'
  BY <1>a DEF CallInv, AskedNew, Forgets
<1>6. EndsOnce'
  <2> SUFFICES ASSUME NEW d \in Talker
               PROVE  /\ \A id \in Id : endings'[d][id] <= 1
                      /\ call'[d] # NoCall =>
                           /\ endings'[d][call'[d].id] = 0
                           /\ call'[d].id \in gone'[d] => d \in flooded'
                           /\ call'[d].task = "dead" => call'[d].id \in orders'[d]
    BY DEF EndsOnce
  <2>1. /\ \A id \in Id : endings[d][id] <= 1
        /\ call[d] # NoCall =>
             /\ endings[d][call[d].id] = 0
             /\ call[d].id \in gone[d] => d \in flooded
             /\ call[d].task = "dead" => call[d].id \in orders[d]
    BY DEF CallInv, EndsOnce
  <2> QED BY <1>a, <2>1 DEF Forgets
<1>7. Accepts' /\ MediaAfterConsent'
  BY <1>b DEF CallInv, Accepts, MediaAfterConsent, Forgets
<1> QED BY <1>1, <1>2, <1>3, <1>4, <1>5, <1>6, <1>7 DEF CallInv

-----------------------------------------------------------------------------
(* Steps that only forget                                                  *)

\* Nothing of this and no clock: what a step does to none of it.
LEMMA SilenceForgets ==
  ASSUME CallInv, UNCHANGED <<call, seen, asked, orders, clock, nextCall, endings, gone, flooded, agreed>>,
         signals' \subseteq signals
  PROVE  Forgets
<1>1. call' = [d \in Talker |-> call'[d]] /\ asked' = [d \in Talker |-> asked'[d]]
      /\ seen' = [d \in Talker |-> seen'[d]]
  BY DEF CallInv, CallTypes
<1>2. \A s \in signals' : \A k : k \in DOMAIN seen[s.to] /\ seen[s.to][k] >= s.until
       => k \in DOMAIN seen'[s.to] /\ seen'[s.to][k] >= s.until
  OBVIOUS
<1>3. orders' \in [Talker -> SUBSET Id] /\ \A d \in Talker : orders[d] \subseteq orders'[d]
  BY DEF CallInv, CallTypes
<1>4. \A d \in Talker : \A k \in DOMAIN seen'[d] : seen'[d][k] \in Nat
  BY DEF CallInv, CallTypes
<1> QED BY <1>1, <1>2, <1>3, <1>4 DEF Forgets

LEMMA CallNumbers ==
  ASSUME CallInv
  PROVE  /\ \A c \in Talker : call[c] # NoCall => call[c].id \in Id /\ call[c].id \in 1 .. nextCall - 1
         /\ \A s \in signals : s.id \in Id /\ s.id \in 1 .. nextCall - 1 /\ s.to \in Talker /\ s.from \in Talker
                             /\ s.from # s.to /\ s.until \in Nat /\ s \in SignalType
         /\ \A c \in Talker : Time(c) \in Nat
         /\ Ttl \in Nat /\ Slack \in Nat /\ nextCall \in Nat
<1>1. nextCall - 1 \in Nat /\ nextCall - 1 <= MaxCall /\ MaxCall \in Nat /\ clock \in Nat
      /\ Ttl \in Nat /\ Slack \in Nat /\ nextCall \in Nat
  BY CallsAssumption DEF CallInv, CallTypes
<1>2. \A c \in Talker : call[c] # NoCall => call[c].id \in Id /\ call[c].id \in 1 .. nextCall - 1
  BY <1>1 DEF CallInv, CallTypes, ActiveCall, Id
<1>3. \A s \in signals : s.id \in Id /\ s.id \in 1 .. nextCall - 1 /\ s.to \in Talker /\ s.from \in Talker
                       /\ s.from # s.to /\ s.until \in Nat /\ s \in SignalType
  BY <1>1 DEF CallInv, CallTypes, SignalType, Id
<1>4. \A c \in Talker : Time(c) \in Nat
  BY <1>1, CallsAssumption DEF Time
<1> QED BY <1>1, <1>2, <1>3, <1>4

LEMMA PairOfCall ==
  ASSUME CallInv, NEW s \in signals, s.op \in {"offer", "accept", "end"},
         NEW d \in Talker, call[d] # NoCall, call[d].id = s.id
  PROVE  {s.from, s.to} = {d, call[d].peer}
BY DEF CallInv, OnePair

LEMMA PairOfSignals ==
  ASSUME CallInv, NEW s \in signals, s.op \in {"offer", "accept", "end"},
         NEW q \in signals, q.op \in {"offer", "accept", "end"}, s.id = q.id
  PROVE  {s.from, s.to} = {q.from, q.to}
BY DEF CallInv, OnePair

LEMMA HangUpKeeps == ASSUME CallInv, NEW d \in Talker, HangUp(d) PROVE CallInv'
<1>1. UNCHANGED <<seen, asked, signals, clock, nextCall, endings, gone, agreed, flooded>>
  BY DEF HangUp, probes, history
<1>2. call[d] \in ActiveCall(d) /\ call = [c \in Talker |-> call[c]] /\ orders \in [Talker -> SUBSET Id]
      /\ call[d] # NoCall /\ call[d].id \in Id
  BY CallNumbers DEF CallInv, CallTypes, HangUp
<1>3. orders' = [orders EXCEPT ![d] = @ \union {call[d].id}]
  BY DEF HangUp
<1>4. orders' \in [Talker -> SUBSET Id] /\ (\A c \in Talker : orders[c] \subseteq orders'[c])
      /\ call[d].id \in orders'[d]
  BY <1>2, <1>3
<1>5. \A c \in Talker \ {d} : call'[c] = call[c]
  BY <1>2 DEF HangUp
<1>6. call' = [c \in Talker |-> call'[c]]
  BY <1>2 DEF HangUp
<1>7. \/ call'[d] = call[d]
      \/ /\ call[d] # NoCall /\ call'[d] \in ActiveCall(d)
         /\ call'[d].id = call[d].id /\ call'[d].peer = call[d].peer
         /\ call'[d].phase = "connecting" => call'[d].id \in agreed
         /\ call'[d].task = "dead" => call'[d].id \in orders'[d]
  <2>1. CASE call[d].task # "media"
    BY <2>1 DEF HangUp
  <2>2. CASE call[d].task = "media"
    <3>1. call'[d] = [call[d] EXCEPT !.task = "dead"]
      BY <1>2, <2>2 DEF HangUp
    <3>2. call'[d] \in ActiveCall(d) /\ call'[d].id = call[d].id /\ call'[d].peer = call[d].peer
          /\ call'[d].phase = call[d].phase
      BY <1>2, <3>1 DEF ActiveCall
    <3> QED BY <1>2, <1>4, <3>2 DEF CallInv, MediaAfterConsent
  <2> QED BY <2>1, <2>2
<1>8. Forgets
  BY <1>1, <1>4, <1>5, <1>6, <1>7 DEF Forgets, CallInv, CallTypes
<1> QED BY <1>8, ForgetsKeeps

LEMMA HearKeeps == ASSUME CallInv, NEW d \in Talker, Hear(d) PROVE CallInv'
<1>1. UNCHANGED <<seen, asked, signals, orders, clock, nextCall, endings, gone, agreed, flooded>>
  BY DEF Hear, probes, history
<1>2. call[d] \in ActiveCall(d) /\ call = [c \in Talker |-> call[c]] /\ orders \in [Talker -> SUBSET Id]
      /\ call[d] # NoCall
  BY DEF CallInv, CallTypes, Hear
<1>3. call'[d] = [call[d] EXCEPT !.active = TRUE] /\ (\A c \in Talker \ {d} : call'[c] = call[c])
      /\ call' = [c \in Talker |-> call'[c]]
  BY <1>2 DEF Hear
<1>4. call'[d] \in ActiveCall(d) /\ call'[d].id = call[d].id /\ call'[d].peer = call[d].peer
      /\ call'[d].phase = call[d].phase /\ call'[d].task = "media"
  BY <1>2, <1>3 DEF ActiveCall, Hear
<1>5. Forgets
  BY <1>1, <1>2, <1>3, <1>4 DEF Forgets, CallInv, CallTypes, MediaAfterConsent
<1> QED BY <1>5, ForgetsKeeps

LEMMA SessionEndsKeeps == ASSUME CallInv, NEW d \in Talker, SessionEnds(d) PROVE CallInv'
<1>1. UNCHANGED <<call, seen, signals, orders, clock, nextCall, endings, gone, agreed, flooded>>
  BY DEF SessionEnds, history
<1>2. asked' = [c \in Talker |-> asked'[c]] /\ \A c \in Talker : DOMAIN asked'[c] \subseteq DOMAIN asked[c]
  <2>1. asked' = [asked EXCEPT ![d] = << >>] /\ asked = [c \in Talker |-> asked[c]]
    BY DEF SessionEnds, CallInv, CallTypes
  <2>2. asked'[d] = << >> /\ (\A c \in Talker \ {d} : asked'[c] = asked[c])
        /\ asked' = [c \in Talker |-> asked'[c]]
    BY <2>1
  <2>3. DOMAIN << >> = {}
    OBVIOUS
  <2>4. DOMAIN asked'[d] = {}
    BY <2>2, <2>3
  <2>5. \A c \in Talker : DOMAIN asked'[c] \subseteq DOMAIN asked[c]
    BY <2>2, <2>4
  <2> QED BY <2>2, <2>5
<1>3. Forgets
  BY <1>1, <1>2 DEF Forgets, CallInv, CallTypes
<1> QED BY <1>3, ForgetsKeeps

LEMMA ClockKeeps == ASSUME CallInv, CallClock PROVE CallInv'
<1>1. UNCHANGED <<call, orders, nextCall, endings, gone, agreed, flooded>> /\ clock' = clock + 1
  BY DEF CallClock, history
<1>2. asked' = [c \in Talker |-> asked'[c]] /\ \A c \in Talker : DOMAIN asked'[c] \subseteq DOMAIN asked[c]
  BY DEF CallClock, Restrict
<1>3. seen' = [c \in Talker |-> Restrict(seen[c], {k \in DOMAIN seen[c] : seen[c][k] > Time(c) + 1})]
  BY DEF CallClock
<1>4. seen' = [c \in Talker |-> seen'[c]] /\ \A c \in Talker : \A k \in DOMAIN seen'[c] : seen'[c][k] \in Nat
  BY <1>3 DEF Restrict, CallInv, CallTypes
<1>5. signals' = {s \in signals : s.until > Time(s.to) + 1}
  BY DEF CallClock
<1>6. ASSUME NEW s \in signals', NEW k \in DOMAIN seen[s.to], seen[s.to][k] >= s.until
      PROVE  k \in DOMAIN seen'[s.to] /\ seen'[s.to][k] >= s.until
  <2>1. s \in signals /\ s.until > Time(s.to) + 1
    BY <1>5
  <2>2. s.to \in Talker /\ s.until \in Nat /\ seen[s.to][k] \in Nat /\ Time(s.to) \in Nat
    BY <2>1, CallsAssumption DEF CallInv, CallTypes, SignalType, Time
  <2>3. seen[s.to][k] > Time(s.to) + 1
    BY <1>6, <2>1, <2>2
  <2> QED BY <1>3, <1>6, <2>2, <2>3 DEF Restrict
<1>7. Forgets
  BY <1>1, <1>2, <1>4, <1>5, <1>6 DEF Forgets, CallInv, CallTypes
<1> QED BY <1>7, ForgetsKeeps

LEMMA AnsweredKeeps ==
  ASSUME CallInv, NEW s \in signals, Answered(s.to, s),
         UNCHANGED <<orders, clock, nextCall, restarts>>
  PROVE  CallInv'
<1> DEFINE d == s.to
<1>1. UNCHANGED <<seen, asked, orders, clock, nextCall, endings, gone, agreed, flooded>>
  BY DEF Answered, probes, history
<1>2. d \in Talker /\ call = [c \in Talker |-> call[c]] /\ orders \in [Talker -> SUBSET Id]
      /\ signals' \subseteq signals
  BY DEF CallInv, CallTypes, SignalType, Answered
<1>3. CASE Mine(d, s) /\ call[d].phase = "ringing"
  <2>1. call[d] \in ActiveCall(d) /\ call[d] # NoCall /\ call[d].id = s.id
    BY <1>2, <1>3 DEF CallInv, CallTypes, Mine
  <2>2. call'[d] = Connecting(call[d]) /\ (\A c \in Talker \ {d} : call'[c] = call[c])
        /\ call' = [c \in Talker |-> call'[c]]
    BY <1>2, <1>3 DEF Answered
  <2>3. call'[d] \in ActiveCall(d) /\ call'[d].id = call[d].id /\ call'[d].peer = call[d].peer
        /\ call'[d].task = "media"
    BY <2>1, <2>2 DEF ActiveCall, Connecting, Phases
  <2>4. s.id \in agreed
    BY DEF CallInv, Accepts, Answered
  <2>5. Forgets
    BY <1>1, <1>2, <2>1, <2>2, <2>3, <2>4 DEF Forgets, CallInv, CallTypes
  <2> QED BY <2>5, ForgetsKeeps
<1>4. CASE ~(Mine(d, s) /\ call[d].phase = "ringing")
  <2>1. call' = call
    BY <1>4 DEF Answered
  <2> QED BY <1>1, <1>2, <2>1, SilenceForgets, ForgetsKeeps
<1> QED BY <1>3, <1>4

-----------------------------------------------------------------------------
(* A call is over                                                          *)

LEMMA RememberFacts ==
  ASSUME CallInv, NEW d \in Talker, NEW e, NEW id, Remember(d, e, id)
  PROVE  /\ seen' = [c \in Talker |-> seen'[c]]
         /\ \A c \in Talker : \A k \in DOMAIN seen'[c] : seen'[c][k] \in Nat
         /\ \A c \in Talker : \A k \in DOMAIN seen[c] :
              c # d \/ k # <<e, id>> => k \in DOMAIN seen'[c] /\ seen'[c][k] = seen[c][k]
         /\ \/ Full(d) /\ seen' = seen
            \/ ~Full(d) /\ <<e, id>> \in DOMAIN seen'[d] /\ seen'[d][<<e, id>>] = Time(d) + Ttl + Slack
<1>1. seen = [c \in Talker |-> seen[c]] /\ \A c \in Talker : \A k \in DOMAIN seen[c] : seen[c][k] \in Nat
  BY DEF CallInv, CallTypes
<1>2. CASE Full(d)
  <2>1. seen' = seen
    BY <1>2 DEF Remember
  <2> QED BY <1>1, <1>2, <2>1
<1>3. CASE ~Full(d)
  <2>1. seen' = [seen EXCEPT ![d] = Put(seen[d], <<e, id>>, Time(d) + Ttl + Slack)]
    BY <1>3 DEF Remember
  <2>2. Time(d) + Ttl + Slack \in Nat
    BY CallNumbers
  <2> HIDE DEF Remember
  <2>3. seen' = [c \in Talker |-> seen'[c]] /\ (\A c \in Talker \ {d} : seen'[c] = seen[c])
        /\ seen'[d] = Put(seen[d], <<e, id>>, Time(d) + Ttl + Slack)
    BY <1>1, <2>1
  <2>4. <<e, id>> \in DOMAIN seen'[d] /\ seen'[d][<<e, id>>] = Time(d) + Ttl + Slack
    BY <2>3 DEF Put
  <2>5. \A k \in DOMAIN seen'[d] : k = <<e, id>> \/ (k \in DOMAIN seen[d] /\ seen'[d][k] = seen[d][k])
    BY <2>3 DEF Put
  <2>6. \A k \in DOMAIN seen[d] : k # <<e, id>> => k \in DOMAIN seen'[d] /\ seen'[d][k] = seen[d][k]
    BY <2>3 DEF Put
  <2>7. \A c \in Talker : \A k \in DOMAIN seen'[c] : seen'[c][k] \in Nat
    BY <1>1, <2>2, <2>3, <2>4, <2>5
  <2>8. \A c \in Talker : \A k \in DOMAIN seen[c] :
              c # d \/ k # <<e, id>> => k \in DOMAIN seen'[c] /\ seen'[c][k] = seen[c][k]
    BY <2>3, <2>6
  <2> QED BY <1>3, <2>3, <2>4, <2>7, <2>8
<1> QED BY <1>2, <1>3

\* The call of d ends, whoever ends it: perhaps it says so, and remembers it.
LEMMA OverKeeps ==
  ASSUME CallInv, NEW d \in Talker, call[d] # NoCall, CallOver(d),
         UNCHANGED <<clock, nextCall, agreed, asked>>, flooded \subseteq flooded',
         orders' \in [Talker -> SUBSET Id], \A c \in Talker \ {d} : orders'[c] = orders[c],
         \A n \in signals' : n \in signals \/ n = Signal(d, call[d].peer, call[d].id, "end"),
         seen' = [c \in Talker |-> seen'[c]],
         \A c \in Talker : \A k \in DOMAIN seen'[c] : seen'[c][k] \in Nat,
         \A c \in Talker : \A k \in DOMAIN seen[c] :
           c # d \/ k # <<call[d].peer, call[d].id>> => k \in DOMAIN seen'[c] /\ seen'[c][k] = seen[c][k]
  PROVE  CallInv'
<1>1. /\ call[d] \in ActiveCall(d) /\ call[d].id \in Id /\ call[d].id \in 1 .. nextCall - 1
      /\ call[d].peer \in Talker /\ call[d].peer # d /\ Time(d) + Ttl \in Nat
  BY CallNumbers DEF CallInv, CallTypes, ActiveCall
<1>2. /\ call' = [c \in Talker |-> call'[c]] /\ call'[d] = NoCall
      /\ \A c \in Talker \ {d} : call'[c] = call[c]
  BY DEF CallOver, CallInv, CallTypes
<1>3. /\ endings' \in [Talker -> [Id -> Nat]] /\ endings'[d][call[d].id] = endings[d][call[d].id] + 1
      /\ \A c \in Talker, id \in Id : c # d \/ id # call[d].id => endings'[c][id] = endings[c][id]
  <2>1. endings \in [Talker -> [Id -> Nat]] /\ endings' = [endings EXCEPT ![d][call[d].id] = @ + 1]
    BY DEF CallOver, CallInv, CallTypes
  <2> QED BY <1>1, <2>1
<1>4. /\ gone' \in [Talker -> SUBSET Id] /\ gone'[d] = gone[d] \union {call[d].id}
      /\ \A c \in Talker \ {d} : gone'[c] = gone[c]
  BY <1>1 DEF CallOver, CallInv, CallTypes
<1>n. PICK n : n = Signal(d, call[d].peer, call[d].id, "end")
  OBVIOUS
<1>5. n \in SignalType /\ n.from = d /\ n.to = call[d].peer /\ n.id = call[d].id /\ n.op = "end"
      /\ n.until = Time(d) + Ttl
  BY <1>1, <1>n DEF Signal, SignalType, Ops
<1>6. \A s \in signals' : s \in signals \/ s = n
  BY <1>n
<1>7. CallTypes'
  <2>1. \A s \in signals' : s \in SignalType /\ s.from # s.to
    BY <1>1, <1>5, <1>6, CallNumbers
  <2>2. \A c \in Talker : call'[c] # NoCall => call'[c] \in ActiveCall(c)
    BY <1>2 DEF CallInv, CallTypes
  <2>3. SignalType' = SignalType /\ \A c : ActiveCall(c)' = ActiveCall(c)
    BY DEF SignalType, ActiveCall
  <2>4. clock' \in Nat /\ nextCall' \in 1 .. MaxCall + 1 /\ asked' = [c \in Talker |-> asked'[c]]
    BY DEF CallInv, CallTypes
  <2> QED BY <1>2, <1>3, <1>4, <2>1, <2>2, <2>3, <2>4 DEF CallTypes
<1>8. Unborn'
  BY <1>1, <1>3, <1>4, CallNumbers DEF CallInv, Unborn
<1>9. OnePair'
  <2>1. Speaks(n)
    BY <1>5 DEF Speaks
  <2>2. \A c \in Talker : call'[c] # NoCall =>
          call[c] # NoCall /\ call'[c].id = call[c].id /\ call'[c].peer = call[c].peer
    BY <1>2
  <2> QED BY <1>6, <2>1, <2>2, PairKept DEF CallInv
<1>10. OffersNew'
  <2> SUFFICES ASSUME NEW s \in signals', s.op = "offer" PROVE OfferIsNew(s)'
    BY DEF OffersNew
  <2>1. s \in signals /\ OfferIsNew(s)
    BY <1>5, <1>6 DEF CallInv, OffersNew
  <2>2. /\ s.id \in Id /\ s.to \in Talker /\ s.from \in Talker /\ s.from # s.to
    BY <2>1, CallNumbers
  <2>3. s.to # d \/ s.id # call[d].id
    BY <2>1 DEF OfferIsNew
  <2>4. endings'[s.to][s.id] = 0 /\ (call'[s.to] # NoCall => call'[s.to].id # s.id)
    BY <1>2, <1>3, <2>1, <2>2, <2>3 DEF OfferIsNew
  <2>5. \A q \in signals' : q.id = s.id /\ q.op = "offer" => q = s
    BY <1>5, <1>6, <2>1 DEF OfferIsNew
  <2>6. ASSUME n.id = s.id, n.to = s.to PROVE n.until >= s.until
    <3>1. s.op \in {"offer", "accept", "end"} /\ call[d].id = s.id
      BY <1>5, <2>6
    <3>2. {s.from, s.to} = {d, call[d].peer}
      BY <2>1, <3>1, PairOfCall
    <3>3. s.from = d
      BY <1>1, <1>5, <2>2, <2>6, <3>2
    <3> QED BY <1>1, <1>5, <2>1, <3>3, CallNumbers DEF OfferIsNew
  <2>7. \A q \in signals' : q.id = s.id /\ q.op = "end" /\ q.to = s.to => q.until >= s.until
    BY <1>6, <2>1, <2>6 DEF OfferIsNew
  <2>8. s.until <= Time(s.from)' + Ttl
    BY <2>1 DEF OfferIsNew, Time
  <2>9. \A c \in Talker : \A k \in DOMAIN asked'[c] : k[2] # s.id
    BY <2>1 DEF OfferIsNew
  <2>10. s.id \in gone'[s.to] =>
       \/ s.to \in flooded'
       \/ <<s.from, s.id>> \in DOMAIN seen'[s.to] /\ seen'[s.to][<<s.from, s.id>>] >= s.until
    <3>1. s.id \in gone'[s.to] => s.id \in gone[s.to]
      BY <1>4, <2>2, <2>3
    <3>2. s.to # d \/ <<s.from, s.id>> # <<call[d].peer, call[d].id>>
      BY <2>3
    <3> QED BY <2>1, <2>2, <3>1, <3>2 DEF OfferIsNew
  <2> QED BY <2>4, <2>5, <2>7, <2>8, <2>9, <2>10 DEF OfferIsNew
<1>11. AskedNew'
  <2> SUFFICES ASSUME NEW c \in Talker, NEW k \in DOMAIN asked'[c]
               PROVE  /\ k = <<k[1], k[2]>> /\ k[2] \in 1 .. nextCall' - 1
                      /\ endings'[c][k[2]] = 0
                      /\ call'[c] # NoCall => call'[c].id # k[2]
                      /\ \A j \in DOMAIN asked'[c] : j[2] = k[2] => j = k
    BY DEF AskedNew
  <2>1. /\ k = <<k[1], k[2]>> /\ k[2] \in 1 .. nextCall - 1
        /\ endings[c][k[2]] = 0
        /\ call[c] # NoCall => call[c].id # k[2]
        /\ \A j \in DOMAIN asked'[c] : j[2] = k[2] => j = k
    BY DEF CallInv, AskedNew
  <2>2. k[2] \in Id
    BY <2>1, CallsAssumption DEF CallInv, CallTypes, Id
  <2> QED BY <1>2, <1>3, <2>1, <2>2
<1>12. EndsOnce'
  <2> SUFFICES ASSUME NEW c \in Talker
               PROVE  /\ \A id \in Id : endings'[c][id] <= 1
                      /\ call'[c] # NoCall =>
                           /\ endings'[c][call'[c].id] = 0
                           /\ call'[c].id \in gone'[c] => c \in flooded'
                           /\ call'[c].task = "dead" => call'[c].id \in orders'[c]
    BY DEF EndsOnce
  <2>1. /\ \A id \in Id : endings[c][id] <= 1
        /\ call[c] # NoCall =>
             /\ endings[c][call[c].id] = 0
             /\ call[c].id \in gone[c] => c \in flooded
             /\ call[c].task = "dead" => call[c].id \in orders[c]
    BY DEF CallInv, EndsOnce
  <2>2. CASE c = d
    BY <1>1, <1>2, <1>3, <2>1, <2>2
  <2>3. CASE c # d
    BY <1>2, <1>3, <1>4, <2>1, <2>3, CallNumbers
  <2> QED BY <2>2, <2>3
<1>13. Accepts' /\ MediaAfterConsent'
  BY <1>2, <1>5, <1>6 DEF CallInv, Accepts, MediaAfterConsent
<1> QED BY <1>7, <1>8, <1>9, <1>10, <1>11, <1>12, <1>13 DEF CallInv


LEMMA TaskEndsKeeps ==
  ASSUME CallInv, NEW d \in Talker, RingingEnds(d) \/ MediaEnds(d)
  PROVE  CallInv'
<1>1. call[d] # NoCall /\ CallOver(d)
      /\ UNCHANGED <<seen, asked, signals, orders, clock, nextCall, agreed, flooded>>
  BY DEF RingingEnds, MediaEnds, probes
<1>2. /\ orders' \in [Talker -> SUBSET Id] /\ seen' = [c \in Talker |-> seen'[c]]
      /\ \A c \in Talker : \A k \in DOMAIN seen'[c] : seen'[c][k] \in Nat
  BY <1>1 DEF CallInv, CallTypes
<1> QED BY <1>1, <1>2, OverKeeps

LEMMA ObeyKeeps ==
  ASSUME CallInv, NEW d \in Talker, NEW id \in Id, Obey(d, id)
  PROVE  CallInv'
<1>1. /\ UNCHANGED <<asked, clock, nextCall, agreed>>
      /\ orders' = [orders EXCEPT ![d] = @ \ {id}]
  BY DEF Obey, probes
<1>2. /\ orders' \in [Talker -> SUBSET Id] /\ orders'[d] = orders[d] \ {id}
      /\ \A c \in Talker \ {d} : orders'[c] = orders[c]
  BY <1>1 DEF CallInv, CallTypes
<1>3. CASE call[d] # NoCall /\ call[d].id = id
  <2>1. End(d)
    BY <1>3 DEF Obey
  <2>2. /\ CallOver(d) /\ Remember(d, call[d].peer, call[d].id) /\ flooded \subseteq flooded'
        /\ signals' = signals \union {Signal(d, call[d].peer, call[d].id, "end")}
    BY <2>1 DEF End
  <2>p. PICK e, i : e = call[d].peer /\ i = call[d].id
    OBVIOUS
  <2>r. Remember(d, e, i)
    BY <2>2, <2>p
  <2>3. /\ seen' = [c \in Talker |-> seen'[c]]
        /\ \A c \in Talker : \A k \in DOMAIN seen'[c] : seen'[c][k] \in Nat
        /\ \A c \in Talker : \A k \in DOMAIN seen[c] :
             c # d \/ k # <<e, i>> => k \in DOMAIN seen'[c] /\ seen'[c][k] = seen[c][k]
        /\ \/ Full(d) /\ seen' = seen
           \/ ~Full(d) /\ <<e, i>> \in DOMAIN seen'[d] /\ seen'[d][<<e, i>>] = Time(d) + Ttl + Slack
    BY <2>r, RememberFacts
  <2>4. \A n \in signals' : n \in signals \/ n = Signal(d, call[d].peer, call[d].id, "end")
    BY <2>2
  <2>5. UNCHANGED <<clock, nextCall, agreed, asked>>
    BY <1>1
  <2>6. CallOver(d) /\ flooded \subseteq flooded' /\ call[d] # NoCall
    BY <1>3, <2>2
  <2> QED BY <1>2, <2>p, <2>3, <2>4, <2>5, <2>6, OverKeeps
<1>4. CASE ~(call[d] # NoCall /\ call[d].id = id)
  <2>1. UNCHANGED <<call, seen, signals, endings, gone, flooded>>
    BY <1>4 DEF Obey
  <2>2. CallTypes'
    BY <1>1, <1>2, <2>1 DEF CallInv, CallTypes, ActiveCall, SignalType
  <2>3. Unborn' /\ AskedNew' /\ Accepts' /\ MediaAfterConsent'
    BY <1>1, <2>1 DEF CallInv, Unborn, AskedNew, Accepts, MediaAfterConsent
  <2>4. OnePair'
    BY <2>1 DEF CallInv, OnePair
  <2>5. OffersNew'
    BY <1>1, <2>1 DEF CallInv, OffersNew, OfferIsNew, Time
  <2>6. EndsOnce'
    BY <1>2, <1>4, <2>1 DEF CallInv, EndsOnce
  <2> QED BY <2>2, <2>3, <2>4, <2>5, <2>6 DEF CallInv
<1> QED BY <1>3, <1>4

LEMMA FinishedKeeps ==
  ASSUME CallInv, NEW s \in signals, Fresh(s.to, s), Finished(s.to, s),
         UNCHANGED <<orders, clock, nextCall, restarts>>
  PROVE  CallInv'
<1>d. PICK d \in Talker : d = s.to
  BY CallNumbers
<1>1. /\ UNCHANGED <<asked, orders, clock, nextCall, agreed>> /\ Remember(d, s.from, s.id)
      /\ flooded \subseteq flooded' /\ (Full(d) => d \in flooded') /\ signals' = signals \ {s} /\ s.op = "end"
  BY <1>d DEF Finished, probes
<1>2. /\ orders' \in [Talker -> SUBSET Id]
  BY <1>1 DEF CallInv, CallTypes
<1>3. /\ seen' = [c \in Talker |-> seen'[c]]
      /\ \A c \in Talker : \A k \in DOMAIN seen'[c] : seen'[c][k] \in Nat
      /\ \A c \in Talker : \A k \in DOMAIN seen[c] :
           c # d \/ k # <<s.from, s.id>> => k \in DOMAIN seen'[c] /\ seen'[c][k] = seen[c][k]
      /\ \/ Full(d) /\ seen' = seen
         \/ ~Full(d) /\ <<s.from, s.id>> \in DOMAIN seen'[d]
                     /\ seen'[d][<<s.from, s.id>>] = Time(d) + Ttl + Slack
  BY <1>1, RememberFacts
<1>4. CASE Mine(d, s)
  <2>1. call[d] # NoCall /\ call[d].peer = s.from /\ call[d].id = s.id
    BY <1>4 DEF Mine
  <2>2. CallOver(d)
    BY <1>d, <1>4 DEF Finished
  <2> QED BY <1>1, <1>2, <1>3, <2>1, <2>2, OverKeeps
<1>5. CASE ~Mine(d, s)
  <2>1. UNCHANGED <<call, endings>> /\ gone' = [gone EXCEPT ![d] = @ \union {s.id}]
    BY <1>d, <1>5 DEF Finished
  <2>2. /\ gone' \in [Talker -> SUBSET Id] /\ gone'[d] = gone[d] \union {s.id}
        /\ \A c \in Talker \ {d} : gone'[c] = gone[c]
    BY <2>1, CallNumbers DEF CallInv, CallTypes
  <2>3. CallTypes'
    <3>1. \A q \in signals' : q \in SignalType /\ q.from # q.to
      BY <1>1, CallNumbers
    <3>2. SignalType' = SignalType /\ \A c : ActiveCall(c)' = ActiveCall(c)
      BY <1>1 DEF SignalType, ActiveCall
    <3> QED BY <1>1, <1>3, <2>1, <2>2, <3>1, <3>2 DEF CallInv, CallTypes
  <2>4. Unborn'
    BY <1>1, <2>1, <2>2, CallNumbers DEF CallInv, Unborn
  <2>5. OnePair'
    <3>1. Speaks(s)
      BY DEF Speaks
    <3> QED BY <1>1, <2>1, <3>1, PairKept DEF CallInv
  <2>6. OffersNew'
    <3> SUFFICES ASSUME NEW o \in signals', o.op = "offer" PROVE OfferIsNew(o)'
      BY DEF OffersNew
    <3>1. o \in signals /\ OfferIsNew(o)
      BY <1>1 DEF CallInv, OffersNew
    <3>2. o.to \in Talker /\ o.from \in Talker /\ o.from # o.to /\ o.until \in Nat /\ s.until \in Nat
          /\ s.from # s.to /\ Time(d) \in Nat /\ Ttl \in Nat /\ Slack \in Nat
      BY <3>1, CallNumbers
    <3>3. o.id \in gone'[o.to] =>
            \/ o.to \in flooded'
            \/ <<o.from, o.id>> \in DOMAIN seen'[o.to] /\ seen'[o.to][<<o.from, o.id>>] >= o.until
      <4>1. CASE o.to = d /\ o.id = s.id
        <5>1. o.op \in {"offer", "accept", "end"} /\ s.op \in {"offer", "accept", "end"}
          BY <1>1
        <5>2. {o.from, o.to} = {s.from, s.to}
          BY <3>1, <4>1, <5>1, PairOfSignals
        <5>3. o.from = s.from
          BY <1>d, <3>2, <4>1, <5>2
        <5>4. s.until >= o.until
          BY <1>1, <1>d, <3>1, <4>1 DEF OfferIsNew
        <5>5. s.until <= Time(d) + Ttl + Slack
          BY <1>d DEF Fresh
        <5>6. Time(d) + Ttl + Slack >= o.until
          BY <3>2, <5>4, <5>5
        <5> QED BY <1>1, <1>3, <4>1, <5>3, <5>6
      <4>2. CASE ~(o.to = d /\ o.id = s.id)
        <5>1. o.id \in gone'[o.to] => o.id \in gone[o.to]
          BY <2>2, <3>2, <4>2
        <5>2. o.to # d \/ <<o.from, o.id>> # <<s.from, s.id>>
          BY <4>2
        <5> QED BY <1>1, <1>3, <3>1, <3>2, <5>1, <5>2 DEF OfferIsNew
      <4> QED BY <4>1, <4>2
    <3>4. o.until <= Time(o.from)' + Ttl
      BY <1>1, <3>1 DEF OfferIsNew, Time
    <3>5. \A q \in signals' : q.id = o.id /\ q.op = "offer" => q = o
      BY <1>1, <3>1 DEF OfferIsNew
    <3>6. \A q \in signals' : q.id = o.id /\ q.op = "end" /\ q.to = o.to => q.until >= o.until
      BY <1>1, <3>1 DEF OfferIsNew
    <3>7. endings'[o.to][o.id] = 0 /\ (call'[o.to] # NoCall => call'[o.to].id # o.id)
          /\ \A c \in Talker : \A k \in DOMAIN asked'[c] : k[2] # o.id
      BY <1>1, <2>1, <3>1 DEF OfferIsNew
    <3> QED BY <3>3, <3>4, <3>5, <3>6, <3>7 DEF OfferIsNew
  <2>7. AskedNew'
    BY <1>1, <2>1 DEF CallInv, AskedNew
  <2>8. EndsOnce'
    <3> SUFFICES ASSUME NEW c \in Talker
                 PROVE  /\ \A id \in Id : endings'[c][id] <= 1
                        /\ call'[c] # NoCall =>
                             /\ endings'[c][call'[c].id] = 0
                             /\ call'[c].id \in gone'[c] => c \in flooded'
                             /\ call'[c].task = "dead" => call'[c].id \in orders'[c]
      BY DEF EndsOnce
    <3>1. /\ \A id \in Id : endings[c][id] <= 1
          /\ call[c] # NoCall =>
               /\ endings[c][call[c].id] = 0
               /\ call[c].id \in gone[c] => c \in flooded
               /\ call[c].task = "dead" => call[c].id \in orders[c]
      BY DEF CallInv, EndsOnce
    <3>2. ASSUME c = d, call[d] # NoCall PROVE call[d].id # s.id
      <4> SUFFICES ASSUME call[d].id = s.id PROVE FALSE
        OBVIOUS
      <4>1. {s.from, s.to} = {d, call[d].peer}
        BY <1>1, <3>2, PairOfCall
      <4>2. call[d].peer # d
        BY <3>2 DEF CallInv, CallTypes, ActiveCall
      <4>3. call[d].peer = s.from
        BY <1>d, <4>1, <4>2, CallNumbers
      <4> QED BY <1>5, <3>2, <4>3 DEF Mine
    <3> QED BY <1>1, <2>1, <2>2, <3>1, <3>2
  <2>9. Accepts' /\ MediaAfterConsent'
    BY <1>1, <2>1 DEF CallInv, Accepts, MediaAfterConsent
  <2> QED BY <2>3, <2>4, <2>5, <2>6, <2>7, <2>8, <2>9 DEF CallInv
<1> QED BY <1>4, <1>5

-----------------------------------------------------------------------------
(* A call begins, is accepted, or is probed                                *)

LEMMA NextNumber ==
  ASSUME CallInv, nextCall' = nextCall + 1, nextCall <= MaxCall, NEW d \in Talker
  PROVE  /\ nextCall \in Nat /\ MaxCall \in Nat /\ nextCall \in Id /\ Time(d) + Ttl \in Nat
         /\ nextCall \in 1 .. nextCall' - 1 /\ nextCall' \in 1 .. MaxCall + 1
         /\ \A i \in 1 .. nextCall - 1 : i \in 1 .. nextCall' - 1 /\ i # nextCall
<1>1. MaxCall \in Nat /\ nextCall \in 1 .. MaxCall + 1
  BY CallsAssumption DEF CallInv, CallTypes
<1>2. Time(d) + Ttl \in Nat
  BY CallNumbers
<1>3. nextCall \in Nat /\ nextCall \in 1 .. MaxCall /\ nextCall' \in 1 .. MaxCall + 1
      /\ nextCall \in 1 .. nextCall' - 1
  BY <1>1
<1>4. \A i \in 1 .. nextCall - 1 : i \in 1 .. nextCall' - 1 /\ i # nextCall
  BY <1>1
<1> QED BY <1>1, <1>2, <1>3, <1>4 DEF Id

LEMMA CallStartKeeps ==
  ASSUME CallInv, NEW d \in Talker, NEW e \in Talker, CallStart(d, e)
  PROVE  CallInv'
<1>n. PICK n : n = Signal(d, e, nextCall, "offer")
  OBVIOUS
<1>c. PICK c : c = Ringing(e, nextCall, TRUE, Time(d) + Ttl)
  OBVIOUS
<1>1. /\ UNCHANGED <<seen, asked, orders, clock, endings, gone, agreed, flooded>>
      /\ nextCall' = nextCall + 1 /\ nextCall <= MaxCall /\ e # d /\ call[d] = NoCall
      /\ signals' = signals \union {n} /\ call' = [call EXCEPT ![d] = c]
  BY <1>n, <1>c DEF CallStart, probes, history
<1>2. /\ nextCall \in Nat /\ MaxCall \in Nat /\ nextCall \in Id /\ Time(d) + Ttl \in Nat
      /\ nextCall \in 1 .. nextCall' - 1 /\ nextCall' \in 1 .. MaxCall + 1
      /\ \A i \in 1 .. nextCall - 1 : i \in 1 .. nextCall' - 1 /\ i # nextCall
  BY <1>1, NextNumber
<1>3. /\ n.from = d /\ n.to = e /\ n.id = nextCall /\ n.op = "offer" /\ n.until = Time(d) + Ttl
      /\ n = [from |-> d, to |-> e, id |-> nextCall, op |-> "offer", until |-> Time(d) + Ttl]
  BY <1>n DEF Signal
<1>4. /\ c.peer = e /\ c.id = nextCall /\ c.phase = "ringing" /\ c.task = "timer"
      /\ c = [peer |-> e, id |-> nextCall, phase |-> "ringing", until |-> Time(d) + Ttl,
              task |-> "timer", active |-> FALSE]
  BY <1>c DEF Ringing
<1>5. /\ call' = [x \in Talker |-> call'[x]] /\ call'[d] = c
      /\ \A x \in Talker \ {d} : call'[x] = call[x]
  BY <1>1 DEF CallInv, CallTypes
<1>6. \A s \in signals : s.id \in 1 .. nextCall - 1 /\ s.id # nextCall
  BY <1>2, CallNumbers
<1>7. \A x \in Talker : call[x] # NoCall => call[x].id \in 1 .. nextCall - 1 /\ call[x].id # nextCall
  BY <1>2, CallNumbers
<1>8. CallTypes'
  <2>1. n \in SignalType' /\ n.from # n.to
    BY <1>1, <1>2, <1>3 DEF SignalType, Ops
  <2>2. \A s \in signals : s \in SignalType' /\ s.from # s.to
    BY <1>2, CallNumbers DEF SignalType
  <2>3. c \in ActiveCall(d)'
    BY <1>1, <1>2, <1>4 DEF ActiveCall, Phases
  <2>4. \A x \in Talker : call[x] # NoCall => call[x] \in ActiveCall(x)'
    BY <1>2 DEF CallInv, CallTypes, ActiveCall
  <2>5. \A x \in Talker : call'[x] # NoCall => call'[x] \in ActiveCall(x)'
    BY <1>5, <2>3, <2>4
  <2>6. \A s \in signals' : s \in SignalType' /\ s.from # s.to
    BY <1>1, <2>1, <2>2
  <2> QED BY <1>1, <1>2, <1>5, <2>5, <2>6 DEF CallInv, CallTypes
<1>9. Unborn'
  <2>1. \A i \in Id : i >= nextCall' => i >= nextCall
    BY <1>1, <1>2 DEF Id
  <2> QED BY <1>1, <2>1 DEF CallInv, Unborn
<1>10. OnePair'
  <2>1. ASSUME NEW s \in signals', NEW q \in signals', s.id = q.id,
               s.op \in {"offer", "accept", "end"}, q.op \in {"offer", "accept", "end"}
        PROVE  {s.from, s.to} = {q.from, q.to}
    <3>1. CASE s = n
      BY <1>1, <1>3, <1>6, <2>1, <3>1
    <3>2. CASE s \in signals
      <4>1. q \in signals
        BY <1>1, <1>3, <1>6, <2>1, <3>2
      <4> QED BY <2>1, <3>2, <4>1, PairOfSignals
    <3> QED BY <1>1, <3>1, <3>2
  <2>2. ASSUME NEW s \in signals', NEW x \in Talker, s.op \in {"offer", "accept", "end"},
               call'[x] # NoCall, call'[x].id = s.id
        PROVE  {s.from, s.to} = {x, call'[x].peer}
    <3>1. CASE s = n
      <4>1. x = d
        BY <1>3, <1>5, <1>7, <2>2, <3>1
      <4> QED BY <1>3, <1>4, <1>5, <3>1, <4>1
    <3>2. CASE s \in signals
      <4>1. x # d
        BY <1>4, <1>5, <1>6, <2>2, <3>2
      <4> QED BY <1>5, <2>2, <3>2, <4>1, PairOfCall
    <3> QED BY <1>1, <3>1, <3>2
  <2>3. ASSUME NEW x \in Talker, NEW y \in Talker, call'[x] # NoCall, call'[y] # NoCall,
               call'[x].id = call'[y].id
        PROVE  {x, call'[x].peer} = {y, call'[y].peer}
    <3>1. CASE x = d \/ y = d
      BY <1>4, <1>5, <1>7, <2>3, <3>1
    <3>2. CASE x # d /\ y # d
      BY <1>5, <2>3, <3>2 DEF CallInv, OnePair
    <3> QED BY <3>1, <3>2
  <2>4. \A s, q \in signals' :
          s.id = q.id /\ {s.op, q.op} \subseteq {"offer", "accept", "end"}
            => {s.from, s.to} = {q.from, q.to}
    BY <2>1
  <2>5. \A s \in signals', x \in Talker :
          s.op \in {"offer", "accept", "end"} /\ call'[x] # NoCall /\ call'[x].id = s.id
            => {s.from, s.to} = {x, call'[x].peer}
    BY <2>2
  <2>6. \A x, y \in Talker :
          call'[x] # NoCall /\ call'[y] # NoCall /\ call'[x].id = call'[y].id
            => {x, call'[x].peer} = {y, call'[y].peer}
    BY <2>3
  <2> QED BY <2>4, <2>5, <2>6 DEF OnePair
<1>11. OffersNew'
  <2> SUFFICES ASSUME NEW s \in signals', s.op = "offer" PROVE OfferIsNew(s)'
    BY DEF OffersNew
  <2>0. clock' = clock
    BY <1>1
  <2>1. CASE s = n
    <3>1. endings'[e][nextCall] = 0 /\ nextCall \notin gone'[e]
      BY <1>1, <1>2 DEF CallInv, Unborn
    <3>2. call'[e] # NoCall => call'[e].id # nextCall
      BY <1>1, <1>5, <1>7
    <3>3. \A q \in signals' : q.id = nextCall => q = n
      BY <1>1, <1>6
    <3>4. \A x \in Talker : \A k \in DOMAIN asked'[x] : k[2] # nextCall
      BY <1>1, <1>2 DEF CallInv, AskedNew
    <3>5. n.until <= Time(d)' + Ttl
      BY <1>2, <1>3, <2>0 DEF Time
    <3> QED BY <1>3, <2>1, <3>1, <3>2, <3>3, <3>4, <3>5 DEF OfferIsNew
  <2>2. CASE s \in signals
    <3>1. OfferIsNew(s) /\ s.id # nextCall /\ s.to \in Talker
      BY <1>6, <2>2, CallNumbers DEF CallInv, OffersNew
    <3>2. call'[s.to] # NoCall => call'[s.to].id # s.id
      BY <1>4, <1>5, <3>1 DEF OfferIsNew
    <3>3. \A q \in signals' : q.id = s.id => q \in signals
      BY <1>1, <1>3, <3>1
    <3>4. s.until <= Time(s.from)' + Ttl
      BY <2>0, <3>1 DEF OfferIsNew, Time
    <3> QED BY <1>1, <3>1, <3>2, <3>3, <3>4 DEF OfferIsNew
  <2> QED BY <1>1, <2>1, <2>2
<1>12. AskedNew'
  <2> SUFFICES ASSUME NEW x \in Talker, NEW k \in DOMAIN asked'[x]
               PROVE  /\ k = <<k[1], k[2]>> /\ k[2] \in 1 .. nextCall' - 1
                      /\ endings'[x][k[2]] = 0
                      /\ call'[x] # NoCall => call'[x].id # k[2]
                      /\ \A j \in DOMAIN asked'[x] : j[2] = k[2] => j = k
    BY DEF AskedNew
  <2>1. /\ k = <<k[1], k[2]>> /\ k[2] \in 1 .. nextCall - 1
        /\ endings'[x][k[2]] = 0
        /\ call[x] # NoCall => call[x].id # k[2]
        /\ \A j \in DOMAIN asked'[x] : j[2] = k[2] => j = k
    BY <1>1 DEF CallInv, AskedNew
  <2> QED BY <1>2, <1>4, <1>5, <2>1
<1>13. EndsOnce'
  <2> SUFFICES ASSUME NEW x \in Talker
               PROVE  /\ \A id \in Id : endings'[x][id] <= 1
                      /\ call'[x] # NoCall =>
                           /\ endings'[x][call'[x].id] = 0
                           /\ call'[x].id \in gone'[x] => x \in flooded'
                           /\ call'[x].task = "dead" => call'[x].id \in orders'[x]
    BY DEF EndsOnce
  <2>1. /\ \A id \in Id : endings[x][id] <= 1
        /\ call[x] # NoCall =>
             /\ endings[x][call[x].id] = 0
             /\ call[x].id \in gone[x] => x \in flooded
             /\ call[x].task = "dead" => call[x].id \in orders[x]
    BY DEF CallInv, EndsOnce
  <2>2. endings'[x][nextCall] = 0 /\ nextCall \notin gone'[x]
    BY <1>1, <1>2 DEF CallInv, Unborn
  <2> QED BY <1>1, <1>4, <1>5, <2>1, <2>2
<1>14. Accepts' /\ MediaAfterConsent'
  BY <1>1, <1>3, <1>4, <1>5 DEF CallInv, Accepts, MediaAfterConsent
<1> QED BY <1>8, <1>9, <1>10, <1>11, <1>12, <1>13, <1>14 DEF CallInv

LEMMA CallAcceptKeeps ==
  ASSUME CallInv, NEW d \in Talker, CallAccept(d)
  PROVE  CallInv'
<1>n. PICK n : n = Signal(d, call[d].peer, call[d].id, "accept")
  OBVIOUS
<1>1. /\ UNCHANGED <<seen, asked, orders, clock, nextCall, endings, gone, flooded>>
      /\ call[d] # NoCall /\ call' = [call EXCEPT ![d] = Connecting(call[d])]
      /\ signals' = signals \union {n} /\ agreed' = agreed \union {call[d].id}
  BY <1>n DEF CallAccept, probes
<1>2. /\ call[d] \in ActiveCall(d) /\ call[d].id \in Id /\ call[d].id \in 1 .. nextCall - 1
      /\ call[d].peer \in Talker /\ call[d].peer # d /\ Time(d) + Ttl \in Nat
  BY <1>1, CallNumbers DEF CallInv, CallTypes, ActiveCall
<1>3. n \in SignalType /\ n.from = d /\ n.to = call[d].peer /\ n.id = call[d].id /\ n.op = "accept"
  BY <1>2, <1>n DEF Signal, SignalType, Ops
<1>4. /\ call' = [x \in Talker |-> call'[x]] /\ call'[d] = Connecting(call[d])
      /\ \A x \in Talker \ {d} : call'[x] = call[x]
  BY <1>1 DEF CallInv, CallTypes
<1>5. /\ call'[d] \in ActiveCall(d) /\ call'[d].id = call[d].id /\ call'[d].peer = call[d].peer
      /\ call'[d].task = "media"
  BY <1>2, <1>4 DEF Connecting, ActiveCall, Phases
<1>6. \A x \in Talker : call'[x] # NoCall =>
        call[x] # NoCall /\ call'[x].id = call[x].id /\ call'[x].peer = call[x].peer
  BY <1>1, <1>4, <1>5
<1>7. CallTypes'
  <2>1. SignalType' = SignalType /\ \A x : ActiveCall(x)' = ActiveCall(x)
    BY <1>1 DEF SignalType, ActiveCall
  <2>2. \A s \in signals' : s \in SignalType /\ s.from # s.to
    BY <1>1, <1>2, <1>3, CallNumbers
  <2>3. \A x \in Talker : call'[x] # NoCall => call'[x] \in ActiveCall(x)
    BY <1>4, <1>5 DEF CallInv, CallTypes
  <2> QED BY <1>1, <1>4, <2>1, <2>2, <2>3 DEF CallInv, CallTypes
<1>8. Unborn'
  BY <1>1 DEF CallInv, Unborn
<1>9. OnePair'
  <2>1. Speaks(n)
    BY <1>1, <1>3 DEF Speaks
  <2> QED BY <1>1, <1>6, <2>1, PairKept DEF CallInv
<1>10. OffersNew'
  <2> SUFFICES ASSUME NEW s \in signals', s.op = "offer" PROVE OfferIsNew(s)'
    BY DEF OffersNew
  <2>1. s \in signals /\ OfferIsNew(s) /\ s.to \in Talker
    BY <1>1, <1>3, CallNumbers DEF CallInv, OffersNew
  <2>2. call'[s.to] # NoCall => call'[s.to].id # s.id
    BY <1>6, <2>1 DEF OfferIsNew
  <2>3. \A q \in signals' : q.op \in {"offer", "end"} => q \in signals
    BY <1>1, <1>3
  <2>4. s.until <= Time(s.from)' + Ttl
    BY <1>1, <2>1 DEF OfferIsNew, Time
  <2>5. \A q \in signals' : q.id = s.id /\ q.op = "offer" => q = s
    BY <2>1, <2>3 DEF OfferIsNew
  <2>6. \A q \in signals' : q.id = s.id /\ q.op = "end" /\ q.to = s.to => q.until >= s.until
    BY <2>1, <2>3 DEF OfferIsNew
  <2> QED BY <1>1, <2>1, <2>2, <2>4, <2>5, <2>6 DEF OfferIsNew
<1>11. AskedNew'
  BY <1>1, <1>6 DEF CallInv, AskedNew
<1>12. EndsOnce'
  BY <1>1, <1>4, <1>5, <1>6 DEF CallInv, EndsOnce
<1>13. Accepts' /\ MediaAfterConsent'
  BY <1>1, <1>3, <1>4, <1>5 DEF CallInv, Accepts, MediaAfterConsent
<1> QED BY <1>7, <1>8, <1>9, <1>10, <1>11, <1>12, <1>13 DEF CallInv


LEMMA CallProbeKeeps ==
  ASSUME CallInv, NEW d \in Talker, NEW e \in Talker, CallProbe(d, e)
  PROVE  CallInv'
<1>n. PICK n : n = Signal(d, e, nextCall, "probe")
  OBVIOUS
<1>k. PICK key : key = <<e, nextCall>>
  OBVIOUS
<1>1. /\ UNCHANGED <<call, seen, orders, clock, endings, gone, agreed, flooded>>
      /\ nextCall' = nextCall + 1 /\ nextCall <= MaxCall /\ e # d
      /\ signals' = signals \union {n}
      /\ asked' = [asked EXCEPT ![d] = Put(asked[d], key, Time(d) + Ttl)]
  BY <1>n, <1>k DEF CallProbe, history
<1>2. /\ nextCall \in Nat /\ MaxCall \in Nat /\ nextCall \in Id /\ Time(d) + Ttl \in Nat
      /\ nextCall \in 1 .. nextCall' - 1 /\ nextCall' \in 1 .. MaxCall + 1
      /\ \A i \in 1 .. nextCall - 1 : i \in 1 .. nextCall' - 1 /\ i # nextCall
  BY <1>1, NextNumber
<1>3. /\ n.from = d /\ n.to = e /\ n.id = nextCall /\ n.op = "probe"
      /\ n = [from |-> d, to |-> e, id |-> nextCall, op |-> "probe", until |-> Time(d) + Ttl]
  BY <1>n DEF Signal
<1>4. /\ asked' = [x \in Talker |-> asked'[x]] /\ DOMAIN asked'[d] = DOMAIN asked[d] \union {key}
      /\ \A x \in Talker \ {d} : asked'[x] = asked[x]
  <2>1. asked = [x \in Talker |-> asked[x]]
    BY DEF CallInv, CallTypes
  <2>2. /\ asked' = [x \in Talker |-> asked'[x]] /\ asked'[d] = Put(asked[d], key, Time(d) + Ttl)
        /\ \A x \in Talker \ {d} : asked'[x] = asked[x]
    BY <1>1, <2>1
  <2>3. DOMAIN asked'[d] = DOMAIN asked[d] \union {key}
    BY <2>2 DEF Put
  <2> QED BY <2>2, <2>3
<1>5. \A x \in Talker : \A k \in DOMAIN asked'[x] : k \in DOMAIN asked[x] \/ (x = d /\ k = key)
  BY <1>4
<1>6. key[2] = nextCall /\ key = <<key[1], key[2]>>
  BY <1>k
<1>7. \A s \in signals : s.id \in 1 .. nextCall - 1 /\ s.id # nextCall
  BY <1>2, CallNumbers
<1>8. CallTypes'
  <2>1. n \in SignalType' /\ n.from # n.to
    BY <1>1, <1>2, <1>3 DEF SignalType, Ops
  <2>2. \A s \in signals : s \in SignalType' /\ s.from # s.to
    BY <1>2, CallNumbers DEF SignalType
  <2>3. \A x \in Talker : call'[x] # NoCall => call'[x] \in ActiveCall(x)'
    BY <1>1, <1>2 DEF CallInv, CallTypes, ActiveCall
  <2>4. \A s \in signals' : s \in SignalType' /\ s.from # s.to
    BY <1>1, <2>1, <2>2
  <2> QED BY <1>1, <1>2, <1>4, <2>3, <2>4 DEF CallInv, CallTypes
<1>9. Unborn'
  <2>1. \A i \in Id : i >= nextCall' => i >= nextCall
    BY <1>1, <1>2 DEF Id
  <2> QED BY <1>1, <2>1 DEF CallInv, Unborn
<1>10. OnePair'
  <2>1. Speaks(n)
    BY <1>3 DEF Speaks
  <2> QED BY <1>1, <2>1, PairKept DEF CallInv
<1>11. OffersNew'
  <2> SUFFICES ASSUME NEW s \in signals', s.op = "offer" PROVE OfferIsNew(s)'
    BY DEF OffersNew
  <2>1. s \in signals /\ OfferIsNew(s) /\ s.id # nextCall
    BY <1>1, <1>3, <1>7 DEF CallInv, OffersNew
  <2>2. \A x \in Talker : \A k \in DOMAIN asked'[x] : k[2] # s.id
    BY <1>5, <1>6, <2>1 DEF OfferIsNew
  <2>3. \A q \in signals' : q.op \in {"offer", "end"} => q \in signals
    BY <1>1, <1>3
  <2>4. s.until <= Time(s.from)' + Ttl
    BY <1>1, <2>1 DEF OfferIsNew, Time
  <2>5. \A q \in signals' : q.id = s.id /\ q.op = "offer" => q = s
    BY <2>1, <2>3 DEF OfferIsNew
  <2>6. \A q \in signals' : q.id = s.id /\ q.op = "end" /\ q.to = s.to => q.until >= s.until
    BY <2>1, <2>3 DEF OfferIsNew
  <2> QED BY <1>1, <2>1, <2>2, <2>4, <2>5, <2>6 DEF OfferIsNew
<1>12. AskedNew'
  <2> SUFFICES ASSUME NEW x \in Talker, NEW k \in DOMAIN asked'[x]
               PROVE  /\ k = <<k[1], k[2]>> /\ k[2] \in 1 .. nextCall' - 1
                      /\ endings'[x][k[2]] = 0
                      /\ call'[x] # NoCall => call'[x].id # k[2]
                      /\ \A j \in DOMAIN asked'[x] : j[2] = k[2] => j = k
    BY DEF AskedNew
  <2>1. \A j \in DOMAIN asked[x] :
        /\ j = <<j[1], j[2]>> /\ j[2] \in 1 .. nextCall - 1
        /\ endings'[x][j[2]] = 0
        /\ call'[x] # NoCall => call'[x].id # j[2]
        /\ \A i \in DOMAIN asked[x] : i[2] = j[2] => i = j
    BY <1>1 DEF CallInv, AskedNew
  <2>2. CASE k \in DOMAIN asked[x]
    <3>1. \A j \in DOMAIN asked'[x] : j[2] = k[2] => j \in DOMAIN asked[x]
      BY <1>2, <1>5, <1>6, <2>1, <2>2
    <3> QED BY <1>2, <2>1, <2>2, <3>1
  <2>3. CASE x = d /\ k = key
    <3>1. endings'[x][nextCall] = 0
      BY <1>1, <1>2 DEF CallInv, Unborn
    <3>2. call'[x] # NoCall => call'[x].id # nextCall
      BY <1>1, <1>2, CallNumbers
    <3>3. \A j \in DOMAIN asked'[x] : j[2] = nextCall => j = key
      BY <1>2, <1>5, <2>1
    <3> QED BY <1>2, <1>6, <2>3, <3>1, <3>2, <3>3
  <2> QED BY <1>5, <2>2, <2>3
<1>13. EndsOnce'
  BY <1>1 DEF CallInv, EndsOnce
<1>14. Accepts' /\ MediaAfterConsent'
  BY <1>1, <1>3 DEF CallInv, Accepts, MediaAfterConsent
<1> QED BY <1>8, <1>9, <1>10, <1>11, <1>12, <1>13, <1>14 DEF CallInv

LEMMA RestartKeeps ==
  ASSUME CallInv, NEW d \in Talker, EngineRestart(d)
  PROVE  CallInv'
<1>1. /\ UNCHANGED <<signals, clock, nextCall, agreed, flooded>>
      /\ call' = [call EXCEPT ![d] = NoCall]
      /\ seen' = [seen EXCEPT ![d] = << >>] /\ asked' = [asked EXCEPT ![d] = << >>]
      /\ orders' = [orders EXCEPT ![d] = {}]
      /\ endings' = [endings EXCEPT ![d] = [i \in Id |-> 0]] /\ gone' = [gone EXCEPT ![d] = {}]
  BY DEF EngineRestart
<1>2. /\ call = [x \in Talker |-> call[x]] /\ seen = [x \in Talker |-> seen[x]]
      /\ asked = [x \in Talker |-> asked[x]] /\ orders \in [Talker -> SUBSET Id]
      /\ endings \in [Talker -> [Id -> Nat]] /\ gone \in [Talker -> SUBSET Id]
  BY DEF CallInv, CallTypes
<1>3. /\ call' = [x \in Talker |-> call'[x]] /\ call'[d] = NoCall
      /\ \A x \in Talker \ {d} : call'[x] = call[x]
  BY <1>1, <1>2
<1>4. DOMAIN << >> = {}
  OBVIOUS
<1>5. /\ seen' = [x \in Talker |-> seen'[x]] /\ seen'[d] = << >> /\ DOMAIN seen'[d] = {}
      /\ \A x \in Talker \ {d} : seen'[x] = seen[x]
  BY <1>1, <1>2, <1>4
<1>6. /\ asked' = [x \in Talker |-> asked'[x]] /\ asked'[d] = << >> /\ DOMAIN asked'[d] = {}
      /\ \A x \in Talker \ {d} : asked'[x] = asked[x]
  BY <1>1, <1>2, <1>4
<1>7. /\ endings' \in [Talker -> [Id -> Nat]] /\ (\A i \in Id : endings'[d][i] = 0)
      /\ \A x \in Talker \ {d} : endings'[x] = endings[x]
  BY <1>1, <1>2
<1>8. /\ gone' \in [Talker -> SUBSET Id] /\ gone'[d] = {}
      /\ \A x \in Talker \ {d} : gone'[x] = gone[x]
  BY <1>1, <1>2
<1>9. /\ orders' \in [Talker -> SUBSET Id] /\ \A x \in Talker \ {d} : orders'[x] = orders[x]
  BY <1>1, <1>2
<1>10. CallTypes'
  <2>1. SignalType' = SignalType /\ \A x : ActiveCall(x)' = ActiveCall(x)
    BY <1>1 DEF SignalType, ActiveCall
  <2>2. \A x \in Talker : call'[x] # NoCall => call'[x] \in ActiveCall(x)
    BY <1>3 DEF CallInv, CallTypes
  <2>3. \A x \in Talker : \A k \in DOMAIN seen'[x] : seen'[x][k] \in Nat
    BY <1>5 DEF CallInv, CallTypes
  <2> QED BY <1>1, <1>3, <1>5, <1>6, <1>7, <1>8, <1>9, <2>1, <2>2, <2>3 DEF CallInv, CallTypes
<1>11. Unborn'
  BY <1>1, <1>7, <1>8 DEF CallInv, Unborn
<1>12. OnePair'
  <2>1. Speaks([op |-> "none"])
    BY DEF Speaks
  <2>2. \A x \in Talker : call'[x] # NoCall =>
          call[x] # NoCall /\ call'[x].id = call[x].id /\ call'[x].peer = call[x].peer
    BY <1>3
  <2> QED BY <1>1, <2>1, <2>2, PairKept DEF CallInv
<1>13. OffersNew'
  <2> SUFFICES ASSUME NEW s \in signals', s.op = "offer" PROVE OfferIsNew(s)'
    BY DEF OffersNew
  <2>1. s \in signals /\ OfferIsNew(s) /\ s.to \in Talker /\ s.id \in Id
    BY <1>1, CallNumbers DEF CallInv, OffersNew
  <2>2. endings'[s.to][s.id] = 0 /\ (call'[s.to] # NoCall => call'[s.to].id # s.id)
    BY <1>3, <1>7, <2>1 DEF OfferIsNew
  <2>3. s.until <= Time(s.from)' + Ttl
    BY <1>1, <2>1 DEF OfferIsNew, Time
  <2>4. \A x \in Talker : \A k \in DOMAIN asked'[x] : k[2] # s.id
    BY <1>6, <2>1 DEF OfferIsNew
  <2>5. s.id \in gone'[s.to] =>
       \/ s.to \in flooded'
       \/ <<s.from, s.id>> \in DOMAIN seen'[s.to] /\ seen'[s.to][<<s.from, s.id>>] >= s.until
    <3>1. CASE s.to = d
      BY <1>8, <3>1
    <3>2. CASE s.to # d
      BY <1>1, <1>5, <1>8, <2>1, <3>2 DEF OfferIsNew
    <3> QED BY <3>1, <3>2
  <2>6. \A q \in signals' : q.id = s.id /\ q.op = "offer" => q = s
    BY <1>1, <2>1 DEF OfferIsNew
  <2>7. \A q \in signals' : q.id = s.id /\ q.op = "end" /\ q.to = s.to => q.until >= s.until
    BY <1>1, <2>1 DEF OfferIsNew
  <2> QED BY <2>2, <2>3, <2>4, <2>5, <2>6, <2>7 DEF OfferIsNew
<1>14. AskedNew'
  BY <1>1, <1>3, <1>6, <1>7 DEF CallInv, AskedNew
<1>15. EndsOnce'
  <2> SUFFICES ASSUME NEW x \in Talker
               PROVE  /\ \A id \in Id : endings'[x][id] <= 1
                      /\ call'[x] # NoCall =>
                           /\ endings'[x][call'[x].id] = 0
                           /\ call'[x].id \in gone'[x] => x \in flooded'
                           /\ call'[x].task = "dead" => call'[x].id \in orders'[x]
    BY DEF EndsOnce
  <2>1. CASE x = d
    BY <1>3, <1>7, <2>1
  <2>2. CASE x # d
    BY <1>1, <1>3, <1>7, <1>8, <1>9, <2>2 DEF CallInv, EndsOnce
  <2> QED BY <2>1, <2>2
<1>16. Accepts' /\ MediaAfterConsent'
  BY <1>1, <1>3 DEF CallInv, Accepts, MediaAfterConsent
<1> QED BY <1>10, <1>11, <1>12, <1>13, <1>14, <1>15, <1>16 DEF CallInv


-----------------------------------------------------------------------------
(* An offer, a probe or its answer arrives                                 *)

\* The offer is answered by Busy, and remembered.
LEMMA BusyKeeps ==
  ASSUME CallInv, NEW s \in signals, s.op = "offer", NEW d, d = s.to,
         Remember(d, s.from, s.id),
         signals' = (signals \ {s}) \union {Signal(d, s.from, s.id, "end")},
         UNCHANGED <<call, asked, orders, clock, nextCall, endings, gone, agreed, flooded>>
  PROVE  CallInv'
<1>n. PICK n : n = Signal(d, s.from, s.id, "end")
  OBVIOUS
<1>0. d \in Talker /\ s.from \in Talker /\ s.from # d /\ s.id \in 1 .. nextCall - 1 /\ Time(d) + Ttl \in Nat
  BY CallNumbers
<1>1. n \in SignalType /\ n.from = d /\ n.to = s.from /\ n.id = s.id /\ n.op = "end"
  BY <1>0, <1>n DEF Signal, SignalType, Ops
<1>2. \A q \in signals' : (q \in signals /\ q # s) \/ q = n
  BY <1>n
<1>3. /\ seen' = [c \in Talker |-> seen'[c]]
      /\ \A c \in Talker : \A k \in DOMAIN seen'[c] : seen'[c][k] \in Nat
      /\ \A c \in Talker : \A k \in DOMAIN seen[c] :
           c # d \/ k # <<s.from, s.id>> => k \in DOMAIN seen'[c] /\ seen'[c][k] = seen[c][k]
      /\ \/ Full(d) /\ seen' = seen
         \/ ~Full(d) /\ <<s.from, s.id>> \in DOMAIN seen'[d]
                     /\ seen'[d][<<s.from, s.id>>] = Time(d) + Ttl + Slack
  BY <1>0, RememberFacts
<1>4. CallTypes'
  <2>1. SignalType' = SignalType /\ \A x : ActiveCall(x)' = ActiveCall(x)
    BY DEF SignalType, ActiveCall
  <2>2. \A q \in signals' : q \in SignalType /\ q.from # q.to
    BY <1>0, <1>1, <1>2, CallNumbers
  <2> QED BY <1>3, <2>1, <2>2 DEF CallInv, CallTypes
<1>5. Unborn' /\ AskedNew' /\ EndsOnce'
  BY DEF CallInv, Unborn, AskedNew, EndsOnce
<1>6. OnePair'
  <2>1. {n.from, n.to} = {s.from, s.to}
    BY <1>1
  <2>2. Speaks(n)
    BY <1>1, <2>1 DEF Speaks
  <2> QED BY <1>2, <2>2, PairKept DEF CallInv
<1>7. OffersNew'
  <2> SUFFICES ASSUME NEW o \in signals', o.op = "offer" PROVE OfferIsNew(o)'
    BY DEF OffersNew
  <2>1. o \in signals /\ o # s /\ OfferIsNew(o) /\ o.to \in Talker
    BY <1>1, <1>2, CallNumbers DEF CallInv, OffersNew
  <2>2. o.id # s.id
    BY <2>1 DEF OfferIsNew
  <2>3. \A q \in signals' : q.id = o.id => q \in signals
    BY <1>1, <1>2, <2>2
  <2>4. o.until <= Time(o.from)' + Ttl
    BY <2>1 DEF OfferIsNew, Time
  <2>5. <<o.from, o.id>> # <<s.from, s.id>>
    BY <2>2
  <2>6. o.id \in gone'[o.to] =>
       \/ o.to \in flooded'
       \/ <<o.from, o.id>> \in DOMAIN seen'[o.to] /\ seen'[o.to][<<o.from, o.id>>] >= o.until
    BY <1>3, <2>1, <2>5 DEF OfferIsNew
  <2>7. \A q \in signals' : q.id = o.id /\ q.op = "offer" => q = o
    BY <2>1, <2>3 DEF OfferIsNew
  <2>8. \A q \in signals' : q.id = o.id /\ q.op = "end" /\ q.to = o.to => q.until >= o.until
    BY <2>1, <2>3 DEF OfferIsNew
  <2> QED BY <2>1, <2>4, <2>6, <2>7, <2>8 DEF OfferIsNew
<1>8. Accepts' /\ MediaAfterConsent'
  BY <1>1, <1>2 DEF CallInv, Accepts, MediaAfterConsent
<1> QED BY <1>4, <1>5, <1>6, <1>7, <1>8 DEF CallInv

\* The offer rings: its call was not known to be over, or it would be remembered.
LEMMA RingKeeps ==
  ASSUME CallInv, NEW s \in signals, s.op = "offer", NEW d, d = s.to, call[d] = NoCall,
         <<s.from, s.id>> \notin DOMAIN seen[d],
         Remember(d, s.from, s.id), signals' = signals \ {s},
         call' = [call EXCEPT ![d] = Ringing(s.from, s.id, FALSE, s.until)],
         UNCHANGED <<asked, orders, clock, nextCall, endings, gone, agreed, flooded>>
  PROVE  CallInv'
<1>c. PICK c : c = Ringing(s.from, s.id, FALSE, s.until)
  OBVIOUS
<1>0. /\ d \in Talker /\ s.from \in Talker /\ s.from # d /\ s.id \in 1 .. nextCall - 1 /\ s.until \in Nat
      /\ s.id \in Id /\ OfferIsNew(s)
  BY CallNumbers DEF CallInv, OffersNew
<1>1. /\ c.peer = s.from /\ c.id = s.id /\ c.phase = "incoming" /\ c.task = "timer"
      /\ c \in ActiveCall(d)
  BY <1>0, <1>c DEF Ringing, ActiveCall, Phases
<1>2. /\ call' = [x \in Talker |-> call'[x]] /\ call'[d] = c
      /\ \A x \in Talker \ {d} : call'[x] = call[x]
  BY <1>0, <1>c DEF CallInv, CallTypes
<1>3. /\ seen' = [x \in Talker |-> seen'[x]]
      /\ \A x \in Talker : \A k \in DOMAIN seen'[x] : seen'[x][k] \in Nat
      /\ \A x \in Talker : \A k \in DOMAIN seen[x] :
           x # d \/ k # <<s.from, s.id>> => k \in DOMAIN seen'[x] /\ seen'[x][k] = seen[x][k]
      /\ \/ Full(d) /\ seen' = seen
         \/ ~Full(d) /\ <<s.from, s.id>> \in DOMAIN seen'[d]
                     /\ seen'[d][<<s.from, s.id>>] = Time(d) + Ttl + Slack
  BY <1>0, RememberFacts
<1>4. CallTypes'
  <2>1. SignalType' = SignalType /\ \A x : ActiveCall(x)' = ActiveCall(x)
    BY DEF SignalType, ActiveCall
  <2>2. \A x \in Talker : call'[x] # NoCall => call'[x] \in ActiveCall(x)
    BY <1>1, <1>2 DEF CallInv, CallTypes
  <2> QED BY <1>2, <1>3, <2>1, <2>2 DEF CallInv, CallTypes
<1>5. Unborn'
  BY DEF CallInv, Unborn
<1>6. OnePair'
  <2>1. \A p, q \in signals' :
          p.id = q.id /\ {p.op, q.op} \subseteq {"offer", "accept", "end"}
            => {p.from, p.to} = {q.from, q.to}
    BY DEF CallInv, OnePair
  <2>2. ASSUME NEW p \in signals', NEW x \in Talker, p.op \in {"offer", "accept", "end"},
               call'[x] # NoCall, call'[x].id = p.id
        PROVE  {p.from, p.to} = {x, call'[x].peer}
    <3>0. p \in signals
      OBVIOUS
    <3>1. CASE x = d
      <4>1. s.op \in {"offer", "accept", "end"} /\ p.id = s.id
        BY <1>1, <1>2, <2>2, <3>1
      <4>2. {p.from, p.to} = {s.from, s.to}
        BY <2>2, <3>0, <4>1, PairOfSignals
      <4> QED BY <1>1, <1>2, <3>1, <4>2
    <3>2. CASE x # d
      BY <1>2, <2>2, <3>0, <3>2, PairOfCall
    <3> QED BY <3>1, <3>2
  <2>3. ASSUME NEW x \in Talker, call[x] # NoCall, call[x].id = s.id
        PROVE  {x, call[x].peer} = {d, s.from}
    <3>1. s.op \in {"offer", "accept", "end"}
      OBVIOUS
    <3>2. {s.from, s.to} = {x, call[x].peer}
      BY <2>3, <3>1, PairOfCall
    <3> QED BY <3>2
  <2>4. ASSUME NEW x \in Talker, NEW y \in Talker, call'[x] # NoCall, call'[y] # NoCall,
               call'[x].id = call'[y].id
        PROVE  {x, call'[x].peer} = {y, call'[y].peer}
    <3>1. CASE x = d /\ y = d
      BY <3>1
    <3>2. CASE x = d /\ y # d
      <4>1. call'[y] = call[y] /\ call[y] # NoCall /\ call[y].id = s.id
        BY <1>1, <1>2, <2>4, <3>2
      <4>2. {y, call[y].peer} = {d, s.from}
        BY <2>3, <4>1
      <4> QED BY <1>1, <1>2, <3>2, <4>1, <4>2
    <3>3. CASE x # d /\ y = d
      <4>1. call'[x] = call[x] /\ call[x] # NoCall /\ call[x].id = s.id
        BY <1>1, <1>2, <2>4, <3>3
      <4>2. {x, call[x].peer} = {d, s.from}
        BY <2>3, <4>1
      <4> QED BY <1>1, <1>2, <3>3, <4>1, <4>2
    <3>4. CASE x # d /\ y # d
      BY <1>2, <2>4, <3>4 DEF CallInv, OnePair
    <3> QED BY <3>1, <3>2, <3>3, <3>4
  <2>5. \A p \in signals', x \in Talker :
          p.op \in {"offer", "accept", "end"} /\ call'[x] # NoCall /\ call'[x].id = p.id
            => {p.from, p.to} = {x, call'[x].peer}
    BY <2>2
  <2>6. \A x, y \in Talker :
          call'[x] # NoCall /\ call'[y] # NoCall /\ call'[x].id = call'[y].id
            => {x, call'[x].peer} = {y, call'[y].peer}
    BY <2>4
  <2> QED BY <2>1, <2>5, <2>6 DEF OnePair
<1>7. OffersNew'
  <2> SUFFICES ASSUME NEW o \in signals', o.op = "offer" PROVE OfferIsNew(o)'
    BY DEF OffersNew
  <2>1. o \in signals /\ o # s /\ OfferIsNew(o) /\ o.to \in Talker
    BY CallNumbers DEF CallInv, OffersNew
  <2>2. o.id # s.id
    BY <2>1 DEF OfferIsNew
  <2>3. call'[o.to] # NoCall => call'[o.to].id # o.id
    BY <1>1, <1>2, <2>1, <2>2 DEF OfferIsNew
  <2>4. o.until <= Time(o.from)' + Ttl
    BY <2>1 DEF OfferIsNew, Time
  <2>5. <<o.from, o.id>> # <<s.from, s.id>>
    BY <2>2
  <2>6. o.id \in gone'[o.to] =>
       \/ o.to \in flooded'
       \/ <<o.from, o.id>> \in DOMAIN seen'[o.to] /\ seen'[o.to][<<o.from, o.id>>] >= o.until
    BY <1>3, <2>1, <2>5 DEF OfferIsNew
  <2>7. \A q \in signals' : q.id = o.id /\ q.op = "offer" => q = o
    BY <2>1 DEF OfferIsNew
  <2>8. \A q \in signals' : q.id = o.id /\ q.op = "end" /\ q.to = o.to => q.until >= o.until
    BY <2>1 DEF OfferIsNew
  <2> QED BY <2>1, <2>3, <2>4, <2>6, <2>7, <2>8 DEF OfferIsNew
<1>8. AskedNew'
  <2> SUFFICES ASSUME NEW x \in Talker, NEW k \in DOMAIN asked[x]
               PROVE  /\ k = <<k[1], k[2]>> /\ k[2] \in 1 .. nextCall - 1
                      /\ endings[x][k[2]] = 0
                      /\ call'[x] # NoCall => call'[x].id # k[2]
                      /\ \A j \in DOMAIN asked[x] : j[2] = k[2] => j = k
    BY DEF AskedNew
  <2>1. /\ k = <<k[1], k[2]>> /\ k[2] \in 1 .. nextCall - 1
        /\ endings[x][k[2]] = 0
        /\ call[x] # NoCall => call[x].id # k[2]
        /\ \A j \in DOMAIN asked[x] : j[2] = k[2] => j = k
    BY DEF CallInv, AskedNew
  <2>2. k[2] # s.id
    BY <1>0 DEF OfferIsNew
  <2> QED BY <1>1, <1>2, <2>1, <2>2
<1>9. EndsOnce'
  <2> SUFFICES ASSUME NEW x \in Talker
               PROVE  /\ \A id \in Id : endings[x][id] <= 1
                      /\ call'[x] # NoCall =>
                           /\ endings[x][call'[x].id] = 0
                           /\ call'[x].id \in gone[x] => x \in flooded
                           /\ call'[x].task = "dead" => call'[x].id \in orders[x]
    BY DEF EndsOnce
  <2>1. /\ \A id \in Id : endings[x][id] <= 1
        /\ call[x] # NoCall =>
             /\ endings[x][call[x].id] = 0
             /\ call[x].id \in gone[x] => x \in flooded
             /\ call[x].task = "dead" => call[x].id \in orders[x]
    BY DEF CallInv, EndsOnce
  <2>2. endings[d][s.id] = 0 /\ (s.id \in gone[d] => d \in flooded)
    BY <1>0 DEF OfferIsNew
  <2>3. CASE x = d
    BY <1>1, <1>2, <2>1, <2>2, <2>3
  <2>4. CASE x # d
    BY <1>2, <2>1, <2>4
  <2> QED BY <2>3, <2>4
<1>10. Accepts' /\ MediaAfterConsent'
  BY <1>1, <1>2 DEF CallInv, Accepts, MediaAfterConsent
<1> QED BY <1>4, <1>5, <1>6, <1>7, <1>8, <1>9, <1>10 DEF CallInv

LEMMA OfferedKeeps ==
  ASSUME CallInv, NEW s \in signals, Offered(s.to, s),
         UNCHANGED <<orders, clock, nextCall, restarts>>
  PROVE  CallInv'
<1>d. PICK d : d = s.to
  OBVIOUS
<1>1. s.op = "offer" /\ UNCHANGED <<asked, orders, clock, nextCall, endings, gone, agreed, flooded>>
  BY DEF Offered, probes, history
<1>2. CASE Full(d) \/ <<s.from, s.id>> \in DOMAIN seen[d]
  <2>1. signals' \subseteq signals /\ UNCHANGED <<call, seen>>
    BY <1>d, <1>2 DEF Offered
  <2> QED BY <1>1, <2>1, SilenceForgets, ForgetsKeeps
<1>3. CASE ~(Full(d) \/ <<s.from, s.id>> \in DOMAIN seen[d])
  <2>1. /\ Remember(d, s.from, s.id)
        /\ \/ /\ call[d] # NoCall
              /\ signals' = (signals \ {s}) \union {Signal(d, s.from, s.id, "end")}
              /\ UNCHANGED call
           \/ /\ call[d] = NoCall
              /\ call' = [call EXCEPT ![d] = Ringing(s.from, s.id, FALSE, s.until)]
              /\ signals' = signals \ {s}
    BY <1>d, <1>3 DEF Offered
  <2>2. CASE call[d] # NoCall
    BY <1>d, <1>1, <2>1, <2>2, BusyKeeps
  <2>3. CASE call[d] = NoCall
    BY <1>d, <1>1, <1>3, <2>1, <2>3, RingKeeps
  <2> QED BY <2>2, <2>3
<1> QED BY <1>2, <1>3


LEMMA ProbedKeeps ==
  ASSUME CallInv, NEW s \in signals, Probed(s.to, s),
         UNCHANGED <<orders, clock, nextCall, restarts>>
  PROVE  CallInv'
<1>n. PICK n : n = [s EXCEPT !.from = s.to, !.to = s.from, !.op = "unavailable"]
  OBVIOUS
<1>1. UNCHANGED <<call, seen, asked, orders, clock, nextCall, endings, gone, agreed, flooded>>
  BY DEF Probed, history
<1>2. \A q \in signals' : q \in signals \/ q = n
  BY <1>n DEF Probed
<1>3. n \in SignalType /\ n.from # n.to /\ n.op = "unavailable"
  <2>1. s \in SignalType /\ s.from # s.to
    BY CallNumbers
  <2> QED BY <1>n, <2>1 DEF SignalType, Ops
<1>4. CallTypes'
  <2>1. SignalType' = SignalType /\ \A x : ActiveCall(x)' = ActiveCall(x)
    BY <1>1 DEF SignalType, ActiveCall
  <2>2. \A q \in signals' : q \in SignalType /\ q.from # q.to
    BY <1>2, <1>3, CallNumbers
  <2> QED BY <1>1, <2>1, <2>2 DEF CallInv, CallTypes
<1>5. Unborn' /\ AskedNew' /\ EndsOnce'
  BY <1>1 DEF CallInv, Unborn, AskedNew, EndsOnce
<1>6. OnePair'
  <2>1. Speaks(n)
    BY <1>3 DEF Speaks
  <2> QED BY <1>1, <1>2, <2>1, PairKept DEF CallInv
<1>7. OffersNew'
  <2> SUFFICES ASSUME NEW o \in signals', o.op = "offer" PROVE OfferIsNew(o)'
    BY DEF OffersNew
  <2>1. o \in signals /\ OfferIsNew(o)
    BY <1>2, <1>3 DEF CallInv, OffersNew
  <2>2. \A q \in signals' : q.op \in {"offer", "end"} => q \in signals
    BY <1>2, <1>3
  <2>3. o.until <= Time(o.from)' + Ttl
    BY <1>1, <2>1 DEF OfferIsNew, Time
  <2>4. \A q \in signals' : q.id = o.id /\ q.op = "offer" => q = o
    BY <2>1, <2>2 DEF OfferIsNew
  <2>5. \A q \in signals' : q.id = o.id /\ q.op = "end" /\ q.to = o.to => q.until >= o.until
    BY <2>1, <2>2 DEF OfferIsNew
  <2> QED BY <1>1, <2>1, <2>3, <2>4, <2>5 DEF OfferIsNew
<1>8. Accepts' /\ MediaAfterConsent'
  BY <1>1, <1>2, <1>3 DEF CallInv, Accepts, MediaAfterConsent
<1> QED BY <1>4, <1>5, <1>6, <1>7, <1>8 DEF CallInv

LEMMA CompletedKeeps ==
  ASSUME CallInv, NEW s \in signals, Completed(s.to, s),
         UNCHANGED <<orders, clock, nextCall, restarts>>
  PROVE  CallInv'
<1>d. PICK d \in Talker : d = s.to
  BY CallNumbers
<1>k. PICK key : key = <<s.from, s.id>>
  OBVIOUS
<1>1. /\ UNCHANGED <<call, seen, orders, clock, nextCall, gone, agreed, flooded>>
      /\ asked' = [asked EXCEPT ![d] = Restrict(asked[d], DOMAIN asked[d] \ {key})]
      /\ signals' \subseteq signals
  BY <1>d, <1>k DEF Completed
<1>2. CASE key \notin DOMAIN asked[d]
  <2>1. endings' = endings
    BY <1>d, <1>k, <1>2 DEF Completed
  <2>2. asked' = [x \in Talker |-> asked'[x]] /\ \A x \in Talker : DOMAIN asked'[x] \subseteq DOMAIN asked[x]
    BY <1>1 DEF CallInv, CallTypes, Restrict
  <2>3. Forgets
    BY <1>1, <2>1, <2>2 DEF Forgets, CallInv, CallTypes
  <2> QED BY <2>3, ForgetsKeeps
<1>3. CASE key \in DOMAIN asked[d]
  <2>1. endings' = [endings EXCEPT ![d][s.id] = @ + 1]
    BY <1>d, <1>k, <1>3 DEF Completed
  <2>2. /\ s.id \in Id /\ key[2] = s.id /\ endings[d][s.id] = 0
        /\ call[d] # NoCall => call[d].id # s.id
        /\ \A j \in DOMAIN asked[d] : j[2] = s.id => j = key
    BY <1>k, <1>3, CallNumbers DEF CallInv, AskedNew
  <2>3. /\ endings' \in [Talker -> [Id -> Nat]] /\ endings'[d][s.id] = 1
        /\ \A x \in Talker, i \in Id : x # d \/ i # s.id => endings'[x][i] = endings[x][i]
    BY <2>1, <2>2 DEF CallInv, CallTypes
  <2>4. /\ asked' = [x \in Talker |-> asked'[x]] /\ DOMAIN asked'[d] = DOMAIN asked[d] \ {key}
        /\ \A x \in Talker \ {d} : asked'[x] = asked[x]
    <3>1. asked = [x \in Talker |-> asked[x]]
      BY DEF CallInv, CallTypes
    <3>2. asked'[d] = Restrict(asked[d], DOMAIN asked[d] \ {key})
          /\ asked' = [x \in Talker |-> asked'[x]] /\ \A x \in Talker \ {d} : asked'[x] = asked[x]
      BY <1>1, <3>1
    <3>3. DOMAIN asked'[d] = DOMAIN asked[d] \ {key}
      BY <3>2 DEF Restrict
    <3> QED BY <3>2, <3>3
  <2>5. \A x \in Talker : DOMAIN asked'[x] \subseteq DOMAIN asked[x]
    BY <2>4
  <2>6. CallTypes'
    <3>1. SignalType' = SignalType /\ \A x : ActiveCall(x)' = ActiveCall(x)
      BY <1>1 DEF SignalType, ActiveCall
    <3>2. \A q \in signals' : q \in SignalType /\ q.from # q.to
      BY <1>1, CallNumbers
    <3> QED BY <1>1, <2>3, <2>4, <3>1, <3>2 DEF CallInv, CallTypes
  <2>7. Unborn'
    <3>1. s.id \in 1 .. nextCall - 1 /\ nextCall \in Nat
      BY CallNumbers
    <3> QED BY <1>1, <2>3, <3>1 DEF CallInv, Unborn, Id
  <2>8. OnePair'
    <3>1. Speaks(s)
      BY DEF Speaks
    <3> QED BY <1>1, <3>1, PairKept DEF CallInv
  <2>9. OffersNew'
    <3> SUFFICES ASSUME NEW o \in signals', o.op = "offer" PROVE OfferIsNew(o)'
      BY DEF OffersNew
    <3>1. o \in signals /\ OfferIsNew(o) /\ o.to \in Talker /\ o.id \in Id
      BY <1>1, CallNumbers DEF CallInv, OffersNew
    <3>2. o.id # s.id
      BY <1>3, <2>2, <3>1 DEF OfferIsNew
    <3>3. endings'[o.to][o.id] = 0
      BY <2>3, <3>1, <3>2 DEF OfferIsNew
    <3>4. o.until <= Time(o.from)' + Ttl
      BY <1>1, <3>1 DEF OfferIsNew, Time
    <3>5. \A x \in Talker : \A k \in DOMAIN asked'[x] : k[2] # o.id
      BY <2>5, <3>1 DEF OfferIsNew
    <3>6. \A q \in signals' : q.id = o.id /\ q.op = "offer" => q = o
      BY <1>1, <3>1 DEF OfferIsNew
    <3>7. \A q \in signals' : q.id = o.id /\ q.op = "end" /\ q.to = o.to => q.until >= o.until
      BY <1>1, <3>1 DEF OfferIsNew
    <3> QED BY <1>1, <3>1, <3>3, <3>4, <3>5, <3>6, <3>7 DEF OfferIsNew
  <2>10. AskedNew'
    <3> SUFFICES ASSUME NEW x \in Talker, NEW k \in DOMAIN asked'[x]
                 PROVE  /\ k = <<k[1], k[2]>> /\ k[2] \in 1 .. nextCall' - 1
                        /\ endings'[x][k[2]] = 0
                        /\ call'[x] # NoCall => call'[x].id # k[2]
                        /\ \A j \in DOMAIN asked'[x] : j[2] = k[2] => j = k
      BY DEF AskedNew
    <3>1. /\ k = <<k[1], k[2]>> /\ k[2] \in 1 .. nextCall - 1
          /\ endings[x][k[2]] = 0
          /\ call[x] # NoCall => call[x].id # k[2]
          /\ \A j \in DOMAIN asked[x] : j[2] = k[2] => j = k
      BY <2>5 DEF CallInv, AskedNew
    <3>2. k[2] \in Id
      BY <3>1, CallsAssumption DEF CallInv, CallTypes, Id
    <3>3. x # d \/ k[2] # s.id
      BY <2>2, <2>4
    <3>4. endings'[x][k[2]] = 0
      BY <2>3, <3>1, <3>2, <3>3
    <3> QED BY <1>1, <2>5, <3>1, <3>4
  <2>11. EndsOnce'
    <3> SUFFICES ASSUME NEW x \in Talker
                 PROVE  /\ \A id \in Id : endings'[x][id] <= 1
                        /\ call'[x] # NoCall =>
                             /\ endings'[x][call'[x].id] = 0
                             /\ call'[x].id \in gone'[x] => x \in flooded'
                             /\ call'[x].task = "dead" => call'[x].id \in orders'[x]
      BY DEF EndsOnce
    <3>1. /\ \A id \in Id : endings[x][id] <= 1
          /\ call[x] # NoCall =>
               /\ endings[x][call[x].id] = 0
               /\ call[x].id \in gone[x] => x \in flooded
               /\ call[x].task = "dead" => call[x].id \in orders[x]
      BY DEF CallInv, EndsOnce
    <3>2. \A id \in Id : endings'[x][id] <= 1
      BY <2>2, <2>3, <3>1
    <3>3. call[x] # NoCall => endings'[x][call[x].id] = 0
      BY <2>2, <2>3, <3>1, CallNumbers
    <3> QED BY <1>1, <3>1, <3>2, <3>3
  <2>12. Accepts' /\ MediaAfterConsent'
    BY <1>1 DEF CallInv, Accepts, MediaAfterConsent
  <2> QED BY <2>6, <2>7, <2>8, <2>9, <2>10, <2>11, <2>12 DEF CallInv
<1> QED BY <1>2, <1>3

-----------------------------------------------------------------------------
(* The theorems                                                            *)

\* CallInv is inductive.
LEMMA CallInvHolds == CallsSpec => []CallInv
<1>1. CallsInit => CallInv
  <2> SUFFICES ASSUME CallsInit PROVE CallInv
    OBVIOUS
  <2>1. DOMAIN << >> = {}
    OBVIOUS
  <2>2. CallTypes
    <3>1. \A d \in Talker : DOMAIN seen[d] = {}
      BY <2>1 DEF CallsInit
    <3>2. nextCall \in 1 .. MaxCall + 1
      BY CallsAssumption DEF CallsInit
    <3> QED BY <3>1, <3>2 DEF CallsInit, CallTypes
  <2>3. \A d \in Talker : DOMAIN asked[d] = {}
    BY <2>1 DEF CallsInit
  <2> QED BY <2>2, <2>3 DEF CallsInit, CallInv, Unborn, OnePair, OffersNew, AskedNew,
                            EndsOnce, Accepts, MediaAfterConsent
<1>2. CallInv /\ [CallsNext]_callVars => CallInv'
  <2> SUFFICES ASSUME CallInv, [CallsNext]_callVars PROVE CallInv'
    OBVIOUS
  <2>1. ASSUME NEW d \in Talker, NEW e \in Talker, CallStart(d, e) \/ CallProbe(d, e) PROVE CallInv'
    BY <2>1, CallStartKeeps, CallProbeKeeps
  <2>2. ASSUME NEW d \in Talker, CallAccept(d) \/ HangUp(d) \/ Hear(d) PROVE CallInv'
    BY <2>2, CallAcceptKeeps, HangUpKeeps, HearKeeps
  <2>3. ASSUME NEW d \in Talker, NEW id \in Id, Obey(d, id) PROVE CallInv'
    BY <2>3, ObeyKeeps
  <2>4. ASSUME NEW d \in Talker, RingingEnds(d) \/ MediaEnds(d) PROVE CallInv'
    BY <2>4, TaskEndsKeeps
  <2>5. ASSUME NEW d \in Talker, SessionEnds(d) \/ EngineRestart(d) PROVE CallInv'
    BY <2>5, SessionEndsKeeps, RestartKeeps
  <2>6. ASSUME NEW s \in signals, Take(s.to, s) PROVE CallInv'
    <3>1. Fresh(s.to, s) /\ UNCHANGED <<orders, clock, nextCall, restarts>>
      BY <2>6 DEF Take
    <3>2. \/ Offered(s.to, s) \/ Answered(s.to, s) \/ Finished(s.to, s)
          \/ Probed(s.to, s) \/ Completed(s.to, s)
      BY <2>6 DEF Take
    <3> QED BY <3>1, <3>2, OfferedKeeps, AnsweredKeeps, FinishedKeeps, ProbedKeeps, CompletedKeeps
  <2>7. CASE CallClock
    BY <2>7, ClockKeeps
  <2>8. CASE UNCHANGED callVars
    <3>1. UNCHANGED <<call, seen, asked, orders, clock, nextCall, endings, gone, flooded, agreed>>
          /\ signals' \subseteq signals
      BY <2>8 DEF callVars, probes, history
    <3> QED BY <3>1, SilenceForgets, ForgetsKeeps
  <2> QED BY <2>1, <2>2, <2>3, <2>4, <2>5, <2>6, <2>7, <2>8 DEF CallsNext
<1> QED BY <1>1, <1>2, PTL DEF CallsSpec

\* A call ends once, and does not ring again (calls.rs, calls/runtime.rs): whoever
\* ends it, whatever crosses its end, and however many devices and calls there are.
THEOREM EndsOnceHolds == CallsSpec => []EndsOnce
<1>1. CallInv => EndsOnce
  BY DEF CallInv
<1> QED BY <1>1, CallInvHolds, PTL

\* No media task without the consent of the callee of this very call, for any
\* clocks, losses, reorderings and restarts.
THEOREM MediaAfterConsentHolds == CallsSpec => []MediaAfterConsent
<1>1. CallInv => MediaAfterConsent
  BY DEF CallInv
<1> QED BY <1>1, CallInvHolds, PTL

\* Together: a call ends once, and nobody is heard without his consent.
THEOREM CallsKeptHolds == CallsSpec => []CallsKept
BY EndsOnceHolds, MediaAfterConsentHolds, PTL DEF CallsKept
-----------------------------------------------------------------------------
(* Routes                                                                    *)

LEMMA SavedAreOnions == RoutesTypeOK => Saved \subseteq Onion
BY RoutesAssumption DEF RoutesTypeOK, Saved, RoutesAssumption

\* Whatever a session is asked for, it has the routes of that, and onion routes only when the policy it
\* saves says so.
LEMMA RoutesForUrl ==
  ASSUME RoutesTypeOK, NEW url \in {"auto", "onion"} \union Onion \union Direct
  PROVE  /\ RoutesFor(url) \subseteq Onion \union Direct
         /\ IsOnion(url) => RoutesFor(url) \subseteq Onion
<1>1. Saved \subseteq Onion
  BY SavedAreOnions
<1>2. CASE url = "auto"
  BY <1>1, <1>2, RoutesAssumption DEF RoutesAssumption, RoutesFor, IsOnion
<1>3. CASE url = "onion"
  BY <1>1, <1>3 DEF RoutesFor
<1>4. CASE url \in Onion \union Direct
  <2>1. url # "auto" /\ url # "onion"
    BY <1>4, RoutesAssumption DEF RoutesAssumption
  <2>2. RoutesFor(url) = {url}
    BY <2>1 DEF RoutesFor
  <2> QED BY <1>4, <2>1, <2>2 DEF IsOnion
<1> QED BY <1>2, <1>3, <1>4

LEMMA RoutesStart == RoutesInit => RoutesHold
<1> SUFFICES ASSUME RoutesInit PROVE RoutesHold
  OBVIOUS
<1>1. RoutesTypeOK
  BY RoutesAssumption DEF RoutesAssumption, RoutesInit, RoutesTypeOK
<1>2. OnionStays /\ ListIsDated
  BY DEF RoutesInit, OnionStays, ListIsDated
<1> QED BY <1>1, <1>2 DEF RoutesHold

LEMMA HelloKeeps ==
  ASSUME RoutesHold, NEW via \in Onion \union Direct, NEW hs \in Lists, NEW t \in 1 .. MaxIssue,
         NEW whole \in BOOLEAN, Hello(via, [hosts |-> hs, at |-> t], whole)
  PROVE  RoutesHold'
<1> DEFINE l == [hosts |-> hs, at |-> t]
<1> USE DEF file, journey
<1>1. l.at \in Nat /\ l.hosts \intersect Onion \subseteq Onion
  BY RoutesAssumption DEF RoutesAssumption
<1>2. l.at = t /\ l.hosts = hs
  OBVIOUS
<1> HIDE DEF l
<1>3. RoutesTypeOK'
  <2>1. stamp' \in Nat /\ hosts' \subseteq Onion /\ torn' \in BOOLEAN
    BY <1>1 DEF Hello, RoutesHold, RoutesTypeOK, l
  <2>2. at # NoRoute /\ at \in routes
    BY DEF Hello, RoutesHold, RoutesTypeOK
  <2> QED BY <2>1 DEF Hello, RoutesHold, RoutesTypeOK
<1>4. OnionStays'
  BY DEF Hello, RoutesHold, RoutesTypeOK, OnionStays, Backups
<1>5. ListIsDated'
  <2>1. CASE TakesList(l)
    <3>1. l \in signed /\ stamp' = l.at /\ (whole => hosts' = l.hosts \intersect Onion) /\ torn' = ~whole
          /\ signed' = signed
      BY <2>1 DEF Hello, TakesList, l
    <3> QED BY <3>1 DEF ListIsDated
  <2>2. CASE ~TakesList(l)
    BY <2>2 DEF Hello, RoutesHold, ListIsDated, l
  <2> QED BY <2>1, <2>2
<1> QED BY <1>3, <1>4, <1>5 DEF RoutesHold

LEMMA RoutesStep == RoutesHold /\ [RoutesNext]_routesVars => RoutesHold'
<1> SUFFICES ASSUME RoutesHold, [RoutesNext]_routesVars PROVE RoutesHold'
  OBVIOUS
<1> USE DEF file, journey
<1>1. ASSUME NEW hs \in Lists, NEW t \in 1 .. MaxIssue, Sign(hs, t) PROVE RoutesHold'
  BY <1>1 DEF Sign, RoutesHold, RoutesTypeOK, OnionStays, ListIsDated
<1>2. ASSUME NEW url \in {"auto", "onion"} \union Onion \union Direct, BeginSession(url) PROVE RoutesHold'
  <2>1. /\ routes' \subseteq Onion \union Direct /\ at' \in routes'
        /\ policy' = "onion" => IsOnion(url)
        /\ IsOnion(url) => policy' = "onion" /\ routes' \subseteq Onion
    BY <1>2, RoutesForUrl DEF BeginSession, RoutesHold
  <2>2. RoutesTypeOK'
    BY <1>2, <2>1, RoutesAssumption DEF RoutesAssumption, BeginSession, RoutesHold, RoutesTypeOK
  <2>3. OnionStays'
    BY <1>2, <2>1 DEF BeginSession, OnionStays
  <2>4. ListIsDated'
    BY <1>2 DEF BeginSession, RoutesHold, ListIsDated
  <2> QED BY <2>2, <2>3, <2>4 DEF RoutesHold
<1>3. CASE TryNext
  <2>1. at' \in routes
    BY <1>3 DEF TryNext, RoutesHold, RoutesTypeOK
  <2>2. at' # NoRoute
    BY <2>1, RoutesAssumption DEF RoutesAssumption, RoutesHold, RoutesTypeOK
  <2> QED BY <1>3, <2>1, <2>2 DEF TryNext, RoutesHold, RoutesTypeOK, OnionStays, ListIsDated
<1>4. CASE Broken
  BY <1>4 DEF Broken, RoutesHold, RoutesTypeOK, OnionStays, ListIsDated
<1>5. CASE EndSession
  BY <1>5 DEF EndSession, NoSession, RoutesHold, RoutesTypeOK, OnionStays, ListIsDated
<1>6. CASE Maximize
  BY <1>6 DEF Maximize, NoSession, RoutesHold, RoutesTypeOK, OnionStays, ListIsDated
<1>7. ASSUME NEW h \in Onion, Anonymous(h) PROVE RoutesHold'
  BY <1>7 DEF Anonymous, RoutesHold, RoutesTypeOK, OnionStays, ListIsDated
<1>8. CASE UNCHANGED routesVars
  BY <1>8 DEF routesVars, RoutesHold, RoutesTypeOK, OnionStays, ListIsDated
<1> QED BY <1>1, <1>2, <1>3, <1>4, <1>5, <1>6, <1>7, <1>8, HelloKeeps DEF RoutesNext

\* With any hosts, lists and routes: as long as the policy is onion no socket to a clear
\* address is open or opened, and the hosts saved are those of the list they are dated by.
THEOREM RoutesHoldAlways == RoutesSpec => []RoutesHold
BY RoutesStart, RoutesStep, PTL DEF RoutesSpec

-----------------------------------------------------------------------------
(* Threads: conversations                                                    *)

\* A group nobody is in stands for itself; any other stands under a group with the same person.
ThreadsStand ==
    \A g \in Group :
        /\ of[g] = NoOne => thread[g] = g
        /\ of[g] # NoOne => of[thread[g]] # NoOne /\ PersonOf[of[thread[g]]] = PersonOf[of[g]]

\* The group of a conversation that others stand under stands for itself.
Heads == \A d, e \in Listed : thread[chat[d]] = chat[e] => thread[chat[e]] = chat[e]

\* Until a device is known, its conversation stands under groups of its own.
Strangers == \A d \in Listed : d \notin known => of[thread[chat[d]]] = d

\* There are no more places than groups.
Rows == \A d \in PeerDevice, g \in Group : of[g] = NoOne => rowid[d] < g

Together ==
    \A d, e \in known : PersonOf[d] = PersonOf[e] /\ chat[d] # 0 /\ chat[e] # 0
                           => thread[chat[d]] = thread[chat[e]]
ChatTypes ==
    /\ chat \in [PeerDevice -> 0 .. MaxGroup] /\ rowid \in [PeerDevice -> Nat]
    /\ \A d \in PeerDevice : chat[d] # 0 => of[chat[d]] = d
    /\ thread \in [Group -> Group] /\ of \in [Group -> PeerDevice \union {NoOne}]
    /\ known \subseteq PeerDevice /\ lists \in [PeerDevice -> SUBSET PeerDevice]
ChatsOK == ChatTypes /\ ThreadsStand /\ Heads /\ Strangers /\ Rows /\ Together

\* A set of naturals that is not empty has a least member, and a bounded one a greatest.
LEMMA LeastRow ==
  ASSUME NEW S \in SUBSET Nat, S # {}
  PROVE  \E m \in S : \A x \in S : m <= x
<1> DEFINE Less == OpToRel(<, Nat)
<1>1. IsWellFoundedOn(Less, Nat)
  BY NatLessThanWellFounded
<1> HIDE DEF Less
<1>2. PICK m \in S : \A x \in S : <<x, m>> \notin Less
  BY <1>1, WFMin
<1>3. \A x \in S : ~(x < m)
  BY <1>2 DEF Less, OpToRel
<1> QED BY <1>3

LEMMA GreatestRow ==
  ASSUME NEW n \in Nat, NEW S \in SUBSET (0 .. n), S # {}
  PROVE  Max(S) \in S /\ \A x \in S : x <= Max(S)
<1> DEFINE U == {u \in Nat : \A x \in S : x <= u}
<1>1. PICK m \in U : \A u \in U : m <= u
  <2>1. n \in U
    OBVIOUS
  <2> HIDE DEF U
  <2>2. U \in SUBSET Nat
    BY DEF U
  <2> QED BY <2>1, <2>2, LeastRow
<1>2. m \in S
  <2>1. SUFFICES ASSUME m \notin S PROVE FALSE
    OBVIOUS
  <2>2. \A x \in S : x <= m - 1 /\ m - 1 \in Nat
    BY <1>1, <2>1
  <2>3. m - 1 \in U
    BY <2>2
  <2> QED BY <1>1, <2>3
<1>3. \E x \in S : \A y \in S : x >= y
  BY <1>1, <1>2
<1> QED BY <1>3 DEF Max

\* The earliest conversation with some of the devices.
LEMMA OldestIs ==
  ASSUME ChatTypes, NEW ds \in SUBSET PeerDevice
  PROVE  /\ Oldest(ds) \subseteq ds \intersect Listed
         /\ Oldest(ds) = {} => ds \intersect Listed = {}
<1>1. Oldest(ds) \subseteq ds \intersect Listed
  BY DEF Oldest, Listed
<1>2. SUFFICES ASSUME ds \intersect Listed # {} PROVE Oldest(ds) # {}
  BY <1>1
<1> DEFINE S == {rowid[d] : d \in ds \intersect Listed}
<1>3. S \in SUBSET Nat /\ S # {}
  BY <1>2 DEF ChatTypes, Listed
<1> HIDE DEF S
<1>4. PICK m \in S : \A x \in S : m <= x
  BY <1>3, LeastRow
<1>5. PICK d \in ds \intersect Listed : rowid[d] = m
  BY DEF S
<1>6. \A e \in ds : chat[e] # 0 => rowid[d] <= rowid[e]
  BY <1>4, <1>5 DEF S, Listed
<1> QED BY <1>5, <1>6 DEF Oldest, Listed

\* The place of a new row is behind all others.
LEMMA NextRowIs ==
  ASSUME ChatTypes, Rows, NEW g \in Group, of[g] = NoOne
  PROVE  NextRow \in 1 .. g
<1> DEFINE S == {rowid[d] : d \in PeerDevice} \union {0}
<1>1. g \in Nat \ {0}
  BY ThreadsAssumption DEF ThreadsAssumption, Group
<1>2. \A d \in PeerDevice : rowid[d] \in 0 .. g - 1
  BY <1>1 DEF ChatTypes, Rows
<1>3. S \in SUBSET (0 .. g - 1) /\ S # {} /\ g - 1 \in Nat
  BY <1>1, <1>2
<1> HIDE DEF S
<1>4. Max(S) \in 0 .. g - 1
  BY <1>3, GreatestRow
<1>5. NextRow = 1 + Max(S)
  BY DEF NextRow, S
<1> QED BY <1>1, <1>4, <1>5

\* A new channel.
LEMMA AttachKeeps ==
  ASSUME ChatsOK, NEW d \in PeerDevice, NEW g \in Group, AttachChannel(d, g)
  PROVE  ChatsOK' /\ thread'[g] \in Group /\ chat'[d] = g /\ of' = [of EXCEPT ![g] = d]
         /\ \A e \in PeerDevice : e # d => chat'[e] = chat[e]
<1> USE DEF ChatsOK
<1>1. /\ of[g] = NoOne /\ \A h \in Group : h < g => of[h] # NoOne
      /\ of' = [of EXCEPT ![g] = d] /\ chat' = [chat EXCEPT ![d] = g]
      /\ rowid' = [rowid EXCEPT ![d] = IF chat[d] = 0 THEN NextRow ELSE @]
      /\ UNCHANGED <<known, lists>>
  BY DEF AttachChannel
<1> DEFINE l == IF chat[d] # 0 THEN thread[chat[d]] ELSE Adopted(d, g)
           same == {e \in known : PersonOf[e] = PersonOf[d]}
           f == CHOOSE e \in Oldest(same) : TRUE
<1>2. thread' = [thread EXCEPT ![g] = l]
  BY DEF AttachChannel
<1>3. d # NoOne /\ g \in 1 .. MaxGroup /\ MaxGroup \in Nat /\ g # 0
  BY ThreadsAssumption DEF ThreadsAssumption, Group
<1>4. \A e \in PeerDevice : chat[e] # 0 => /\ chat[e] \in Group /\ of[chat[e]] = e /\ chat[e] # g
                                         /\ thread[chat[e]] \in Group /\ thread[chat[e]] # g
                                         /\ of[thread[chat[e]]] # NoOne
                                         /\ PersonOf[of[thread[chat[e]]]] = PersonOf[e]
  <2>1. SUFFICES ASSUME NEW e \in PeerDevice, chat[e] # 0
                 PROVE  /\ chat[e] \in Group /\ of[chat[e]] = e /\ chat[e] # g
                        /\ thread[chat[e]] \in Group /\ thread[chat[e]] # g
                        /\ of[thread[chat[e]]] # NoOne
                        /\ PersonOf[of[thread[chat[e]]]] = PersonOf[e]
    OBVIOUS
  <2>2. chat[e] \in Group /\ of[chat[e]] = e /\ e # NoOne
    BY <2>1, ThreadsAssumption, SMTT(30) DEF ThreadsAssumption, ChatTypes, Group
  <2>3. of[thread[chat[e]]] # NoOne /\ PersonOf[of[thread[chat[e]]]] = PersonOf[e] /\ thread[chat[e]] \in Group
    BY <2>2 DEF ThreadsStand, ChatTypes
  <2> QED BY <1>1, <2>2, <2>3
\* Where the new group stands.
<1>5. \/ l = g /\ chat[d] = 0 /\ (d \in known => same \intersect Listed = {})
      \/ chat[d] # 0 /\ l = thread[chat[d]]
      \/ chat[d] = 0 /\ d \in known /\ f \in same /\ f \in Listed /\ l = thread[chat[f]]
  <2>1. CASE chat[d] # 0
    BY <2>1
  <2>2. CASE chat[d] = 0
    <3>1. same \in SUBSET PeerDevice
      BY DEF ChatTypes
    <3>2. l = Adopted(d, g)
      BY <2>2
    <3>3. CASE d \notin known
      BY <2>2, <3>2, <3>3 DEF Adopted
    <3>4. CASE d \in known /\ Oldest(same) = {}
      BY <2>2, <3>1, <3>2, <3>4, OldestIs DEF Adopted
    <3>5. CASE d \in known /\ Oldest(same) # {}
      <4>1. f \in Oldest(same)
        BY <3>5
      <4>2. f \in same /\ f \in Listed
        BY <3>1, <4>1, OldestIs
      <4>3. l = thread[chat[f]]
        BY <3>2, <3>5 DEF Adopted
      <4> QED BY <2>2, <3>5, <4>2, <4>3
    <3> QED BY <3>3, <3>4, <3>5
  <2> QED BY <2>1, <2>2
<1>6. /\ l \in Group /\ (of[l] # NoOne => PersonOf[of[l]] = PersonOf[d])
      /\ l # g => of[l] # NoOne
  BY <1>1, <1>4, <1>5 DEF Listed, ChatTypes
<1> HIDE DEF l, same, f
<1>7. /\ thread'[g] = l /\ \A h \in Group : h # g => thread'[h] = thread[h]
      /\ of'[g] = d /\ \A h \in Group : h # g => of'[h] = of[h]
      /\ chat'[d] = g /\ \A e \in PeerDevice : e # d => chat'[e] = chat[e]
  BY <1>1, <1>2 DEF ChatTypes
<1>8. ChatTypes'
  <2>1. rowid' \in [PeerDevice -> Nat]
    <3>1. NextRow \in Nat
      BY <1>1, <1>3, NextRowIs
    <3> QED BY <1>1, <3>1 DEF ChatTypes
  <2>2. chat' \in [PeerDevice -> 0 .. MaxGroup] /\ of' \in [Group -> PeerDevice \union {NoOne}]
        /\ thread' \in [Group -> Group]
    BY <1>1, <1>2, <1>3, <1>6 DEF ChatTypes
  <2>3. \A e \in PeerDevice : chat'[e] # 0 => of'[chat'[e]] = e
    BY <1>4, <1>7
  <2> QED BY <1>1, <2>1, <2>2, <2>3 DEF ChatTypes
<1>9. ThreadsStand'
  <2> SUFFICES ASSUME NEW h \in Group
               PROVE  /\ of'[h] = NoOne => thread'[h] = h
                      /\ of'[h] # NoOne => of'[thread'[h]] # NoOne /\ PersonOf[of'[thread'[h]]] = PersonOf[of'[h]]
    BY DEF ThreadsStand
  <2>1. CASE h = g
    BY <1>3, <1>6, <1>7, <2>1
  <2>2. CASE h # g
    <3>1. thread[h] \in Group /\ thread'[h] = thread[h] /\ of'[h] = of[h]
      BY <1>7, <2>2 DEF ChatTypes
    <3>2. of[h] = NoOne => thread[h] = h
      BY DEF ThreadsStand
    <3>3. of[h] # NoOne => of[thread[h]] # NoOne /\ PersonOf[of[thread[h]]] = PersonOf[of[h]] /\ thread[h] # g
      BY <1>1 DEF ThreadsStand
    <3> QED BY <1>7, <3>1, <3>2, <3>3
  <2> QED BY <2>1, <2>2
<1>10. \A e \in Listed' : e # d => /\ e \in Listed /\ chat'[e] = chat[e] /\ thread'[chat'[e]] = thread[chat[e]]
                               /\ chat[e] # g /\ thread[chat[e]] # g
  BY <1>4, <1>7 DEF Listed
<1>11. thread'[chat'[d]] = l
  BY <1>7
<1>12. Heads'
  <2> SUFFICES ASSUME NEW x \in Listed', NEW e \in Listed', thread'[chat'[x]] = chat'[e]
               PROVE  thread'[chat'[e]] = chat'[e]
    BY DEF Heads
  <2>1. CASE x = d /\ e # d
    <3>1. l = chat[e] /\ e \in Listed
      BY <1>10, <1>11, <2>1
    <3>2. PICK y \in Listed : l = thread[chat[y]]
      BY <1>5, <1>10, <2>1, <3>1 DEF Listed, same
    <3>3. thread[chat[e]] = chat[e]
      BY <3>1, <3>2 DEF Heads
    <3> QED BY <1>10, <2>1, <3>3
  <2>2. CASE x # d /\ e = d
    BY <1>7, <1>10, <2>2
  <2>3. CASE x # d /\ e # d
    BY <1>10, <2>3 DEF Heads
  <2> QED BY <2>1, <2>2, <2>3
<1>13. Strangers'
  <2> SUFFICES ASSUME NEW x \in Listed', x \notin known PROVE of'[thread'[chat'[x]]] = x
    BY <1>1 DEF Strangers
  <2>1. CASE x = d
    <3>1. l = g \/ (d \in Listed /\ l = thread[chat[d]])
      BY <1>5, <2>1 DEF Listed
    <3>2. CASE l = g
      BY <1>7, <1>11, <2>1, <3>2
    <3>3. CASE d \in Listed /\ l = thread[chat[d]]
      <4>1. of[l] = d /\ l # g /\ l \in Group
        BY <1>4, <2>1, <3>3 DEF Strangers, Listed
      <4> QED BY <1>7, <1>11, <2>1, <4>1
    <3> QED BY <3>1, <3>2, <3>3
  <2>2. CASE x # d
    <3>1. x \in Listed /\ of[thread[chat[x]]] = x /\ thread[chat[x]] # g /\ thread[chat[x]] \in Group
      BY <1>4, <1>10, <2>2 DEF Strangers, Listed
    <3> QED BY <1>7, <1>10, <2>2, <3>1
  <2> QED BY <2>1, <2>2
<1>14. Rows'
  <2> SUFFICES ASSUME NEW e \in PeerDevice, NEW h \in Group, of'[h] = NoOne PROVE rowid'[e] < h
    BY DEF Rows
  <2>1. h # g /\ of[h] = NoOne /\ h \in Nat /\ g \in Nat
    BY <1>3, <1>7 DEF Group
  <2>2. g < h
    BY <1>1, <2>1
  <2>3. rowid[e] < h /\ rowid[e] \in Nat
    BY <2>1 DEF Rows, ChatTypes
  <2>4. NextRow \in 1 .. g
    BY <1>1, NextRowIs
  <2>5. rowid'[e] = rowid[e] \/ rowid'[e] = NextRow
    BY <1>1 DEF ChatTypes
  <2> QED BY <2>1, <2>2, <2>3, <2>4, <2>5
<1>15. Together'
  <2> SUFFICES ASSUME NEW x \in known, NEW e \in known, PersonOf[x] = PersonOf[e], chat'[x] # 0, chat'[e] # 0
               PROVE  thread'[chat'[x]] = thread'[chat'[e]]
    BY <1>1 DEF Together
  <2>1. x \in Listed' /\ e \in Listed'
    BY <1>1 DEF Listed, ChatTypes
  <2>2. \A y \in known : y # d /\ y \in Listed /\ d \in known /\ PersonOf[y] = PersonOf[d] => l = thread[chat[y]]
    <3> SUFFICES ASSUME NEW y \in known, y # d, y \in Listed, d \in known, PersonOf[y] = PersonOf[d]
                 PROVE  l = thread[chat[y]]
      OBVIOUS
    <3>1. y \in same \intersect Listed
      BY DEF same
    <3>2. PICK z \in known : z \in Listed /\ PersonOf[z] = PersonOf[d] /\ l = thread[chat[z]]
      BY <1>5, <3>1 DEF same, Listed
    <3> QED BY <3>2 DEF Together, Listed
  <2>3. CASE x # d /\ e # d
    BY <1>10, <2>1, <2>3 DEF Together, Listed
  <2>4. CASE x = d /\ e # d
    BY <1>10, <1>11, <2>1, <2>2, <2>4
  <2>5. CASE x # d /\ e = d
    BY <1>10, <1>11, <2>1, <2>2, <2>5
  <2> QED BY <2>3, <2>4, <2>5
<1> QED BY <1>1, <1>6, <1>7, <1>8, <1>9, <1>12, <1>13, <1>14, <1>15

\* A list of devices brings their conversations together.
LEMMA AnnouncedKeeps ==
  ASSUME ChatsOK, NEW d \in PeerDevice, NEW ds \in SUBSET PeerDevice, Announced(d, ds)
  PROVE  ChatsOK'
<1> USE DEF ChatsOK
<1> DEFINE all == {e \in known' : PersonOf[e] = PersonOf[d]}
           f == CHOOSE e \in Oldest(all) : TRUE
           l == thread[chat[f]]
<1>1. /\ d \in ds /\ ds \subseteq Kin(d) /\ lists' = ListKept(ds) /\ known' = known \union ds
      /\ thread' = IF Oldest(all) = {} THEN thread ELSE Merged(all)
      /\ UNCHANGED <<chat, rowid, of>>
  BY DEF Announced, Acceptable
<1>2. all \in SUBSET PeerDevice /\ ds \subseteq all /\ known \subseteq known' /\ known' \subseteq PeerDevice
      /\ \A e \in known' : e \notin all => e \in known
  BY <1>1 DEF ChatTypes, Kin
<1>3. \A e \in PeerDevice : chat[e] # 0 => /\ chat[e] \in Group /\ of[chat[e]] = e /\ e # NoOne
                                         /\ thread[chat[e]] \in Group /\ of[thread[chat[e]]] # NoOne
                                         /\ PersonOf[of[thread[chat[e]]]] = PersonOf[e]
  <2>1. SUFFICES ASSUME NEW e \in PeerDevice, chat[e] # 0
                 PROVE  /\ chat[e] \in Group /\ of[chat[e]] = e /\ e # NoOne
                        /\ thread[chat[e]] \in Group /\ of[thread[chat[e]]] # NoOne
                        /\ PersonOf[of[thread[chat[e]]]] = PersonOf[e]
    OBVIOUS
  <2>2. chat[e] \in Group /\ of[chat[e]] = e /\ e # NoOne
    BY <2>1, ThreadsAssumption, SMTT(30) DEF ThreadsAssumption, ChatTypes, Group
  <2> QED BY <2>2 DEF ThreadsStand, ChatTypes
<1>4. lists' \in [PeerDevice -> SUBSET PeerDevice]
  BY <1>1, <1>2 DEF ListKept, ChatTypes
<1>5. Listed' = Listed /\ Rows'
  BY <1>1 DEF Listed, Rows
<1>6. CASE Oldest(all) = {}
  <2>1. thread' = thread /\ all \intersect Listed = {}
    BY <1>1, <1>2, <1>6, OldestIs
  <2>2. ChatTypes' /\ ThreadsStand'
    BY <1>1, <1>2, <1>4, <2>1 DEF ChatTypes, ThreadsStand
  <2>3. Heads' /\ Strangers'
    BY <1>1, <1>2, <1>5, <2>1 DEF Heads, Strangers
  <2>4. Together'
    <3> SUFFICES ASSUME NEW x \in known', NEW e \in known', PersonOf[x] = PersonOf[e], chat[x] # 0, chat[e] # 0
                 PROVE  thread[chat[x]] = thread[chat[e]]
      BY <1>1, <2>1 DEF Together
    <3>1. x \in known /\ e \in known
      BY <1>2, <2>1 DEF Listed
    <3> QED BY <3>1 DEF Together
  <2> QED BY <1>5, <2>2, <2>3, <2>4
<1>7. CASE Oldest(all) # {}
  <2>1. f \in all /\ f \in PeerDevice /\ chat[f] # 0 /\ PersonOf[f] = PersonOf[d]
    <3>1. f \in Oldest(all)
      BY <1>7
    <3> QED BY <1>2, <3>1, OldestIs DEF Listed
  <2>2. thread' = [g \in Group |-> IF g # l /\ \E e \in all : chat[e] = g THEN l ELSE thread[g]]
    BY <1>1, <1>7 DEF Merged
  <2>3. l \in Group /\ of[l] # NoOne /\ PersonOf[of[l]] = PersonOf[d]
    BY <1>3, <2>1
  <2> HIDE DEF l, f
  <2>4. \A e \in all : chat[e] # 0 => thread'[chat[e]] = l
    <3> SUFFICES ASSUME NEW e \in all, chat[e] # 0 PROVE thread'[chat[e]] = l
      OBVIOUS
    <3>1. e \in PeerDevice /\ chat[e] \in Group
      BY <1>2, <1>3
    <3>2. CASE chat[e] = l
      <4>1. thread[l] = l
        BY <2>1, <3>1, <3>2 DEF Heads, Listed, l
      <4> QED BY <2>2, <2>3, <3>2, <4>1
    <3>3. CASE chat[e] # l
      BY <2>2, <3>1, <3>3
    <3> QED BY <3>2, <3>3
  <2>5. \A e \in PeerDevice : e \notin all /\ chat[e] # 0 => thread'[chat[e]] = thread[chat[e]]
    BY <1>2, <1>3, <2>2
  <2>6. ChatTypes'
    <3>1. thread' \in [Group -> Group]
      BY <2>2, <2>3 DEF ChatTypes
    <3> HIDE DEF all
    <3> QED BY <1>1, <1>2, <1>4, <3>1 DEF ChatTypes
  <2>7. ThreadsStand'
    <3> SUFFICES ASSUME NEW g \in Group
                 PROVE  /\ of[g] = NoOne => thread'[g] = g
                        /\ of[g] # NoOne => of[thread'[g]] # NoOne /\ PersonOf[of[thread'[g]]] = PersonOf[of[g]]
      BY <1>1 DEF ThreadsStand
    <3>1. CASE \E e \in all : chat[e] = g
      <4>1. PICK e \in all : chat[e] = g
        BY <3>1
      <4>2. g # 0
        BY DEF Group
      <4>3. e \in PeerDevice /\ of[g] = e /\ e # NoOne /\ PersonOf[e] = PersonOf[d] /\ thread'[g] = l
        BY <1>2, <1>3, <2>4, <4>1, <4>2
      <4> QED BY <2>3, <4>3
    <3>2. CASE ~ \E e \in all : chat[e] = g
      <4>1. thread'[g] = thread[g]
        BY <2>2, <3>2
      <4> QED BY <4>1 DEF ThreadsStand
    <3> QED BY <3>1, <3>2
  <2>8. Heads'
    <3> SUFFICES ASSUME NEW x \in Listed, NEW e \in Listed, thread'[chat[x]] = chat[e]
                 PROVE  thread'[chat[e]] = chat[e]
      BY <1>1, <1>5 DEF Heads
    <3>1. x \in PeerDevice /\ e \in PeerDevice /\ chat[x] # 0 /\ chat[e] # 0
      BY DEF Listed
    <3>2. CASE x \in all
      <4>1. chat[e] = l
        BY <2>4, <3>1, <3>2
      <4>2. CASE e \in all
        BY <2>4, <3>1, <4>1, <4>2
      <4>3. CASE e \notin all
        <5>1. thread[chat[e]] = chat[e]
          BY <2>1, <4>1 DEF Heads, Listed, l
        <5> QED BY <2>5, <3>1, <4>3, <5>1
      <4> QED BY <4>2, <4>3
    <3>3. CASE x \notin all
      <4>1. thread[chat[x]] = chat[e] /\ of[chat[e]] = e /\ PersonOf[e] = PersonOf[x]
        BY <1>3, <2>5, <3>1, <3>3
      <4>2. thread[chat[e]] = chat[e]
        BY <4>1 DEF Heads
      <4>3. e \notin all
        <5>1. SUFFICES ASSUME e \in all PROVE FALSE
          OBVIOUS
        <5>2. x \notin known /\ x # e
          BY <1>2, <3>3, <4>1, <5>1
        <5> QED BY <4>1, <5>2 DEF Strangers
      <4> QED BY <2>5, <3>1, <4>2, <4>3
    <3> QED BY <3>2, <3>3
  <2>9. Strangers'
    <3> SUFFICES ASSUME NEW x \in Listed, x \notin known' PROVE of[thread'[chat[x]]] = x
      BY <1>1, <1>5 DEF Strangers
    <3>1. x \notin all /\ x \notin known /\ x \in PeerDevice /\ chat[x] # 0
      BY <1>2 DEF Listed
    <3> QED BY <2>5, <3>1 DEF Strangers
  <2>10. Together'
    <3> SUFFICES ASSUME NEW x \in known', NEW e \in known', PersonOf[x] = PersonOf[e], chat[x] # 0, chat[e] # 0
                 PROVE  thread'[chat[x]] = thread'[chat[e]]
      BY <1>1 DEF Together
    <3>1. x \in PeerDevice /\ e \in PeerDevice /\ (x \in all <=> e \in all)
      BY <1>2
    <3>2. CASE x \in all
      BY <2>4, <3>1, <3>2
    <3>3. CASE x \notin all
      <4>1. thread[chat[x]] = thread[chat[e]]
        BY <1>2, <3>1, <3>3 DEF Together
      <4> QED BY <2>5, <3>1, <3>3, <4>1
    <3> QED BY <3>2, <3>3
  <2> QED BY <1>5, <2>6, <2>7, <2>8, <2>9, <2>10
<1> QED BY <1>6, <1>7

\* A conversation that is deleted leaves the groups where they are.
LEMMA DeletedKeeps ==
  ASSUME ChatsOK, NEW line \in Group, DeleteThread(line)
  PROVE  ChatsOK'
<1> USE DEF ChatsOK
<1>1. /\ chat' = [d \in PeerDevice |-> IF chat[d] = line THEN 0 ELSE chat[d]]
      /\ rowid' = [d \in PeerDevice |-> IF chat[d] = line THEN 0 ELSE rowid[d]]
      /\ UNCHANGED <<thread, known, lists, of>>
  BY DEF DeleteThread
<1>2. \A d \in PeerDevice : chat'[d] # 0 => chat'[d] = chat[d] /\ chat[d] # 0
  BY <1>1
<1>3. ChatTypes'
  <2>1. 0 \in 0 .. MaxGroup
    BY ThreadsAssumption DEF ThreadsAssumption
  <2>2. chat' \in [PeerDevice -> 0 .. MaxGroup] /\ rowid' \in [PeerDevice -> Nat]
    BY <1>1, <2>1 DEF ChatTypes
  <2> QED BY <1>1, <1>2, <2>2 DEF ChatTypes
<1>4. ThreadsStand'
  BY <1>1 DEF ThreadsStand
<1>5. Listed' \subseteq Listed /\ \A d \in Listed' : chat'[d] = chat[d]
  BY <1>2 DEF Listed
<1>6. Heads' /\ Strangers'
  <2>1. Heads'
    <3> SUFFICES ASSUME NEW x \in Listed', NEW e \in Listed', thread[chat[x]] = chat[e]
                 PROVE  thread[chat[e]] = chat[e]
      BY <1>1, <1>5 DEF Heads
    <3> QED BY <1>5 DEF Heads
  <2>2. Strangers'
    <3> SUFFICES ASSUME NEW x \in Listed', x \notin known PROVE of[thread[chat[x]]] = x
      BY <1>1, <1>5 DEF Strangers
    <3> QED BY <1>5 DEF Strangers
  <2> QED BY <2>1, <2>2
<1>7. Rows'
  <2> SUFFICES ASSUME NEW e \in PeerDevice, NEW h \in Group, of[h] = NoOne PROVE rowid'[e] < h
    BY <1>1 DEF Rows
  <2>1. rowid[e] < h /\ h > 0
    BY DEF Rows, Group
  <2> QED BY <1>1, <2>1
<1>8. Together'
  <2> SUFFICES ASSUME NEW x \in known, NEW e \in known, PersonOf[x] = PersonOf[e], chat'[x] # 0, chat'[e] # 0
               PROVE  thread[chat'[x]] = thread[chat'[e]]
    BY <1>1 DEF Together
  <2>1. x \in PeerDevice /\ e \in PeerDevice
    BY DEF ChatTypes
  <2> QED BY <1>2, <2>1 DEF Together
<1> QED BY <1>3, <1>4, <1>6, <1>7, <1>8

\* Everything else leaves the conversations alone.
LEMMA ChatsStep == ChatsOK /\ [ThreadsNext]_threadsVars => ChatsOK'
<1> SUFFICES ASSUME ChatsOK, [ThreadsNext]_threadsVars PROVE ChatsOK'
  OBVIOUS
<1>1. ASSUME UNCHANGED chats PROVE ChatsOK'
  BY <1>1 DEF chats, ChatsOK, ChatTypes, ThreadsStand, Heads, Strangers, Rows, Together, Listed
<1>2. ASSUME NEW d \in PeerDevice, NEW g \in Group, Joined(d, g) \/ Open(d, g) PROVE ChatsOK'
  <2>1. AttachChannel(d, g)
    BY <1>2 DEF Joined, Open
  <2> QED BY <2>1, AttachKeeps
<1>3. ASSUME NEW d \in PeerDevice, \/ OnTicker(d)
                                   \/ \E id \in MsgId : SendText(d, id) \/ Reads(id, d)
      PROVE  UNCHANGED chats
  BY <1>3 DEF SendText, Reads, OnTicker
<1>4. ASSUME NEW g \in Group, NEW id \in MsgId,
             \/ Receive(g, id) \/ PeerDeletes(g, id) \/ PeerEdits(g, id) \/ Receipt(g, id)
             \/ \E both \in BOOLEAN : EraseMessage(g, id, both) \/ ReviseMessage(g, id, both)
      PROVE  UNCHANGED chats
  BY <1>4 DEF Receive, PeerDeletes, PeerEdits, Receipt, EraseMessage, ReviseMessage
<1>5. ASSUME NEW line \in Group, ClearThread(line) PROVE UNCHANGED chats
  BY <1>5 DEF ClearThread
<1>6. ASSUME NEW x \in letters, RelayTakes(x) \/ Acknowledge(x) PROVE UNCHANGED chats
  BY <1>6 DEF RelayTakes, Acknowledge
<1>7. ASSUME UNCHANGED threadsVars PROVE UNCHANGED chats
  BY <1>7 DEF threadsVars
<1> QED BY <1>1, <1>2, <1>3, <1>4, <1>5, <1>6, <1>7, AnnouncedKeeps, DeletedKeeps DEF ThreadsNext

LEMMA ChatsStart == ThreadsInit => ChatsOK
<1> SUFFICES ASSUME ThreadsInit PROVE ChatsOK
  OBVIOUS
<1>1. Listed = {} /\ 0 \in 0 .. MaxGroup /\ known = {} /\ \A g \in Group : 0 < g
  BY ThreadsAssumption DEF ThreadsAssumption, ThreadsInit, Listed, Group
<1> QED BY <1>1 DEF ThreadsInit, ChatsOK, ChatTypes, ThreadsStand, Heads, Strangers, Rows, Together
-----------------------------------------------------------------------------
(* Threads: messages and what has become of their copies                     *)

MailTypes ==
    /\ msgs \in [MsgId -> Message \union {NoOne}]
    /\ letters \subseteq Copied /\ waits \subseteq Waiting
    /\ tracked \subseteq Group \X MsgId \X PeerDevice /\ acked \subseteq tracked /\ receipted \subseteq tracked

IsText(x, i, d) == x.what = "text" /\ x.id = i /\ x.dev = d
InQueue(t) == \E x \in letters : x.what = "text" /\ <<x.line, x.id, x.dev>> = t

\* An id that occurs anywhere is in use.
Ages ==
    /\ erased \subseteq used /\ got \subseteq sent
    /\ \A i \in MsgId : msgs[i] # NoOne => i \in used
    /\ \A x \in letters : x.what = "text" => x.id \in used
    /\ \A w \in waits : w.what = "text" => w.id \in used /\ w.id \in waited
    /\ \A t \in tracked : t[2] \in used

\* What is queued is as it is shown, and all copies of it are of one line.
AsShown ==
    \A x \in letters : x.what = "text" /\ x.id \notin waited =>
        /\ x.id \notin erased
        /\ msgs[x.id] # NoOne => x.ver = msgs[x.id].ver /\ x.line = msgs[x.id].line /\ msgs[x.id].own
        /\ \A y \in letters : y.what = "text" /\ y.id = x.id => y.line = x.line

\* A device gets one copy of a message, which is in the queue or waits.
Single ==
    \A i \in MsgId, d \in PeerDevice :
        /\ \A x, y \in letters : IsText(x, i, d) /\ IsText(y, i, d) => x = y
        /\ \A w, v \in waits : IsText(w, i, d) /\ IsText(v, i, d) => w = v
        /\ \A x \in letters, w \in waits : IsText(x, i, d) => ~IsText(w, i, d)

\* A receipt came from a device that has read; what the relay confirmed was there and is not queued
\* again; and what it has not confirmed is queued still, or was deleted.
Ticks ==
    /\ \A t \in receipted : <<t[2], t[3]>> \in got
    /\ \A t \in acked : /\ <<t[2], t[3]>> \in sent
                        /\ \A x \in letters : ~IsText(x, t[2], t[3])
                        /\ \A w \in waits : ~IsText(w, t[2], t[3])
    /\ \A t \in tracked : t \in acked \/ InQueue(t) \/ t[2] \in erased

MailOK == MailTypes /\ Ages /\ AsShown /\ Single /\ Ticks

\* A step that queues no message only has to be true to those that are queued.
LEMMA Fewer ==
  ASSUME MailOK, MailTypes',
         \A x \in letters' : x.what = "text" => x \in letters,
         \A w \in waits' : w.what = "text" => w \in waits,
         tracked' = tracked, used \subseteq used', waited' = waited, erased' \subseteq used', got' \subseteq sent',
         \A i \in MsgId : msgs'[i] # NoOne => i \in used',
         \A x \in letters' : x.what = "text" /\ x.id \notin waited =>
             /\ x.id \notin erased'
             /\ msgs'[x.id] # NoOne => x.ver = msgs'[x.id].ver /\ x.line = msgs'[x.id].line /\ msgs'[x.id].own,
         \A t \in receipted' : <<t[2], t[3]>> \in got',
         \A t \in acked' : /\ <<t[2], t[3]>> \in sent'
                           /\ \A x \in letters' : ~IsText(x, t[2], t[3])
                           /\ \A w \in waits' : ~IsText(w, t[2], t[3]),
         \A t \in tracked : t \in acked' \/ InQueue(t)' \/ t[2] \in erased'
  PROVE  MailOK'
<1>1. Ages'
  BY DEF MailOK, Ages
<1>2. AsShown'
  BY DEF MailOK, AsShown
<1>3. Single'
  BY DEF MailOK, Single, IsText
<1>4. Ticks'
  <2>1. \A t \in receipted' : <<t[2], t[3]>> \in got'
    OBVIOUS
  <2>2. \A t \in acked' : /\ <<t[2], t[3]>> \in sent'
                          /\ \A x \in letters' : ~IsText(x, t[2], t[3])
                          /\ \A w \in waits' : ~IsText(w, t[2], t[3])
    OBVIOUS
  <2>3. \A t \in tracked' : t \in acked' \/ InQueue(t)' \/ t[2] \in erased'
    OBVIOUS
  <2> QED BY <2>1, <2>2, <2>3 DEF Ticks, IsText
<1> QED BY <1>1, <1>2, <1>3, <1>4 DEF MailOK

\* What is queued is the twin of what was given, and so are the record and our own copy.
LEMMA QueueIs ==
  ASSUME MailTypes, NEW ws \in SUBSET Waiting, NEW line, NEW group,
         \A w \in ws : line[w.dev] \in Group /\ group[w.dev] \in Group,
         Queue(ws, line, group)
  PROVE  /\ letters \subseteq letters' /\ letters' \subseteq Copied
         /\ \A x \in letters' : x \notin letters => \E w \in ws : x = Twin(w, line)
         /\ msgs' \in [MsgId -> Message \union {NoOne}]
         /\ \A i \in MsgId : \/ msgs'[i] = msgs[i]
                             \/ \E w \in ws : /\ w.what = "text" /\ w.id = i /\ ~w.stored
                                               /\ msgs'[i].line = line[w.dev] /\ msgs'[i].ver = w.ver /\ msgs'[i].own
         /\ tracked \subseteq tracked' /\ tracked' \subseteq Group \X MsgId \X PeerDevice
         /\ \A t \in tracked' : t \notin tracked =>
                \E w \in ws : w.what = "text" /\ t = <<line[w.dev], w.id, w.dev>> /\ Twin(w, line) \in letters'
<1> DEFINE new == NewCopies(ws, line)
           own == Stored(new)
<1>1. new \subseteq ws /\ own \subseteq ws
  BY DEF NewCopies, Stored
<1>2. /\ letters' = letters \union {Twin(w, line) : w \in new}
      /\ msgs' = [i \in MsgId |->
           IF \E w \in own : w.id = i
           THEN LET w == CHOOSE w \in own : w.id = i
                IN [line |-> line[w.dev], dev |-> w.dev, group |-> group[w.dev], ver |-> w.ver, own |-> TRUE]
           ELSE msgs[i]]
      /\ tracked' = tracked \union {<<line[w.dev], w.id, w.dev>> : w \in {x \in new : x.what = "text"}}
  BY DEF Queue
<1>3. \A w \in ws : /\ w.what \in What /\ w.id \in MsgId /\ w.ver \in Version /\ w.dev \in PeerDevice
                    /\ Twin(w, line) \in Copied
  BY DEF Waiting, Twin, Copied
<1>4. \A w \in own : w.what = "text" /\ ~w.stored
  BY DEF Stored
<1> HIDE DEF new, own
<1>5. \A i \in MsgId :
         \/ msgs'[i] = msgs[i]
         \/ \E w \in own : w.id = i /\ msgs'[i] = [line |-> line[w.dev], dev |-> w.dev, group |-> group[w.dev],
                                                ver |-> w.ver, own |-> TRUE]
  <2> SUFFICES ASSUME NEW i \in MsgId
               PROVE  \/ msgs'[i] = msgs[i]
                      \/ \E w \in own : w.id = i /\ msgs'[i] = [line |-> line[w.dev], dev |-> w.dev, group |-> group[w.dev],
                                                             ver |-> w.ver, own |-> TRUE]
    OBVIOUS
  <2>1. CASE \E w \in own : w.id = i
    <3> DEFINE w == CHOOSE v \in own : v.id = i
    <3>1. w \in own /\ w.id = i
      BY <2>1
    <3>2. msgs'[i] = [line |-> line[w.dev], dev |-> w.dev, group |-> group[w.dev], ver |-> w.ver, own |-> TRUE]
      BY <1>2, <2>1
    <3> HIDE DEF w
    <3> QED BY <3>1, <3>2
  <2>2. CASE ~ \E w \in own : w.id = i
    BY <1>2, <2>2
  <2> QED BY <2>1, <2>2
<1>6. \A i \in MsgId : msgs'[i] \in Message \union {NoOne}
  <2> SUFFICES ASSUME NEW i \in MsgId, msgs'[i] # msgs[i] PROVE msgs'[i] \in Message
    BY DEF MailTypes
  <2>1. PICK w \in own : msgs'[i] = [line |-> line[w.dev], dev |-> w.dev, group |-> group[w.dev],
                                   ver |-> w.ver, own |-> TRUE]
    BY <1>5
  <2>2. line[w.dev] \in Group /\ group[w.dev] \in Group /\ w.dev \in PeerDevice /\ w.ver \in Version
    BY <1>1, <1>3
  <2> QED BY <2>1, <2>2 DEF Message
<1>7. msgs' \in [MsgId -> Message \union {NoOne}]
  BY <1>2, <1>6
<1>8. letters' \subseteq Copied
  BY <1>1, <1>2, <1>3 DEF MailTypes
<1>9. \A t \in tracked' : t \notin tracked =>
         \E w \in new : w.what = "text" /\ t = <<line[w.dev], w.id, w.dev>> /\ Twin(w, line) \in letters'
  BY <1>2
<1>10. tracked' \subseteq Group \X MsgId \X PeerDevice
  <2> SUFFICES ASSUME NEW t \in tracked', t \notin tracked PROVE t \in Group \X MsgId \X PeerDevice
    BY DEF MailTypes
  <2>1. PICK w \in ws : t = <<line[w.dev], w.id, w.dev>>
    BY <1>1, <1>9
  <2> QED BY <1>3, <2>1
<1>11. \A i \in MsgId :
          \/ msgs'[i] = msgs[i]
          \/ \E w \in ws : /\ w.what = "text" /\ w.id = i /\ ~w.stored
                            /\ msgs'[i].line = line[w.dev] /\ msgs'[i].ver = w.ver /\ msgs'[i].own
  <2> SUFFICES ASSUME NEW i \in MsgId, msgs'[i] # msgs[i]
               PROVE  \E w \in ws : /\ w.what = "text" /\ w.id = i /\ ~w.stored
                                    /\ msgs'[i].line = line[w.dev] /\ msgs'[i].ver = w.ver /\ msgs'[i].own
    OBVIOUS
  <2>1. PICK w \in own : w.id = i /\ msgs'[i] = [line |-> line[w.dev], dev |-> w.dev, group |-> group[w.dev],
                                             ver |-> w.ver, own |-> TRUE]
    BY <1>5
  <2>2. msgs'[i].line = line[w.dev] /\ msgs'[i].ver = w.ver /\ msgs'[i].own
    BY <2>1
  <2> QED BY <1>1, <1>4, <2>1, <2>2
<1> QED BY <1>1, <1>2, <1>7, <1>8, <1>9, <1>10, <1>11

\* All devices a message goes to that have a channel have it in the same line.
LEMMA RecipientsAre ==
  ASSUME ChatsOK, NEW d \in PeerDevice
  PROVE  /\ d \in Recipients(d) /\ Recipients(d) \subseteq PeerDevice
         /\ \A e \in Listed : Lined[e] \in Group /\ chat[e] \in Group
         /\ \A e, f \in Recipients(d) \intersect Listed : Lined[e] = Lined[f]
<1>1. d \in Recipients(d) /\ Recipients(d) \subseteq PeerDevice
  BY DEF ChatsOK, ChatTypes, Recipients
<1>2. \A e \in Listed : Lined[e] = thread[chat[e]] /\ e \in PeerDevice /\ chat[e] # 0
  BY DEF Listed, Lined
<1>3. \A e \in Listed : Lined[e] \in Group /\ chat[e] \in Group
  BY <1>2 DEF ChatsOK, ChatTypes, Group
<1>4. ASSUME NEW e \in Recipients(d) \intersect Listed, NEW f \in Recipients(d) \intersect Listed
      PROVE  Lined[e] = Lined[f]
  <2>1. CASE d \notin known \/ lists[d] = {}
    BY <2>1 DEF Recipients
  <2>2. CASE ~ (d \notin known \/ lists[d] = {})
    <3>1. e \in known /\ f \in known /\ PersonOf[e] = PersonOf[f]
      BY <2>2 DEF Recipients
    <3> QED BY <1>2, <3>1 DEF ChatsOK, Together
  <2> QED BY <2>1, <2>2
<1> QED BY <1>1, <1>3, <1>4

\* A message that is written: its id is new.
LEMMA SendTextKeeps ==
  ASSUME ChatsOK, MailOK, NEW d \in PeerDevice, NEW id \in MsgId, SendText(d, id)
  PROVE  MailOK'
<1> DEFINE to == Recipients(d)
           ready == to \intersect Listed
           Copy(e, f) == [what |-> "text", id |-> id, ver |-> 0, dev |-> e, stored |-> e # f]
<1>1. /\ id \notin used /\ used' = used \union {id}
      /\ waited' = IF ready # to THEN waited \union {id} ELSE waited
      /\ UNCHANGED <<acked, receipted, erased, sent, got>>
  BY DEF SendText
<1>2. PICK f \in PeerDevice : /\ Queue({Copy(e, f) : e \in ready}, Lined, chat)
                             /\ waits' = waits \union {Copy(e, f) : e \in to \ ready}
  BY RecipientsAre DEF SendText
<1> DEFINE ws == {Copy(e, f) : e \in ready}
<1>3. /\ to \subseteq PeerDevice
      /\ \A e \in ready : Lined[e] \in Group /\ chat[e] \in Group
      /\ \A e, h \in ready : Lined[e] = Lined[h]
  BY RecipientsAre
<1> HIDE DEF to
<1>4. \A e \in PeerDevice : /\ Copy(e, f) \in Waiting /\ Copy(e, f).what = "text" /\ Copy(e, f).id = id
                            /\ Copy(e, f).dev = e /\ Copy(e, f).ver = 0
  BY ThreadsAssumption DEF ThreadsAssumption, Waiting, What, Version
<1> HIDE DEF Copy
<1>5. /\ ws \in SUBSET Waiting
      /\ \A w \in ws : Lined[w.dev] \in Group /\ chat[w.dev] \in Group
      /\ \A w \in ws : w.what = "text" /\ w.id = id /\ w.ver = 0 /\ w.dev \in ready
      /\ \A w, v \in ws : w.dev = v.dev => w = v
      /\ \A w, v \in ws : Lined[w.dev] = Lined[v.dev]
  BY <1>3, <1>4
<1>6. /\ letters \subseteq letters' /\ letters' \subseteq Copied
      /\ \A x \in letters' : x \notin letters => \E w \in ws : x = Twin(w, Lined)
      /\ msgs' \in [MsgId -> Message \union {NoOne}]
      /\ \A i \in MsgId : \/ msgs'[i] = msgs[i]
                          \/ \E w \in ws : /\ w.what = "text" /\ w.id = i /\ ~w.stored
                                            /\ msgs'[i].line = Lined[w.dev] /\ msgs'[i].ver = w.ver /\ msgs'[i].own
      /\ tracked \subseteq tracked' /\ tracked' \subseteq Group \X MsgId \X PeerDevice
      /\ \A t \in tracked' : t \notin tracked =>
             \E w \in ws : w.what = "text" /\ t = <<Lined[w.dev], w.id, w.dev>> /\ Twin(w, Lined) \in letters'
  <2>1. MailTypes /\ Queue(ws, Lined, chat)
    BY <1>2 DEF MailOK
  <2> HIDE DEF ws
  <2> QED BY <1>5, <2>1, QueueIs
<1>7. \A w \in waits' : w \notin waits => /\ w \in Waiting /\ w.what = "text" /\ w.id = id /\ w.dev \in to \ ready
                                       /\ w = Copy(w.dev, f)
  BY <1>2, <1>3, <1>4
<1>8. \A x \in letters' : x \notin letters =>
         /\ x.what = "text" /\ x.id = id /\ x.ver = 0 /\ x.dev \in ready /\ x.line = Lined[x.dev]
         /\ \E w \in ws : x = Twin(w, Lined) /\ w.dev = x.dev
  BY <1>5, <1>6 DEF Twin
<1> HIDE DEF ws, ready
<1>9. /\ \A x \in letters : x.what = "text" => x.id # id
      /\ \A w \in waits : w.what = "text" => w.id # id
      /\ msgs[id] = NoOne /\ id \notin erased
      /\ \A t \in tracked : t[2] # id
  BY <1>1 DEF MailOK, Ages
<1>10. waits \subseteq waits' /\ waited \subseteq waited' /\ (ready # to => id \in waited')
  BY <1>1, <1>2
<1>11. MailTypes'
  <2>1. waits' \subseteq Waiting
    BY <1>7 DEF MailOK, MailTypes
  <2> QED BY <1>1, <1>6, <2>1 DEF MailOK, MailTypes
<1>12. \A i \in MsgId : i # id => msgs'[i] = msgs[i]
  BY <1>5, <1>6
<1>13. Ages'
  <2>1. erased' \subseteq used' /\ got' \subseteq sent' /\ \A i \in MsgId : msgs'[i] # NoOne => i \in used'
    BY <1>1, <1>12 DEF MailOK, Ages
  <2>2. \A x \in letters' : x.what = "text" => x.id \in used'
    BY <1>1, <1>8 DEF MailOK, Ages
  <2>3. \A w \in waits' : w.what = "text" => w.id \in used' /\ w.id \in waited'
    <3> SUFFICES ASSUME NEW w \in waits', w.what = "text" PROVE w.id \in used' /\ w.id \in waited'
      OBVIOUS
    <3>1. CASE w \in waits
      BY <1>1, <1>10, <3>1 DEF MailOK, Ages
    <3>2. CASE w \notin waits
      BY <1>1, <1>7, <1>10, <3>2
    <3> QED BY <3>1, <3>2
  <2>4. \A t \in tracked' : t[2] \in used'
    <3> SUFFICES ASSUME NEW t \in tracked' PROVE t[2] \in used'
      OBVIOUS
    <3>1. CASE t \in tracked
      BY <1>1, <3>1 DEF MailOK, Ages
    <3>2. CASE t \notin tracked
      <4>1. PICK w \in ws : t = <<Lined[w.dev], w.id, w.dev>>
        BY <1>6, <3>2
      <4> QED BY <1>1, <1>5, <4>1
    <3> QED BY <3>1, <3>2
  <2> QED BY <2>1, <2>2, <2>3, <2>4 DEF Ages
<1>14. AsShown'
  <2> SUFFICES ASSUME NEW x \in letters', x.what = "text", x.id \notin waited'
               PROVE  /\ x.id \notin erased'
                      /\ msgs'[x.id] # NoOne => x.ver = msgs'[x.id].ver /\ x.line = msgs'[x.id].line /\ msgs'[x.id].own
                      /\ \A y \in letters' : y.what = "text" /\ y.id = x.id => y.line = x.line
    BY DEF AsShown
  <2>1. x.id \in MsgId
    BY <1>6 DEF Copied
  <2>2. CASE x \in letters
    <3>1. x.id # id /\ x.id \notin waited /\ msgs'[x.id] = msgs[x.id]
      BY <1>9, <1>10, <1>12, <2>1, <2>2
    <3>2. \A y \in letters' : y.what = "text" /\ y.id = x.id => y \in letters
      BY <1>8, <3>1
    <3> QED BY <1>1, <2>2, <3>1, <3>2 DEF MailOK, AsShown
  <2>3. CASE x \notin letters
    <3>1. x.id = id /\ x.ver = 0 /\ x.dev \in ready /\ x.line = Lined[x.dev]
      BY <1>8, <2>3
    <3>2. x.id \notin erased'
      BY <1>1, <1>9, <3>1
    <3>3. ASSUME msgs'[id] # NoOne PROVE x.ver = msgs'[id].ver /\ x.line = msgs'[id].line /\ msgs'[id].own
      <4>1. PICK w \in ws : msgs'[id].line = Lined[w.dev] /\ msgs'[id].ver = w.ver /\ msgs'[id].own
        BY <1>6, <1>9, <3>3
      <4>2. w.ver = 0 /\ Lined[w.dev] = x.line
        BY <1>3, <1>5, <3>1
      <4> QED BY <3>1, <4>1, <4>2
    <3>4. ASSUME NEW y \in letters', y.what = "text", y.id = id PROVE y.line = x.line
      <4>1. y \notin letters
        BY <1>9, <3>4
      <4>2. y.dev \in ready /\ y.line = Lined[y.dev]
        BY <1>8, <4>1
      <4> QED BY <1>3, <3>1, <4>2
    <3> QED BY <3>1, <3>2, <3>3, <3>4
  <2> QED BY <2>2, <2>3
<1>15. Single'
  <2> SUFFICES ASSUME NEW i \in MsgId, NEW e \in PeerDevice
               PROVE  /\ \A x, y \in letters' : IsText(x, i, e) /\ IsText(y, i, e) => x = y
                      /\ \A w, v \in waits' : IsText(w, i, e) /\ IsText(v, i, e) => w = v
                      /\ \A x \in letters', w \in waits' : IsText(x, i, e) => ~IsText(w, i, e)
    BY DEF Single, IsText
  <2>1. CASE i # id
    <3>1. /\ \A x \in letters' : IsText(x, i, e) => x \in letters
          /\ \A w \in waits' : IsText(w, i, e) => w \in waits
      BY <1>7, <1>8, <2>1 DEF IsText
    <3> QED BY <3>1 DEF MailOK, Single
  <2>2. CASE i = id
    <3>1. /\ \A x \in letters' : IsText(x, i, e) => x \notin letters
          /\ \A w \in waits' : IsText(w, i, e) => w \notin waits
      BY <1>9, <2>2 DEF IsText
    <3>2. \A x, y \in letters' : IsText(x, i, e) /\ IsText(y, i, e) => x = y
      <4> SUFFICES ASSUME NEW x \in letters', NEW y \in letters', IsText(x, i, e), IsText(y, i, e) PROVE x = y
        OBVIOUS
      <4>1. PICK w \in ws : x = Twin(w, Lined) /\ w.dev = x.dev
        BY <1>8, <3>1
      <4>2. PICK v \in ws : y = Twin(v, Lined) /\ v.dev = y.dev
        BY <1>8, <3>1
      <4>3. x.dev = y.dev
        BY DEF IsText
      <4> QED BY <1>5, <4>1, <4>2, <4>3
    <3>3. \A w, v \in waits' : IsText(w, i, e) /\ IsText(v, i, e) => w = v
      BY <1>7, <3>1 DEF IsText
    <3>4. \A x \in letters', w \in waits' : IsText(x, i, e) => ~IsText(w, i, e)
      BY <1>7, <1>8, <3>1 DEF IsText
    <3> QED BY <3>2, <3>3, <3>4
  <2> QED BY <2>1, <2>2
<1>16. Ticks'
  <2>1. \A t \in receipted' : <<t[2], t[3]>> \in got'
    BY <1>1 DEF MailOK, Ticks
  <2>2. ASSUME NEW t \in acked'
        PROVE  /\ <<t[2], t[3]>> \in sent'
               /\ \A x \in letters' : ~IsText(x, t[2], t[3])
               /\ \A w \in waits' : ~IsText(w, t[2], t[3])
    <3>1. t \in acked /\ t[2] # id
      BY <1>1, <1>9 DEF MailOK, MailTypes
    <3>2. /\ \A x \in letters' : IsText(x, t[2], t[3]) => x \in letters
          /\ \A w \in waits' : IsText(w, t[2], t[3]) => w \in waits
      BY <1>7, <1>8, <3>1 DEF IsText
    <3> QED BY <1>1, <3>1, <3>2 DEF MailOK, Ticks
  <2>3. ASSUME NEW t \in tracked' PROVE t \in acked' \/ InQueue(t)' \/ t[2] \in erased'
    <3>1. CASE t \in tracked
      BY <1>1, <1>6, <3>1 DEF MailOK, Ticks, InQueue
    <3>2. CASE t \notin tracked
      <4>1. PICK w \in ws : t = <<Lined[w.dev], w.id, w.dev>> /\ w.what = "text" /\ Twin(w, Lined) \in letters'
        BY <1>6, <3>2
      <4> QED BY <4>1 DEF Twin, InQueue
    <3> QED BY <3>1, <3>2
  <2> QED BY <2>1, <2>2, <2>3 DEF Ticks, IsText
<1> QED BY <1>11, <1>13, <1>14, <1>15, <1>16 DEF MailOK

\* What has waited for a device is queued, and waits no more.
LEMMA EmptiedKeeps ==
  ASSUME MailOK, NEW d \in PeerDevice, NEW line, NEW group, line[d] \in Group, group[d] \in Group,
         NEW ws, ws = {w \in waits : w.dev = d}, Queue(ws, line, group), waits' = waits \ ws,
         UNCHANGED <<acked, receipted, past>>
  PROVE  MailOK'
<1>1. /\ ws \in SUBSET Waiting
      /\ \A w \in ws : line[w.dev] \in Group /\ group[w.dev] \in Group
      /\ \A w \in ws : w \in waits /\ w.dev = d
  BY DEF MailOK, MailTypes
<1>2. /\ letters \subseteq letters' /\ letters' \subseteq Copied
      /\ \A x \in letters' : x \notin letters => \E w \in ws : x = Twin(w, line)
      /\ msgs' \in [MsgId -> Message \union {NoOne}]
      /\ \A i \in MsgId : \/ msgs'[i] = msgs[i]
                          \/ \E w \in ws : /\ w.what = "text" /\ w.id = i /\ ~w.stored
                                            /\ msgs'[i].line = line[w.dev] /\ msgs'[i].ver = w.ver /\ msgs'[i].own
      /\ tracked \subseteq tracked' /\ tracked' \subseteq Group \X MsgId \X PeerDevice
      /\ \A t \in tracked' : t \notin tracked =>
             \E w \in ws : w.what = "text" /\ t = <<line[w.dev], w.id, w.dev>> /\ Twin(w, line) \in letters'
  <2>1. MailTypes
    BY DEF MailOK
  <2> QED BY <1>1, <2>1, QueueIs
<1>3. UNCHANGED <<acked, receipted, used, erased, waited, sent, got>>
  BY DEF past
<1>4. \A x \in letters' : x \notin letters =>
         \E w \in ws : x = Twin(w, line) /\ x.what = w.what /\ x.id = w.id /\ x.dev = w.dev
  BY <1>2 DEF Twin
<1>5. /\ \A w \in waits' : w \in waits /\ w \notin ws
      /\ \A w \in ws : w.what = "text" => w.id \in used /\ w.id \in waited
  BY <1>1 DEF MailOK, Ages
<1>6. \A x \in letters' : x.what = "text" /\ x.id \notin waited => x \in letters
  BY <1>4, <1>5
<1>7. \A i \in MsgId : i \notin waited => msgs'[i] = msgs[i]
  BY <1>2, <1>5
<1>8. MailTypes'
  <2>1. waits' \subseteq Waiting
    BY <1>5 DEF MailOK, MailTypes
  <2> QED BY <1>2, <1>3, <2>1 DEF MailOK, MailTypes
<1>9. Ages'
  <2>1. erased' \subseteq used' /\ got' \subseteq sent'
    BY <1>3 DEF MailOK, Ages
  <2>2. \A i \in MsgId : msgs'[i] # NoOne => i \in used'
    BY <1>2, <1>3, <1>5 DEF MailOK, Ages
  <2>3. \A x \in letters' : x.what = "text" => x.id \in used'
    BY <1>3, <1>4, <1>5 DEF MailOK, Ages
  <2>4. \A w \in waits' : w.what = "text" => w.id \in used' /\ w.id \in waited'
    BY <1>3, <1>5 DEF MailOK, Ages
  <2>5. ASSUME NEW t \in tracked' PROVE t[2] \in used'
    <3>1. CASE t \in tracked
      BY <1>3, <3>1 DEF MailOK, Ages
    <3>2. CASE t \notin tracked
      <4>1. PICK w \in ws : w.what = "text" /\ t = <<line[w.dev], w.id, w.dev>>
        BY <1>2, <3>2
      <4> QED BY <1>3, <1>5, <4>1
    <3> QED BY <3>1, <3>2
  <2> QED BY <2>1, <2>2, <2>3, <2>4, <2>5 DEF Ages
<1>10. AsShown'
  <2> SUFFICES ASSUME NEW x \in letters', x.what = "text", x.id \notin waited
               PROVE  /\ x.id \notin erased
                      /\ msgs'[x.id] # NoOne => x.ver = msgs'[x.id].ver /\ x.line = msgs'[x.id].line /\ msgs'[x.id].own
                      /\ \A y \in letters' : y.what = "text" /\ y.id = x.id => y.line = x.line
    BY <1>3 DEF AsShown
  <2>1. x \in letters /\ x.id \in MsgId /\ msgs'[x.id] = msgs[x.id]
    BY <1>2, <1>6, <1>7 DEF Copied
  <2>2. \A y \in letters' : y.what = "text" /\ y.id = x.id => y \in letters
    BY <1>6
  <2> QED BY <2>1, <2>2 DEF MailOK, AsShown
<1>11. Single'
  <2> SUFFICES ASSUME NEW i \in MsgId, NEW e \in PeerDevice
               PROVE  /\ \A x, y \in letters' : IsText(x, i, e) /\ IsText(y, i, e) => x = y
                      /\ \A w, v \in waits' : IsText(w, i, e) /\ IsText(v, i, e) => w = v
                      /\ \A x \in letters', w \in waits' : IsText(x, i, e) => ~IsText(w, i, e)
    BY DEF Single, IsText
  <2>1. /\ \A x, y \in letters : IsText(x, i, e) /\ IsText(y, i, e) => x = y
        /\ \A w, v \in waits : IsText(w, i, e) /\ IsText(v, i, e) => w = v
        /\ \A x \in letters, w \in waits : IsText(x, i, e) => ~IsText(w, i, e)
    BY DEF MailOK, Single
  <2>2. \A x \in letters' : IsText(x, i, e) /\ x \notin letters =>
           \E w \in ws : x = Twin(w, line) /\ IsText(w, i, e)
    BY <1>4 DEF IsText
  <2>3. \A x, y \in letters' : IsText(x, i, e) /\ IsText(y, i, e) => x = y
    BY <1>1, <2>1, <2>2
  <2>4. \A x \in letters', w \in waits' : IsText(x, i, e) => ~IsText(w, i, e)
    BY <1>1, <1>5, <2>1, <2>2
  <2> QED BY <1>5, <2>1, <2>3, <2>4
<1>12. Ticks'
  <2>1. \A t \in receipted' : <<t[2], t[3]>> \in got'
    BY <1>3 DEF MailOK, Ticks
  <2>2. ASSUME NEW t \in acked'
        PROVE  /\ <<t[2], t[3]>> \in sent'
               /\ \A x \in letters' : ~IsText(x, t[2], t[3])
               /\ \A w \in waits' : ~IsText(w, t[2], t[3])
    <3>1. /\ t \in acked /\ <<t[2], t[3]>> \in sent
          /\ \A x \in letters : ~IsText(x, t[2], t[3])
          /\ \A w \in waits : ~IsText(w, t[2], t[3])
      BY <1>3 DEF MailOK, Ticks
    <3>2. \A x \in letters' : ~IsText(x, t[2], t[3])
      BY <1>1, <1>4, <3>1 DEF IsText
    <3> QED BY <1>3, <1>5, <3>1, <3>2
  <2>3. ASSUME NEW t \in tracked' PROVE t \in acked' \/ InQueue(t)' \/ t[2] \in erased'
    <3>1. CASE t \in tracked
      BY <1>2, <1>3, <3>1 DEF MailOK, Ticks, InQueue
    <3>2. CASE t \notin tracked
      <4>1. PICK w \in ws : w.what = "text" /\ t = <<line[w.dev], w.id, w.dev>> /\ Twin(w, line) \in letters'
        BY <1>2, <3>2
      <4> QED BY <4>1 DEF Twin, InQueue
    <3> QED BY <3>1, <3>2
  <2> QED BY <2>1, <2>2, <2>3 DEF Ticks, IsText
<1> QED BY <1>8, <1>9, <1>10, <1>11, <1>12 DEF MailOK

LEMMA OpenKeeps ==
  ASSUME ChatsOK, MailOK, NEW d \in PeerDevice, NEW g \in Group, Open(d, g)
  PROVE  MailOK'
<1> DEFINE ws == {w \in waits : w.dev = d}
<1>1. /\ AttachChannel(d, g)
      /\ Queue(ws, [Lined EXCEPT ![d] = thread'[g]], chat')
      /\ waits' = waits \ ws
      /\ UNCHANGED <<acked, receipted, past>>
  BY DEF Open
<1>2. thread'[g] \in Group /\ chat'[d] = g
  BY <1>1, AttachKeeps
<1>3. [Lined EXCEPT ![d] = thread'[g]][d] \in Group /\ chat'[d] \in Group
  BY <1>2 DEF Lined
<1> HIDE DEF ws
<1>4. ws = {w \in waits : w.dev = d}
  BY DEF ws
<1> QED BY <1>1, <1>3, <1>4, EmptiedKeeps

LEMMA OnTickerKeeps ==
  ASSUME ChatsOK, MailOK, NEW d \in PeerDevice, OnTicker(d)
  PROVE  MailOK'
<1> DEFINE ws == {w \in waits : w.dev = d}
<1>1. /\ chat[d] # 0 /\ Queue(ws, Lined, chat) /\ waits' = waits \ ws
      /\ UNCHANGED <<acked, receipted, past>>
  BY DEF OnTicker
<1>2. Lined[d] \in Group /\ chat[d] \in Group
  BY <1>1, RecipientsAre DEF Listed
<1> HIDE DEF ws
<1>3. ws = {w \in waits : w.dev = d}
  BY DEF ws
<1> QED BY <1>1, <1>2, <1>3, EmptiedKeeps

\* A request to delete or to edit adds no message to the queue.
LEMMA AsksIs ==
  ASSUME ChatsOK, MailTypes, NEW line, NEW what \in {"delete", "edit"}, NEW id \in MsgId, NEW ver \in Version,
         NEW left \in SUBSET Copied, Asks(line, what, id, ver, left)
  PROVE  /\ letters' \subseteq Copied /\ left \subseteq letters' /\ \A x \in letters' : x.what = "text" => x \in left
         /\ waits' \subseteq Waiting /\ \A w \in waits' : w.what = "text" => w \in waits
<1>1. CASE letters' = left /\ waits' = waits
  BY <1>1 DEF MailTypes
<1>2. CASE ~ (letters' = left /\ waits' = waits)
  <2> DEFINE Request(e) == [what |-> what, id |-> id, ver |-> ver, dev |-> e, stored |-> TRUE]
  <2>1. PICK p \in PeerDevice :
           /\ letters' = left \union {Twin(Request(e), Lined) : e \in Recipients(p) \intersect Listed}
           /\ waits' = waits \union {Request(e) : e \in Recipients(p) \ Listed}
    BY <1>2 DEF Asks, PeerOf
  <2>2. Recipients(p) \subseteq PeerDevice /\ \A e \in Listed : Lined[e] \in Group
    BY RecipientsAre
  <2>3. what \in What /\ what # "text"
    BY DEF What
  <2>4. \A e \in PeerDevice : Request(e) \in Waiting /\ Request(e).what # "text"
    BY <2>3 DEF Waiting
  <2>5. \A e \in PeerDevice \intersect Listed : Twin(Request(e), Lined) \in Copied /\ Twin(Request(e), Lined).what # "text"
    BY <2>2, <2>3 DEF Copied, Twin
  <2> HIDE DEF Request
  <2>6. letters' \subseteq Copied /\ left \subseteq letters' /\ \A x \in letters' : x.what = "text" => x \in left
    BY <2>1, <2>2, <2>5
  <2>7. waits' \subseteq Waiting /\ \A w \in waits' : w.what = "text" => w \in waits
    BY <2>1, <2>2, <2>4 DEF MailTypes
  <2> QED BY <2>6, <2>7
<1> QED BY <1>1, <1>2

\* Messages are deleted as their copies are taken from the queue.
LEMMA ErasedKeeps ==
  ASSUME MailOK, NEW cut \in SUBSET MsgId, NEW line \in Group,
         letters' \subseteq Copied, waits' \subseteq Waiting,
         \A x \in letters' : x.what = "text" => x \in letters /\ ~ (x.line = line /\ x.id \in cut),
         \A x \in letters : x.what = "text" /\ ~ (x.line = line /\ x.id \in cut) => x \in letters',
         \A w \in waits' : w.what = "text" => w \in waits,
         msgs' = Without(cut \intersect Here(line)),
         erased' = erased \union (cut \intersect Shown(line)),
         UNCHANGED <<ticks, used, waited, sent, got>>
  PROVE  MailOK'
<1>1. /\ \A i \in MsgId : \/ msgs'[i] = msgs[i] /\ ~ (i \in cut /\ msgs[i] # NoOne /\ msgs[i].line = line)
                          \/ msgs'[i] = NoOne
      /\ msgs' \in [MsgId -> Message \union {NoOne}]
  BY DEF Without, Here, MailOK, MailTypes
<1>2. \A i \in MsgId : i \in Shown(line) <=> \/ msgs[i] # NoOne /\ msgs[i].line = line
                                            \/ \E x \in letters : x.what = "text" /\ x.line = line /\ x.id = i
  BY DEF Shown, Here, Texts
<1>3. UNCHANGED <<tracked, acked, receipted, used, waited, sent, got>>
  BY DEF ticks
<1>4. MailTypes'
  BY <1>1, <1>3 DEF MailOK, MailTypes
<1>5. erased' \subseteq used'
  <2>1. \A i \in cut \intersect Shown(line) : i \in used
    BY <1>2 DEF MailOK, Ages
  <2> QED BY <1>3, <2>1 DEF MailOK, Ages
<1>6. \A i \in MsgId : msgs'[i] # NoOne => i \in used'
  BY <1>1, <1>3 DEF MailOK, Ages
<1>7. ASSUME NEW x \in letters', x.what = "text", x.id \notin waited
      PROVE  /\ x.id \notin erased'
             /\ msgs'[x.id] # NoOne => x.ver = msgs'[x.id].ver /\ x.line = msgs'[x.id].line /\ msgs'[x.id].own
  <2>1. x \in letters /\ ~ (x.line = line /\ x.id \in cut) /\ x.id \in MsgId
    BY <1>7 DEF Copied
  <2>2. /\ x.id \notin erased
        /\ msgs[x.id] # NoOne => x.ver = msgs[x.id].ver /\ x.line = msgs[x.id].line /\ msgs[x.id].own
        /\ \A y \in letters : y.what = "text" /\ y.id = x.id => y.line = x.line
    BY <1>7, <2>1 DEF MailOK, AsShown
  <2>3. x.id \in cut => x.id \notin Shown(line)
    BY <1>2, <2>1, <2>2
  <2> QED BY <1>1, <2>1, <2>2, <2>3
<1>8. \A t \in receipted' : <<t[2], t[3]>> \in got'
  BY <1>3 DEF MailOK, Ticks
<1>9. ASSUME NEW t \in acked'
      PROVE  /\ <<t[2], t[3]>> \in sent'
             /\ \A x \in letters' : ~IsText(x, t[2], t[3])
             /\ \A w \in waits' : ~IsText(w, t[2], t[3])
  BY <1>3 DEF MailOK, Ticks, IsText
<1>10. ASSUME NEW t \in tracked PROVE t \in acked' \/ InQueue(t)' \/ t[2] \in erased'
  <2>1. t \in acked \/ t[2] \in erased \/ InQueue(t)
    BY DEF MailOK, Ticks
  <2>2. CASE InQueue(t)
    <3>1. PICK x \in letters : x.what = "text" /\ <<x.line, x.id, x.dev>> = t
      BY <2>2 DEF InQueue
    <3>2. CASE x \in letters'
      BY <3>1, <3>2 DEF InQueue
    <3>3. CASE x \notin letters'
      <4>1. x.line = line /\ x.id \in cut /\ x.id \in MsgId /\ t[2] = x.id
        BY <3>1, <3>3
      <4>2. x.id \in Shown(line)
        BY <1>2, <3>1, <4>1
      <4> QED BY <4>1, <4>2
    <3> QED BY <3>2, <3>3
  <2> QED BY <1>3, <2>1, <2>2
<1>11. got' \subseteq sent' /\ used \subseteq used'
  BY <1>3 DEF MailOK, Ages
<1>12. tracked' = tracked /\ waited' = waited
  BY <1>3
<1> QED BY <1>4, <1>5, <1>6, <1>7, <1>8, <1>9, <1>10, <1>11, <1>12, Fewer

LEMMA EraseMessageKeeps ==
  ASSUME ChatsOK, MailOK, NEW line \in Group, NEW id \in MsgId, NEW both \in BOOLEAN, EraseMessage(line, id, both)
  PROVE  MailOK'
<1> DEFINE left == {x \in letters : x \in Texts(line) => x.id # id}
<1>1. /\ msgs' = Without({id} \intersect Here(line))
      /\ erased' = erased \union ({id} \intersect Shown(line))
      /\ IF both THEN Asks(line, "delete", id, 0, left) ELSE letters' = left /\ UNCHANGED <<waits, wants>>
      /\ UNCHANGED <<ticks, used, waited, sent, got>>
  BY DEF EraseMessage
<1>2. /\ left \in SUBSET Copied
      /\ \A x \in left : x.what = "text" => x \in letters /\ ~ (x.line = line /\ x.id \in {id})
      /\ \A x \in letters : x.what = "text" /\ ~ (x.line = line /\ x.id \in {id}) => x \in left
  BY DEF Texts, MailOK, MailTypes
<1> HIDE DEF left
<1>3. /\ letters' \subseteq Copied /\ left \subseteq letters' /\ \A x \in letters' : x.what = "text" => x \in left
      /\ waits' \subseteq Waiting /\ \A w \in waits' : w.what = "text" => w \in waits
  <2>1. CASE both
    <3>1. 0 \in Version /\ MailTypes
      BY ThreadsAssumption DEF ThreadsAssumption, Version, MailOK
    <3> QED BY <1>1, <1>2, <2>1, <3>1, AsksIs
  <2>2. CASE ~both
    BY <1>1, <1>2, <2>2 DEF MailOK, MailTypes
  <2> QED BY <2>1, <2>2
<1>4. /\ \A x \in letters' : x.what = "text" => x \in letters /\ ~ (x.line = line /\ x.id \in {id})
      /\ \A x \in letters : x.what = "text" /\ ~ (x.line = line /\ x.id \in {id}) => x \in letters'
  BY <1>2, <1>3
<1>5. {id} \in SUBSET MsgId
  OBVIOUS
<1> QED BY <1>1, <1>3, <1>4, <1>5, ErasedKeeps

LEMMA ClearKeeps ==
  ASSUME MailOK, NEW line \in Group, ClearThread(line) \/ DeleteThread(line)
  PROVE  MailOK'
<1>1. /\ letters' = letters \ Texts(line) \/ letters' = {x \in letters : x.line # line}
      /\ waits' = Freed(line) /\ msgs' = Without(Here(line)) /\ erased' = erased \union Shown(line)
      /\ UNCHANGED <<ticks, used, waited, sent, got>>
  BY DEF ClearThread, DeleteThread
<1>2. waits' \subseteq waits /\ letters' \subseteq letters
  BY <1>1 DEF Freed
<1>3. letters' \subseteq Copied /\ waits' \subseteq Waiting
  BY <1>2 DEF MailOK, MailTypes
<1>4. \A x \in letters : x.id \in MsgId
  BY DEF MailOK, MailTypes, Copied
<1>5. /\ \A x \in letters' : x.what = "text" => x \in letters /\ ~ (x.line = line /\ x.id \in MsgId)
      /\ \A x \in letters : x.what = "text" /\ ~ (x.line = line /\ x.id \in MsgId) => x \in letters'
  BY <1>1, <1>2, <1>4 DEF Texts
<1>6. MsgId \intersect Here(line) = Here(line) /\ MsgId \intersect Shown(line) = Shown(line)
  BY <1>4 DEF Here, Shown, Texts
<1>7. msgs' = Without(MsgId \intersect Here(line)) /\ erased' = erased \union (MsgId \intersect Shown(line))
  BY <1>1, <1>6
<1>8. MsgId \in SUBSET MsgId /\ \A w \in waits' : w.what = "text" => w \in waits
  BY <1>2
<1> QED BY <1>1, <1>3, <1>5, <1>7, <1>8, ErasedKeeps

\* A message that is edited has no copy in the queue, and one that comes has none yet.
LEMMA ChangedKeeps ==
  ASSUME MailOK, NEW id \in MsgId, letters' \subseteq Copied, waits' \subseteq Waiting, letters \subseteq letters',
         \A x \in letters' : x.what = "text" => x \in letters,
         \A w \in waits' : w.what = "text" => w \in waits,
         \A x \in letters : x.what = "text" /\ x.id \notin waited => x.id # id \/ msgs'[id] = NoOne,
         msgs' \in [MsgId -> Message \union {NoOne}],
         \A i \in MsgId : i # id => msgs'[i] = msgs[i],
         msgs'[id] # NoOne => id \in used', used \subseteq used',
         UNCHANGED <<ticks, erased, waited, sent, got>>
  PROVE  MailOK'
<1>1. UNCHANGED <<tracked, acked, receipted, erased, waited, sent, got>>
  BY DEF ticks
<1>2. MailTypes'
  BY <1>1 DEF MailOK, MailTypes
<1>3. erased' \subseteq used' /\ got' \subseteq sent' /\ \A i \in MsgId : msgs'[i] # NoOne => i \in used'
  BY <1>1 DEF MailOK, Ages
<1>4. ASSUME NEW x \in letters', x.what = "text", x.id \notin waited
      PROVE  /\ x.id \notin erased'
             /\ msgs'[x.id] # NoOne => x.ver = msgs'[x.id].ver /\ x.line = msgs'[x.id].line /\ msgs'[x.id].own
  <2>1. x \in letters /\ x.id \in MsgId
    BY <1>4 DEF Copied
  <2> QED BY <1>1, <1>4, <2>1 DEF MailOK, AsShown
<1>5. \A t \in receipted' : <<t[2], t[3]>> \in got'
  BY <1>1 DEF MailOK, Ticks
<1>6. ASSUME NEW t \in acked'
      PROVE  /\ <<t[2], t[3]>> \in sent'
             /\ \A x \in letters' : ~IsText(x, t[2], t[3])
             /\ \A w \in waits' : ~IsText(w, t[2], t[3])
  BY <1>1 DEF MailOK, Ticks, IsText
<1>7. \A t \in tracked : t \in acked' \/ InQueue(t)' \/ t[2] \in erased'
  BY <1>1 DEF MailOK, Ticks, InQueue
<1>8. tracked' = tracked /\ waited' = waited
  BY <1>1
<1> QED BY <1>2, <1>3, <1>4, <1>5, <1>6, <1>7, <1>8, Fewer

LEMMA ReceiveKeeps ==
  ASSUME ChatsOK, MailOK, NEW g \in Group, NEW id \in MsgId, Receive(g, id)
  PROVE  MailOK'
<1>1. /\ of[g] # NoOne /\ id \notin used /\ used' = used \union {id}
      /\ msgs' = [msgs EXCEPT ![id] = [line |-> thread[g], dev |-> of[g], group |-> g, ver |-> 0, own |-> FALSE]]
      /\ UNCHANGED <<letters, waits, ticks, erased, waited, sent, got>>
  BY DEF Receive
<1>2. thread[g] \in Group /\ of[g] \in PeerDevice /\ 0 \in Version
  BY <1>1, ThreadsAssumption DEF ThreadsAssumption, ChatsOK, ChatTypes, Version
<1>3. [line |-> thread[g], dev |-> of[g], group |-> g, ver |-> 0, own |-> FALSE] \in Message
  BY <1>2 DEF Message
<1>4. msgs' \in [MsgId -> Message \union {NoOne}] /\ \A i \in MsgId : i # id => msgs'[i] = msgs[i]
  BY <1>1, <1>3 DEF MailOK, MailTypes
<1>5. \A x \in letters : x.what = "text" => x.id # id
  BY <1>1 DEF MailOK, Ages
<1>6. letters' \subseteq Copied /\ waits' \subseteq Waiting
  BY <1>1 DEF MailOK, MailTypes
<1> QED BY <1>1, <1>4, <1>5, <1>6, ChangedKeeps

\* A message with its version raised.
LEMMA RaisedIs ==
  ASSUME MailTypes, NEW id \in MsgId, msgs[id] # NoOne, msgs[id].ver < MaxEdit,
         msgs' = [msgs EXCEPT ![id].ver = @ + 1]
  PROVE  /\ msgs' \in [MsgId -> Message \union {NoOne}] /\ \A i \in MsgId : i # id => msgs'[i] = msgs[i]
         /\ msgs[id].ver + 1 \in Version
<1>1. msgs[id] \in Message /\ MaxEdit \in Nat
  BY ThreadsAssumption DEF ThreadsAssumption, MailTypes
<1>2. msgs[id].ver + 1 \in Version
  BY <1>1 DEF Message, Version
<1>3. [msgs[id] EXCEPT !.ver = msgs[id].ver + 1] \in Message
  BY <1>1, <1>2 DEF Message
<1>4. msgs' = [msgs EXCEPT ![id] = [msgs[id] EXCEPT !.ver = msgs[id].ver + 1]]
  BY DEF MailTypes
<1> QED BY <1>2, <1>3, <1>4 DEF MailTypes

LEMMA ReviseKeeps ==
  ASSUME ChatsOK, MailOK, NEW line \in Group, NEW id \in MsgId, NEW both \in BOOLEAN, ReviseMessage(line, id, both)
  PROVE  MailOK'
<1>1. /\ \A x \in Texts(line) : x.id # id
      /\ id \in Here(line) /\ msgs[id].ver < MaxEdit
      /\ msgs' = [msgs EXCEPT ![id].ver = @ + 1]
      /\ IF both THEN Asks(line, "edit", id, msgs[id].ver + 1, letters) ELSE UNCHANGED <<letters, waits, wants>>
      /\ UNCHANGED <<ticks, used, erased, waited, sent, got>>
  BY DEF ReviseMessage
<1>2. MailTypes /\ msgs[id] # NoOne /\ msgs[id].line = line
  BY <1>1 DEF MailOK, Here
<1>3. /\ msgs' \in [MsgId -> Message \union {NoOne}] /\ \A i \in MsgId : i # id => msgs'[i] = msgs[i]
      /\ msgs[id].ver + 1 \in Version
  BY <1>1, <1>2, RaisedIs
<1>4. /\ letters' \subseteq Copied /\ letters \subseteq letters' /\ \A x \in letters' : x.what = "text" => x \in letters
      /\ waits' \subseteq Waiting /\ \A w \in waits' : w.what = "text" => w \in waits
  <2>1. CASE both
    <3>1. letters \in SUBSET Copied
      BY <1>2 DEF MailTypes
    <3> QED BY <1>1, <1>2, <1>3, <2>1, <3>1, AsksIs
  <2>2. CASE ~both
    BY <1>1, <1>2, <2>2 DEF MailTypes
  <2> QED BY <2>1, <2>2
<1>5. \A x \in letters : x.what = "text" /\ x.id \notin waited => x.id # id
  BY <1>1, <1>2 DEF MailOK, AsShown, Texts
<1>6. id \in used
  BY <1>2 DEF MailOK, Ages
<1> QED BY <1>1, <1>3, <1>4, <1>5, <1>6, ChangedKeeps

LEMMA PeerChangesKeep ==
  ASSUME ChatsOK, MailOK, NEW g \in Group, NEW id \in MsgId, PeerDeletes(g, id) \/ PeerEdits(g, id)
  PROVE  MailOK'
<1>1. UNCHANGED <<letters, waits, ticks, used, erased, waited, sent, got>> /\ id \in Here(thread[g])
  BY DEF PeerDeletes, PeerEdits, past
<1>2. MailTypes /\ msgs[id] # NoOne /\ id \in used
  BY <1>1 DEF MailOK, Ages, Here
<1>3. letters' \subseteq Copied /\ waits' \subseteq Waiting
  BY <1>1, <1>2 DEF MailTypes
<1>4. CASE PeerDeletes(g, id)
  <2>1. msgs' = Without({id})
    BY <1>4 DEF PeerDeletes
  <2>2. msgs' \in [MsgId -> Message \union {NoOne}] /\ \A i \in MsgId : i # id => msgs'[i] = msgs[i]
    BY <1>2, <2>1 DEF Without, MailTypes
  <2>3. msgs'[id] = NoOne
    BY <2>1 DEF Without
  <2> QED BY <1>1, <1>3, <2>2, <2>3, ChangedKeeps
<1>5. CASE PeerEdits(g, id)
  <2>1. ~msgs[id].own /\ msgs[id].ver < MaxEdit /\ msgs' = [msgs EXCEPT ![id].ver = @ + 1]
    BY <1>5 DEF PeerEdits
  <2>2. msgs' \in [MsgId -> Message \union {NoOne}] /\ \A i \in MsgId : i # id => msgs'[i] = msgs[i]
    BY <1>2, <2>1, RaisedIs
  <2>3. \A x \in letters : x.what = "text" /\ x.id \notin waited => x.id # id
    BY <1>2, <2>1 DEF MailOK, AsShown
  <2> QED BY <1>1, <1>2, <1>3, <2>2, <2>3, ChangedKeeps
<1> QED BY <1>4, <1>5

\* Only what a relay has taken in is confirmed, and only what was read is receipted.
LEMMA TickedKeeps ==
  ASSUME ChatsOK, MailOK,
         \/ \E x \in letters : RelayTakes(x) \/ Acknowledge(x)
         \/ \E d \in PeerDevice, id \in MsgId : Reads(id, d)
         \/ \E g \in Group, id \in MsgId : Receipt(g, id)
  PROVE  MailOK'
<1>1. UNCHANGED <<msgs, waits, tracked, used, erased, waited>> /\ sent \subseteq sent' /\ letters' \subseteq letters
  BY DEF RelayTakes, Acknowledge, Reads, Receipt, ticks, past
<1>2. /\ got \subseteq got' /\ got' \subseteq sent'
  BY DEF RelayTakes, Acknowledge, Reads, Receipt, ticks, past, MailOK, Ages
<1>3. receipted' \subseteq tracked /\ \A t \in receipted' : <<t[2], t[3]>> \in got'
  <2>1. CASE receipted' = receipted
    BY <1>2, <2>1 DEF MailOK, MailTypes, Ticks
  <2>2. CASE receipted' # receipted
    <3>1. PICK g \in Group, id \in MsgId : Receipt(g, id)
      BY <2>2 DEF RelayTakes, Acknowledge, Reads, ticks, past
    <3>2. /\ <<id, of[g]>> \in got
          /\ receipted' = receipted \union ({<<thread[g], id, of[g]>>} \intersect tracked)
      BY <3>1 DEF Receipt
    <3> QED BY <1>2, <3>2 DEF MailOK, MailTypes, Ticks
  <2> QED BY <2>1, <2>2
<1>4. /\ acked' \subseteq tracked
      /\ \A t \in acked' : /\ <<t[2], t[3]>> \in sent'
                           /\ \A x \in letters' : ~IsText(x, t[2], t[3])
                           /\ \A w \in waits' : ~IsText(w, t[2], t[3])
      /\ \A t \in tracked : t \in acked' \/ InQueue(t)' \/ t[2] \in erased
  <2>1. CASE letters' = letters /\ acked' = acked
    BY <1>1, <2>1 DEF MailOK, MailTypes, Ticks, IsText, InQueue
  <2>2. CASE ~ (letters' = letters /\ acked' = acked)
    <3>1. PICK x \in letters : Acknowledge(x)
      BY <2>2 DEF RelayTakes, Reads, Receipt, ticks, past
    <3>2. /\ <<x.id, x.dev>> \in sent /\ letters' = letters \ {x}
          /\ acked' = IF x.what = "text" THEN acked \union ({<<x.line, x.id, x.dev>>} \intersect tracked) ELSE acked
      BY <3>1 DEF Acknowledge
    <3>3. x.id \in MsgId /\ x.dev \in PeerDevice
      BY DEF MailOK, MailTypes, Copied
    <3>4. ASSUME NEW t \in acked'
          PROVE  /\ t \in tracked /\ <<t[2], t[3]>> \in sent'
                 /\ \A y \in letters' : ~IsText(y, t[2], t[3])
                 /\ \A w \in waits' : ~IsText(w, t[2], t[3])
      <4>1. CASE t \in acked
        BY <1>1, <3>2, <4>1 DEF MailOK, MailTypes, Ticks
      <4>2. CASE t \notin acked
        <5>1. x.what = "text" /\ t \in tracked /\ t = <<x.line, x.id, x.dev>>
          BY <3>2, <4>2
        <5>2. IsText(x, x.id, x.dev) /\ t[2] = x.id /\ t[3] = x.dev
          BY <5>1 DEF IsText
        <5>3. /\ \A y \in letters : IsText(y, x.id, x.dev) => x = y
              /\ \A w \in waits : ~IsText(w, x.id, x.dev)
          BY <3>3, <5>2 DEF MailOK, Single
        <5> QED BY <1>1, <3>2, <5>1, <5>2, <5>3
      <4> QED BY <4>1, <4>2
    <3>5. ASSUME NEW t \in tracked PROVE t \in acked' \/ InQueue(t)' \/ t[2] \in erased
      <4>1. t \in acked \/ t[2] \in erased \/ InQueue(t)
        BY DEF MailOK, Ticks
      <4>2. CASE InQueue(t)
        <5>1. PICK y \in letters : y.what = "text" /\ <<y.line, y.id, y.dev>> = t
          BY <4>2 DEF InQueue
        <5>2. CASE y = x
          BY <3>2, <5>1, <5>2
        <5>3. CASE y # x
          BY <3>2, <5>1, <5>3 DEF InQueue
        <5> QED BY <5>2, <5>3
      <4> QED BY <3>2, <4>1, <4>2
    <3> QED BY <3>4, <3>5
  <2> QED BY <2>1, <2>2
<1>5. MailTypes'
  BY <1>1, <1>3, <1>4 DEF MailOK, MailTypes
<1>6. /\ \A x \in letters' : x.what = "text" => x \in letters
      /\ \A w \in waits' : w.what = "text" => w \in waits
      /\ tracked' = tracked /\ used \subseteq used' /\ waited' = waited /\ erased' \subseteq used'
      /\ \A i \in MsgId : msgs'[i] # NoOne => i \in used'
  BY <1>1 DEF MailOK, Ages
<1>7. ASSUME NEW x \in letters', x.what = "text", x.id \notin waited
      PROVE  /\ x.id \notin erased'
             /\ msgs'[x.id] # NoOne => x.ver = msgs'[x.id].ver /\ x.line = msgs'[x.id].line /\ msgs'[x.id].own
  BY <1>1, <1>7 DEF MailOK, AsShown
<1>8. \A t \in tracked : t \in acked' \/ InQueue(t)' \/ t[2] \in erased'
  BY <1>1, <1>4
<1> QED BY <1>2, <1>3, <1>4, <1>5, <1>6, <1>7, <1>8, Fewer

\* What only the conversations go through does not touch the messages.
LEMMA MailStays ==
  ASSUME MailOK, UNCHANGED <<msgs, letters, waits, ticks, past>>
  PROVE  MailOK'
BY DEF MailOK, MailTypes, Ages, AsShown, Single, Ticks, IsText, InQueue, ticks, past

LEMMA MailStep == ChatsOK /\ MailOK /\ [ThreadsNext]_threadsVars => MailOK'
<1> SUFFICES ASSUME ChatsOK, MailOK, [ThreadsNext]_threadsVars PROVE MailOK'
  OBVIOUS
<1>1. ASSUME NEW d \in PeerDevice, \/ \E g \in Group : Joined(d, g)
                                   \/ \E ds \in SUBSET PeerDevice : Announced(d, ds)
      PROVE  UNCHANGED <<msgs, letters, waits, ticks, past>>
  BY <1>1 DEF Joined, Announced
<1>2. ASSUME UNCHANGED threadsVars PROVE UNCHANGED <<msgs, letters, waits, ticks, past>>
  BY <1>2 DEF threadsVars
<1>3. ASSUME NEW d \in PeerDevice, \/ \E g \in Group : Open(d, g)
                                   \/ \E id \in MsgId : SendText(d, id) \/ Reads(id, d)
                                   \/ OnTicker(d)
      PROVE  MailOK'
  BY <1>3, OpenKeeps, SendTextKeeps, OnTickerKeeps, TickedKeeps
<1>4. ASSUME NEW g \in Group, NEW id \in MsgId,
             \/ Receive(g, id) \/ PeerDeletes(g, id) \/ PeerEdits(g, id) \/ Receipt(g, id)
             \/ \E both \in BOOLEAN : EraseMessage(g, id, both) \/ ReviseMessage(g, id, both)
      PROVE  MailOK'
  BY <1>4, ReceiveKeeps, PeerChangesKeep, TickedKeeps, EraseMessageKeeps, ReviseKeeps
<1>5. ASSUME NEW line \in Group, ClearThread(line) \/ DeleteThread(line) PROVE MailOK'
  BY <1>5, ClearKeeps
<1>6. ASSUME NEW x \in letters, RelayTakes(x) \/ Acknowledge(x) PROVE MailOK'
  BY <1>6, TickedKeeps
<1> QED BY <1>1, <1>2, <1>3, <1>4, <1>5, <1>6, MailStays DEF ThreadsNext

LEMMA MailStart == ThreadsInit => MailOK
BY DEF ThreadsInit, MailOK, MailTypes, Ages, AsShown, Single, Ticks, IsText, InQueue

LEMMA TicksMean == MailOK => TicksAreTrue
<1> SUFFICES ASSUME MailOK, NEW line \in Group, NEW id \in MsgId
             PROVE  LET copies == Copies(line, id)
                        Queued(t) == \E x \in letters : x.what = "text" /\ <<x.line, x.id, x.dev>> = t
                    IN /\ State(line, id) = "delivered" => \A t \in copies : <<id, t[3]>> \in got
                       /\ State(line, id) = "accepted" =>
                             \A t \in copies : <<id, t[3]>> \in sent /\ (Queued(t) => <<id, t[3]>> \in got)
                       /\ State(line, id) = "queued" =>
                             \E t \in copies : Queued(t) \/ id \in erased
  BY DEF TicksAreTrue
<1> DEFINE copies == Copies(line, id)
           steps == {StepOf(t) : t \in copies}
<1>1. /\ State(line, id) = "delivered" => "queued" \notin steps /\ "accepted" \notin steps
      /\ State(line, id) = "accepted" => "queued" \notin steps
      /\ State(line, id) = "queued" => "queued" \in steps
  <2>1. NoOne \notin Stage
    BY ThreadsAssumption DEF ThreadsAssumption
  <2>2. State(line, id) = CASE steps = {} -> NoOne
                            [] "queued" \in steps -> "queued"
                            [] "queued" \notin steps /\ "accepted" \in steps -> "accepted"
                            [] OTHER -> "delivered"
    BY DEF State
  <2> HIDE DEF steps
  <2>3. CASE steps = {}
    BY <2>1, <2>2, <2>3 DEF Stage
  <2>4. CASE steps # {} /\ "queued" \in steps
    BY <2>2, <2>4
  <2>5. CASE steps # {} /\ "queued" \notin steps
    BY <2>2, <2>5
  <2> QED BY <2>3, <2>4, <2>5
<1>2. ASSUME NEW t \in copies
      PROVE  /\ t \in tracked /\ t[2] = id /\ t = <<t[1], t[2], t[3]>> /\ StepOf(t) \in steps
             /\ StepOf(t) = "delivered" => <<id, t[3]>> \in got
             /\ StepOf(t) = "accepted" => <<id, t[3]>> \in sent /\ ~InQueue(t)
             /\ StepOf(t) = "queued" => InQueue(t) \/ id \in erased
             /\ StepOf(t) \in {"queued", "accepted", "delivered"}
  <2>1. t \in tracked /\ t[2] = id /\ t = <<t[1], t[2], t[3]>> /\ StepOf(t) \in steps
    BY DEF Copies, MailOK, MailTypes
  <2>2. StepOf(t) = "delivered" => <<id, t[3]>> \in got
    BY <2>1 DEF StepOf, MailOK, Ticks
  <2>3. StepOf(t) = "accepted" => t \in acked
    BY DEF StepOf
  <2>4. ASSUME t \in acked PROVE <<id, t[3]>> \in sent /\ ~InQueue(t)
    <3>1. <<t[2], t[3]>> \in sent /\ \A x \in letters : ~IsText(x, t[2], t[3])
      BY <2>4 DEF MailOK, Ticks
    <3>2. ASSUME NEW x \in letters, x.what = "text", <<x.line, x.id, x.dev>> = t PROVE FALSE
      <4>1. x.id = t[2] /\ x.dev = t[3]
        BY <3>2
      <4> QED BY <3>1, <3>2, <4>1 DEF IsText
    <3> QED BY <2>1, <3>1, <3>2 DEF InQueue
  <2>5. StepOf(t) = "queued" => InQueue(t) \/ id \in erased
    BY <2>1 DEF StepOf, MailOK, Ticks
  <2>6. StepOf(t) \in {"queued", "accepted", "delivered"}
    BY DEF StepOf
  <2> QED BY <2>1, <2>2, <2>3, <2>4, <2>5, <2>6
<1>3. got \subseteq sent
  BY DEF MailOK, Ages
<1> HIDE DEF copies
<1>4. ASSUME State(line, id) = "delivered", NEW t \in copies PROVE <<id, t[3]>> \in got
  BY <1>1, <1>2, <1>4
<1>5. ASSUME State(line, id) = "accepted", NEW t \in copies
      PROVE  <<id, t[3]>> \in sent /\ (InQueue(t) => <<id, t[3]>> \in got)
  BY <1>1, <1>2, <1>3, <1>5
<1>6. ASSUME State(line, id) = "queued" PROVE \E t \in copies : InQueue(t) \/ id \in erased
  <2>1. PICK t \in copies : StepOf(t) = "queued"
    BY <1>1, <1>6
  <2> QED BY <1>2, <2>1
<1> QED BY <1>4, <1>5, <1>6 DEF copies, InQueue

\* Once devices are known to be one person's, their conversations are one thread, whatever channels
\* are replaced, announced or deleted afterwards (client.rs: attach_channel, merge_threads).
THEOREM OneLineHolds == ThreadsSpec => []OneLine
<1>1. ThreadsInit => ChatsOK /\ MailOK
  BY ChatsStart, MailStart
<1>2. ChatsOK /\ MailOK /\ [ThreadsNext]_threadsVars => (ChatsOK /\ MailOK)'
  BY ChatsStep, MailStep
<1>3. ChatsOK /\ MailOK => OneLine
  BY DEF ChatsOK, ChatTypes, Together, MailOK, MailTypes, OneLine, ThreadsTypeOK
<1> QED BY <1>1, <1>2, <1>3, PTL DEF ThreadsSpec

\* What the queue holds of a message is what the user sees of it: nothing he deleted or cleared, and
\* no version before his last edit (client.rs: EraseMessage, EditMessage, ClearConversation).
THEOREM QueueIsAsShownHolds == ThreadsSpec => []QueueIsAsShown
<1>1. ThreadsInit => ChatsOK /\ MailOK
  BY ChatsStart, MailStart
<1>2. ChatsOK /\ MailOK /\ [ThreadsNext]_threadsVars => (ChatsOK /\ MailOK)'
  BY ChatsStep, MailStep
<1>3. MailOK => QueueIsAsShown
  BY DEF MailOK, AsShown, QueueIsAsShown
<1> QED BY <1>1, <1>2, <1>3, PTL DEF ThreadsSpec

\* What is shown of a message's way is true of each of its copies (delivery.rs: state, acknowledge,
\* receipt), whatever comes late, twice, or after the channel is gone.
THEOREM TicksAreTrueHolds == ThreadsSpec => []TicksAreTrue
<1>1. ThreadsInit => ChatsOK /\ MailOK
  BY ChatsStart, MailStart
<1>2. ChatsOK /\ MailOK /\ [ThreadsNext]_threadsVars => (ChatsOK /\ MailOK)'
  BY ChatsStep, MailStep
<1> QED BY <1>1, <1>2, TicksMean, PTL DEF ThreadsSpec

-----------------------------------------------------------------------------
(* Announce                                                                  *)

Told == Nat \union Name \union {Hidden, Unset} \union BOOLEAN
PostOK ==
    /\ post \in [Friend -> [Kind -> Seq([val : Told, chan : Nat])]]
    /\ heard \in [Friend -> [Kind -> Told]]
LastOf(p, k) == post[p][k][Len(post[p][k])]

DevicesTold(p) == p \in toldOf /\ <<p, "devices">> \notin missed => KnownTo(p, "devices") = list
NameTold(p) == named[p] # Unset /\ <<p, "name">> \notin missed => KnownTo(p, "name") = named[p]

\* A key that was given is read, or the last letter with it is in the channel of today:
\* one that is not would be lost without a trace in the book.
KeyTold(p) ==
    p \in keyed /\ chan[p] # 0 /\ <<p, "key">> \notin missed =>
        /\ KnownTo(p, "key") = TRUE
        /\ post[p]["key"] # <<>> => LastOf(p, "key").chan = chan[p]

AllTold == \A p \in Friend : DevicesTold(p) /\ NameTold(p) /\ KeyTold(p)
AnnounceInv == AnnounceTypeOK /\ PostOK /\ AllTold

LEMMA AnnounceMeans == AnnounceInv => BooksAreTrue
BY DEF AnnounceInv, AllTold, DevicesTold, NameTold, KeyTold, BooksAreTrue

LEMMA KindIs == Kind = {"devices", "name", "key"} /\ "devices" \in Kind /\ "name" \in Kind /\ "key" \in Kind
BY DEF Kind

LEMMA RecordOfKinds ==
  ASSUME NEW V, NEW a \in V, NEW b \in V, NEW c \in V
  PROVE  [devices |-> a, name |-> b, key |-> c] \in [Kind -> V]
BY DEF Kind

LEMMA NothingIs == Nothing \in [Kind -> Told] /\ DOMAIN Nothing = Kind
<1>1. 0 \in Told /\ Unset \in Told /\ FALSE \in Told
  BY DEF Told
<1>2. Nothing \in [Kind -> Told]
  BY <1>1, RecordOfKinds DEF Nothing
<1> QED BY <1>2

LEMMA AnnounceStarts == AnnounceInit => AnnounceInv
<1> SUFFICES ASSUME AnnounceInit PROVE AnnounceInv
  OBVIOUS
<1>1. PostOK
  <2>1. <<>> \in Seq([val : Told, chan : Nat])
    OBVIOUS
  <2> QED BY <2>1, NothingIs DEF AnnounceInit, PostOK
<1>2. rules \in [name : Rule, avatar : Rule] /\ pins \in [PinName -> Pin \union {Unset}]
  BY AnnounceAssumption DEF AnnounceInit, AnnounceAssumption
<1>3. AnnounceTypeOK
  <2>1. standing \in [Friend -> Standing \union {Unset}] /\ named \in [Friend -> Name \union {Hidden, Unset}]
        /\ chan \in [Friend -> Nat]
    BY DEF AnnounceInit
  <2>2. \A p \in Friend : DOMAIN post[p] = Kind /\ DOMAIN heard[p] = Kind
    BY <1>1 DEF PostOK
  <2>3. list = 0 /\ real = 1 /\ served \in BOOLEAN /\ ownName \in Name \union {Unset}
    BY DEF AnnounceInit
  <2>5. list \in 0 .. real /\ real \in Nat
    BY <2>3
  <2>4. toldOf \subseteq Friend /\ keyed \subseteq Friend /\ lostState \subseteq Friend /\ missed \subseteq Friend \X Kind
    BY DEF AnnounceInit
  <2> QED BY <1>2, <2>1, <2>2, <2>3, <2>4, <2>5 DEF AnnounceTypeOK
<1>4. AllTold
  BY DEF AnnounceInit, AllTold, DevicesTold, NameTold, KeyTold
<1> QED BY <1>1, <1>3, <1>4 DEF AnnounceInv

\* A letter that is posted is what its recipient will know in the end; nobody else's
\* knowledge changes.
LEMMA Tells ==
  ASSUME AnnounceInv, NEW to, NEW val, Posted(to, val), UNCHANGED <<chan, heard>>,
         \A p \in Friend, k \in Kind : p \in to[k] => val[k][p] \in Told
  PROVE  /\ PostOK'
         /\ \A p \in Friend, k \in Kind :
              /\ p \in to[k] => /\ KnownTo(p, k)' = val[k][p] /\ post'[p][k] # <<>>
                                /\ LastOf(p, k)'.chan = chan[p]
              /\ p \notin to[k] => KnownTo(p, k)' = KnownTo(p, k) /\ post'[p][k] = post[p][k]
<1> DEFINE L == [val : Told, chan : Nat]
<1>1. post \in [Friend -> [Kind -> Seq(L)]] /\ chan \in [Friend -> Nat] /\ heard \in [Friend -> [Kind -> Told]]
  BY DEF AnnounceInv, PostOK, AnnounceTypeOK
<1>2. post' = [p \in Friend |-> [k \in Kind |->
         IF p \in to[k] THEN Append(post[p][k], Saying(p, val[k][p])) ELSE post[p][k]]]
  BY DEF Posted
<1>3. \A p \in Friend, k \in Kind : p \in to[k] => Saying(p, val[k][p]) \in L
  BY <1>1 DEF Saying
<1>4. ASSUME NEW p \in Friend, NEW k \in Kind
      PROVE  /\ post'[p][k] \in Seq(L)
             /\ p \in to[k] => /\ KnownTo(p, k)' = val[k][p] /\ post'[p][k] # <<>>
                               /\ LastOf(p, k)'.chan = chan[p]
             /\ p \notin to[k] => KnownTo(p, k)' = KnownTo(p, k) /\ post'[p][k] = post[p][k]
  <2>1. post[p][k] \in Seq(L)
    BY <1>1
  <2>2. CASE p \in to[k]
    <3>1. post'[p][k] = Append(post[p][k], Saying(p, val[k][p])) /\ Saying(p, val[k][p]) \in L
      BY <1>2, <1>3, <2>2
    <3>2. /\ post'[p][k] \in Seq(L) /\ post'[p][k] # <<>>
          /\ post'[p][k][Len(post'[p][k])] = Saying(p, val[k][p])
      BY <2>1, <3>1
    <3> QED BY <2>2, <3>2 DEF KnownTo, LastOf, Saying
  <2>3. CASE p \notin to[k]
    BY <1>2, <2>1, <2>3 DEF KnownTo
  <2> QED BY <2>2, <2>3
<1>5. post' \in [Friend -> [Kind -> Seq(L)]]
  BY <1>2, <1>4
<1> QED BY <1>1, <1>4, <1>5 DEF PostOK

LEMMA DevicesArriveKeeps ==
  ASSUME AnnounceInv, NEW v \in 1 .. MaxList, NEW whole \in BOOLEAN, NEW ps \in SUBSET Friend,
         DevicesArrive(v, whole, ps)
  PROVE  AnnounceInv'
<1> DEFINE before == IF v # list THEN {} ELSE toldOf
           todo == Reachable \ before
           to == [devices |-> Unheld(ps), name |-> {}, key |-> {}]
<1> USE DEF owner, books
<1>0. Posted(to, Same(v))
  BY DEF DevicesArrive
<1>1. /\ v \in list .. real /\ list' = v /\ ps \subseteq todo /\ (whole => ps = todo)
      /\ served' = whole
      /\ toldOf' = IF whole THEN before \union todo ELSE before
      /\ missed' = (missed \ Pairs(Unheld(ps), "devices"))
                   \union (IF whole THEN Pairs({p \in ps : HeldByPin(p)}, "devices") ELSE {})
      /\ UNCHANGED <<owner, real, named, keyed, chan, lostState, heard>>
  <2>1. v \in list .. real /\ list' = v /\ ps \subseteq todo /\ (whole => ps = todo)
    BY DEF DevicesArrive
  <2>2. served' = whole /\ UNCHANGED <<owner, real, named, keyed, chan, lostState, heard>>
    BY DEF DevicesArrive
  <2>3. toldOf' = IF whole THEN before \union todo ELSE before
    BY DEF DevicesArrive
  <2>4. missed' = (missed \ Pairs(Unheld(ps), "devices"))
                   \union (IF whole THEN Pairs({p \in ps : HeldByPin(p)}, "devices") ELSE {})
    BY DEF DevicesArrive
  <2> QED BY <2>1, <2>2, <2>3, <2>4
<1>2. Unheld(ps) = {p \in ps : ~HeldByPin(p)}
  BY DEF Unheld
<1>3. to["devices"] = Unheld(ps) /\ to["name"] = {} /\ to["key"] = {}
  OBVIOUS
<1>4. \A k \in Kind, p \in Friend : Same(v)[k][p] = v
  BY DEF Same
<1> HIDE DEF to
<1>5. v \in Told
  <2>1. MaxList \in Nat
    BY AnnounceAssumption DEF AnnounceAssumption
  <2>2. v \in Nat
    BY <2>1
  <2> QED BY <2>2 DEF Told
<1>6. /\ PostOK'
      /\ \A p \in Friend :
           /\ p \in Unheld(ps) => KnownTo(p, "devices")' = v
           /\ p \notin Unheld(ps) => KnownTo(p, "devices")' = KnownTo(p, "devices")
           /\ KnownTo(p, "name")' = KnownTo(p, "name")
           /\ KnownTo(p, "key")' = KnownTo(p, "key") /\ post'[p]["key"] = post[p]["key"]
  <2>1. \A p \in Friend, k \in Kind : p \in to[k] => Same(v)[k][p] \in Told
    BY <1>4, <1>5
  <2>2. UNCHANGED <<chan, heard>>
    BY <1>1
  <2> HIDE DEF to
  <2> QED BY <1>0, <1>3, <1>4, <2>1, <2>2, Tells, KindIs
<1>7. \A p \in Friend : /\ <<p, "name">> \in missed' <=> <<p, "name">> \in missed
                        /\ <<p, "key">> \in missed' <=> <<p, "key">> \in missed
                        /\ p \in Unheld(ps) \/ (p \notin ps /\ (<<p, "devices">> \in missed' <=> <<p, "devices">> \in missed))
                           \/ (~whole \/ <<p, "devices">> \in missed')
  BY <1>1, <1>2 DEF Pairs
<1>8. ASSUME NEW p \in Friend PROVE DevicesTold(p)'
  <2> SUFFICES ASSUME p \in toldOf', <<p, "devices">> \notin missed' PROVE KnownTo(p, "devices")' = list'
    BY DEF DevicesTold
  <2>1. CASE p \in Unheld(ps)
    BY <1>1, <1>6, <2>1
  <2>2. CASE p \in ps /\ p \notin Unheld(ps)
    <3>1. ~whole
      BY <1>1, <1>2, <2>2 DEF Pairs
    <3>2. p \in before /\ p \notin before
      BY <1>1, <2>2, <3>1
    <3> QED BY <3>2
  <2>3. CASE p \notin ps
    <3>1. p \in toldOf /\ list = v /\ <<p, "devices">> \notin missed
      BY <1>1, <1>2, <2>3 DEF Pairs
    <3>2. p \notin Unheld(ps)
      BY <1>2, <2>3
    <3> QED BY <1>1, <1>6, <3>1, <3>2 DEF AnnounceInv, AllTold, DevicesTold
  <2> QED BY <2>1, <2>2, <2>3
<1>9. ASSUME NEW p \in Friend PROVE NameTold(p)' /\ KeyTold(p)'
  <2>1. NameTold(p) /\ KeyTold(p)
    BY DEF AnnounceInv, AllTold
  <2>2. UNCHANGED <<named, keyed, chan>>
    BY <1>1
  <2> QED BY <1>6, <1>7, <2>1, <2>2 DEF NameTold, KeyTold, LastOf
<1>10. AnnounceTypeOK'
  <2>1. toldOf' \subseteq Friend /\ missed' \subseteq Friend \X Kind
    BY <1>1, KindIs DEF AnnounceInv, AnnounceTypeOK, Reachable, Pairs, Unheld
  <2>2. list' \in 0 .. real' /\ served' \in BOOLEAN
    BY <1>1 DEF AnnounceInv, AnnounceTypeOK
  <2>3. \A p \in Friend : DOMAIN post'[p] = Kind /\ DOMAIN heard'[p] = Kind
    BY <1>6 DEF PostOK
  <2> QED BY <1>1, <2>1, <2>2, <2>3 DEF AnnounceInv, AnnounceTypeOK
<1> QED BY <1>6, <1>8, <1>9, <1>10 DEF AnnounceInv, AllTold

LEMMA DevicesTornKeeps ==
  ASSUME AnnounceInv, NEW v \in 1 .. MaxList, DevicesTorn(v)
  PROVE  AnnounceInv'
<1> USE DEF owner, books
<1>1. /\ v \in list .. real /\ list' = v /\ missed' = missed \union Pairs(toldOf, "devices") /\ served' = FALSE
      /\ UNCHANGED <<owner, real, toldOf, named, keyed, chan, lostState, post, heard>>
  BY DEF DevicesTorn
<1>2. AnnounceTypeOK'
  <2>1. missed' \subseteq Friend \X Kind
    BY <1>1, KindIs DEF AnnounceInv, AnnounceTypeOK, Pairs
  <2>2. list' \in 0 .. real'
    BY <1>1 DEF AnnounceInv, AnnounceTypeOK
  <2> QED BY <1>1, <2>1, <2>2 DEF AnnounceInv, AnnounceTypeOK
<1>3. ASSUME NEW p \in Friend PROVE DevicesTold(p)' /\ NameTold(p)' /\ KeyTold(p)'
  <2>1. /\ p \in toldOf => <<p, "devices">> \in missed'
        /\ <<p, "name">> \in missed' <=> <<p, "name">> \in missed
        /\ <<p, "key">> \in missed' <=> <<p, "key">> \in missed
    BY <1>1 DEF Pairs
  <2>2. NameTold(p) /\ KeyTold(p)
    BY DEF AnnounceInv, AllTold
  <2> QED BY <1>1, <2>1, <2>2 DEF DevicesTold, NameTold, KeyTold, KnownTo, LastOf
<1> QED BY <1>1, <1>2, <1>3 DEF AnnounceInv, AllTold, PostOK

\* What the books, letters and channels are about stays well formed.
BooksOK ==
    /\ toldOf \subseteq Friend /\ named \in [Friend -> Name \union {Hidden, Unset}] /\ keyed \subseteq Friend
    /\ missed \subseteq Friend \X Kind

LEMMA GrantsKeep ==
  ASSUME AnnounceInv, NEW rs, NEW name \in Name \union {Unset}, NEW names \in SUBSET Friend,
         NEW forgot \in SUBSET Friend, NEW keys \in SUBSET Friend, NEW whole \in BOOLEAN,
         Grants(rs, name, names, forgot, keys, whole)
  PROVE  /\ PostOK' /\ AllTold' /\ BooksOK'
         /\ UNCHANGED <<real, list, toldOf, chan, lostState, heard>>
<1> DEFINE to == [devices |-> {}, name |-> names, key |-> Unheld(keys)]
           due == [p \in Friend |-> Due(rs, name, p)]
           val == [Same(TRUE) EXCEPT !["name"] = due]
<1> HIDE DEF due
<1>1. /\ names \subseteq ToName(rs, name) /\ forgot \subseteq names /\ keys \subseteq ToKey(rs)
      /\ UNCHANGED <<real, list, toldOf, chan, lostState, heard>>
  BY DEF Grants
<1>2. /\ named' = [p \in Friend |-> IF p \in names \ forgot THEN Due(rs, name, p) ELSE named[p]]
      /\ keyed' = IF whole THEN keyed \union keys ELSE keyed
  BY DEF Grants
<1>3. missed' = (missed \ (Pairs(names \ forgot, "name") \union Pairs(Unheld(keys), "key")))
                 \union Pairs(forgot, "name")
                 \union (IF whole THEN Pairs(keys \ Unheld(keys), "key") ELSE {})
  BY DEF Grants
<1>4. Posted(to, val)
  BY DEF Grants, due
<1>5. to["devices"] = {} /\ to["name"] = names /\ to["key"] = Unheld(keys)
  OBVIOUS
<1>6. \A p \in Friend : val["name"][p] = Due(rs, name, p) /\ val["key"][p] = TRUE
  <2>1. val["name"] = due /\ val["key"] = [p \in Friend |-> TRUE]
    BY DEF Same, Kind
  <2> QED BY <2>1 DEF due
<1> HIDE DEF to, val
<1>7. \A p \in Friend : Due(rs, name, p) \in Name \union {Hidden, Unset} /\ Due(rs, name, p) \in Told
  BY DEF Due, Told
<1>8. \A p \in Friend, k \in Kind : p \in to[k] => val[k][p] \in Told
  <2>1. TRUE \in Told
    BY DEF Told
  <2> QED BY <1>5, <1>6, <1>7, <2>1, KindIs
<1>9. Unheld(keys) \subseteq keys
  BY DEF Unheld
<1>10. /\ PostOK'
       /\ \A p \in Friend :
            /\ KnownTo(p, "devices")' = KnownTo(p, "devices")
            /\ p \in names => KnownTo(p, "name")' = Due(rs, name, p)
            /\ p \notin names => KnownTo(p, "name")' = KnownTo(p, "name")
            /\ p \in Unheld(keys) => /\ KnownTo(p, "key")' = TRUE /\ post'[p]["key"] # <<>>
                                     /\ LastOf(p, "key")'.chan = chan[p]
            /\ p \notin Unheld(keys) => KnownTo(p, "key")' = KnownTo(p, "key") /\ post'[p]["key"] = post[p]["key"]
  <2>1. UNCHANGED <<chan, heard>>
    BY <1>1
  <2>2. /\ PostOK'
        /\ \A p \in Friend, k \in Kind :
              /\ p \in to[k] => /\ KnownTo(p, k)' = val[k][p] /\ post'[p][k] # <<>>
                                /\ LastOf(p, k)'.chan = chan[p]
              /\ p \notin to[k] => KnownTo(p, k)' = KnownTo(p, k) /\ post'[p][k] = post[p][k]
    BY <1>4, <1>8, <2>1, Tells
  <2> QED BY <1>5, <1>6, <2>2, KindIs
<1>11. ASSUME NEW p \in Friend PROVE DevicesTold(p)' /\ NameTold(p)' /\ KeyTold(p)'
  <2>1. /\ <<p, "devices">> \in missed' <=> <<p, "devices">> \in missed
        /\ p \in forgot => <<p, "name">> \in missed'
        /\ p \notin names => (<<p, "name">> \in missed' <=> <<p, "name">> \in missed)
        /\ p \notin keys => (<<p, "key">> \in missed' <=> <<p, "key">> \in missed)
        /\ whole /\ p \in keys /\ p \notin Unheld(keys) => <<p, "key">> \in missed'
    BY <1>1, <1>3, <1>9 DEF Pairs
  <2>2. DevicesTold(p) /\ NameTold(p) /\ KeyTold(p)
    BY DEF AnnounceInv, AllTold
  <2>3. DevicesTold(p)'
    BY <1>1, <1>10, <2>1, <2>2 DEF DevicesTold
  <2>4. NameTold(p)'
    <3>1. CASE p \in names
      BY <1>2, <1>10, <2>1, <3>1 DEF NameTold
    <3>2. CASE p \notin names
      <4>1. named'[p] = named[p]
        BY <1>2, <3>2
      <4> QED BY <1>10, <2>1, <2>2, <3>2, <4>1 DEF NameTold
    <3> QED BY <3>1, <3>2
  <2>5. KeyTold(p)'
    <3>1. CASE p \in Unheld(keys)
      BY <1>1, <1>10, <3>1 DEF KeyTold
    <3>2. CASE p \in keys /\ p \notin Unheld(keys)
      <4>1. p \notin keyed
        BY <1>1, <3>2 DEF ToKey
      <4> QED BY <1>2, <2>1, <3>2, <4>1 DEF KeyTold
    <3>3. CASE p \notin keys
      <4>1. (p \in keyed' <=> p \in keyed) /\ chan' = chan /\ p \notin Unheld(keys)
        BY <1>1, <1>2, <1>9, <3>3
      <4> QED BY <1>10, <2>1, <2>2, <3>3, <4>1 DEF KeyTold, LastOf
    <3> QED BY <3>1, <3>2, <3>3
  <2> QED BY <2>3, <2>4, <2>5
<1>12. BooksOK'
  <2>1. BooksOK
    BY DEF AnnounceInv, AnnounceTypeOK, BooksOK
  <2>2. named' \in [Friend -> Name \union {Hidden, Unset}]
    BY <1>2, <1>7, <2>1 DEF BooksOK
  <2>3. toldOf' \subseteq Friend /\ keyed' \subseteq Friend
    BY <1>1, <1>2, <2>1 DEF BooksOK
  <2>4. missed' \subseteq Friend \X Kind
    BY <1>3, <1>9, <2>1, KindIs DEF BooksOK, Pairs
  <2> QED BY <2>2, <2>3, <2>4 DEF BooksOK
<1> QED BY <1>1, <1>10, <1>11, <1>12 DEF AllTold

\* The parts of the type that no letter is about.
OwnerOK ==
    /\ served \in BOOLEAN /\ standing \in [Friend -> Standing \union {Unset}]
    /\ rules \in [name : Rule, avatar : Rule]
    /\ pins \in [PinName -> Pin \union {Unset}] /\ ownName \in Name \union {Unset}

LEMMA Parts ==
  /\ AnnounceInv => OwnerOK /\ BooksOK
  /\ OwnerOK' /\ BooksOK' /\ PostOK' /\ AllTold' /\ (real \in Nat)' /\ (list \in 0 .. real)'
     /\ (chan \in [Friend -> Nat])' /\ (lostState \subseteq Friend)' => AnnounceInv'
<1>1. AnnounceInv => OwnerOK /\ BooksOK
  BY DEF AnnounceInv, AnnounceTypeOK, OwnerOK, BooksOK
<1>2. PostOK' => \A p \in Friend : DOMAIN post'[p] = Kind /\ DOMAIN heard'[p] = Kind
  BY DEF PostOK
<1> QED BY <1>1, <1>2 DEF AnnounceInv, AnnounceTypeOK, OwnerOK, BooksOK

LEMMA TellingKeeps ==
  ASSUME AnnounceInv, NEW names \in SUBSET Friend, NEW forgot \in SUBSET Friend,
         NEW keys \in SUBSET Friend, NEW whole \in BOOLEAN,
         \/ GrantMissing(names, forgot, keys, whole)
         \/ \E r \in Rules : PrivacySet(r, names, forgot, keys, whole)
         \/ \E n \in Name : ProfileName(n, names, forgot, whole)
  PROVE  AnnounceInv'
<1> USE DEF owner, books
<1> DEFINE Same2 == UNCHANGED <<real, list, chan, lostState>>
<1>1. OwnerOK /\ BooksOK /\ ownName \in Name \union {Unset}
  BY Parts DEF OwnerOK
<1>2. OwnerOK' /\ BooksOK' /\ PostOK' /\ AllTold' /\ Same2
  <2>1. CASE GrantMissing(names, forgot, keys, whole)
    <3>1. Grants(rules, ownName, names, forgot, keys, whole) /\ UNCHANGED owner /\ served' \in BOOLEAN
      BY <2>1 DEF GrantMissing
    <3>2. OwnerOK'
      BY <1>1, <3>1 DEF OwnerOK
    <3> QED BY <1>1, <3>1, <3>2, GrantsKeep
  <2>2. ASSUME NEW r \in Rules, PrivacySet(r, names, forgot, keys, whole)
        PROVE  OwnerOK' /\ BooksOK' /\ PostOK' /\ AllTold' /\ Same2
    <3>1. rules' = r /\ UNCHANGED <<standing, pins, ownName>> /\ r \in [name : Rule, avatar : Rule]
      BY <2>2, AnnounceAssumption DEF AnnounceAssumption, PrivacySet
    <3>2. CASE ~served /\ served' = served /\ UNCHANGED <<real, books, chan, lostState, post, heard, missed>>
      BY <1>1, <3>1, <3>2 DEF OwnerOK, BooksOK, AnnounceInv, PostOK, AllTold, DevicesTold, NameTold, KeyTold,
                              KnownTo, LastOf
    <3>3. CASE served' = whole /\ Grants(r, ownName, names, forgot, keys, whole)
      <4>1. OwnerOK'
        BY <1>1, <3>1, <3>3 DEF OwnerOK
      <4> QED BY <1>1, <3>3, <4>1, GrantsKeep
    <3> QED BY <2>2, <3>2, <3>3 DEF PrivacySet
  <2>3. ASSUME NEW n \in Name, ProfileName(n, names, forgot, whole)
        PROVE  OwnerOK' /\ BooksOK' /\ PostOK' /\ AllTold' /\ Same2
    <3>1. /\ Grants(rules, n, names, forgot, {}, FALSE) /\ UNCHANGED <<standing, rules, pins>>
          /\ ownName' = n /\ served' = whole
      BY <2>3 DEF ProfileName
    <3>2. OwnerOK'
      BY <1>1, <3>1 DEF OwnerOK
    <3>3. {} \in SUBSET Friend /\ n \in Name \union {Unset}
      OBVIOUS
    <3> QED BY <3>1, <3>2, <3>3, GrantsKeep
  <2> QED BY <2>1, <2>2, <2>3
<1>3. real' \in Nat /\ list' \in 0 .. real' /\ chan' \in [Friend -> Nat] /\ lostState' \subseteq Friend
  BY <1>2 DEF AnnounceInv, AnnounceTypeOK
<1> QED BY <1>2, <1>3, Parts

\* Steps that change neither books nor letters nor channels.
LEMMA QuietKeeps ==
  ASSUME AnnounceInv, UNCHANGED <<toldOf, named, keyed, list, chan, lostState, post, heard, missed>>,
         real' \in Nat, list \in 0 .. real', OwnerOK'
  PROVE  AnnounceInv'
<1>1. BooksOK' /\ PostOK' /\ AllTold'
  BY DEF AnnounceInv, AnnounceTypeOK, BooksOK, PostOK, AllTold, DevicesTold, NameTold, KeyTold, KnownTo, LastOf
<1>2. list' \in 0 .. real' /\ chan' \in [Friend -> Nat] /\ lostState' \subseteq Friend
  BY DEF AnnounceInv, AnnounceTypeOK
<1> QED BY <1>1, <1>2, Parts

LEMMA OwnerStep ==
  ASSUME AnnounceInv,
         \/ MaximizeRules \/ LetIn \/ CutOff \/ OtherDevice
         \/ \E p \in Friend : \/ \E s \in Standing \union {Unset} : SetStanding(p, s)
                              \/ \E n \in PinName : PinAccept(n, p) \/ PinForget(n)
  PROVE  AnnounceInv'
<1> USE DEF owner, books, Quiet
<1>1. OwnerOK /\ real \in Nat /\ list \in 0 .. real
  BY Parts DEF AnnounceInv, AnnounceTypeOK
<1>2. CASE OtherDevice
  <2>1. OwnerOK' /\ real' \in Nat /\ list \in 0 .. real'
    BY <1>1, <1>2 DEF OtherDevice, OwnerOK
  <2> QED BY <1>2, <2>1, QuietKeeps DEF OtherDevice
<1>3. CASE MaximizeRules
  <2>1. \A r \in Rule : Maximal(r) \in Rule
    BY DEF Rule, Maximal, Scope
  <2>2. rules' = [name |-> Maximal(rules.name), avatar |-> Maximal(rules.avatar)]
        /\ rules.name \in Rule /\ rules.avatar \in Rule
    BY <1>1, <1>3 DEF MaximizeRules, OwnerOK
  <2>3. rules' \in [name : Rule, avatar : Rule]
    BY <2>1, <2>2
  <2>4. OwnerOK'
    BY <1>1, <1>3, <2>3 DEF MaximizeRules, OwnerOK
  <2> QED BY <1>1, <1>3, <2>4, QuietKeeps DEF MaximizeRules
<1>4. CASE LetIn \/ CutOff
  <2>1. OwnerOK'
    BY <1>1, <1>4 DEF LetIn, CutOff, OwnerOK
  <2> QED BY <1>1, <1>4, <2>1, QuietKeeps DEF LetIn, CutOff
<1>5. ASSUME NEW p \in Friend, NEW s \in Standing \union {Unset}, SetStanding(p, s) PROVE AnnounceInv'
  <2>1. OwnerOK'
    BY <1>1, <1>5 DEF SetStanding, OwnerOK
  <2> QED BY <1>1, <1>5, <2>1, QuietKeeps DEF SetStanding
<1>6. ASSUME NEW p \in Friend, NEW n \in PinName, PinAccept(n, p) \/ PinForget(n) PROVE AnnounceInv'
  <2>1. pins \in [PinName -> Pin \union {Unset}]
    BY <1>1 DEF OwnerOK
  <2>2. pins' \in [PinName -> Pin \union {Unset}]
    <3>1. CASE PinAccept(n, p)
      <4>1. pins[n] \in Pin
        BY <2>1, <3>1 DEF PinAccept
      <4>2. pins' = [pins EXCEPT ![n] = [pending |-> Unset, untrusted |-> pins[n].untrusted \ {p}]]
        BY <3>1 DEF PinAccept
      <4>3. [pending |-> Unset, untrusted |-> pins[n].untrusted \ {p}] \in Pin
        BY <4>1 DEF Pin
      <4> QED BY <2>1, <4>2, <4>3
    <3>2. CASE PinForget(n)
      BY <2>1, <3>2 DEF PinForget
    <3> QED BY <1>6, <3>1, <3>2
  <2>3. UNCHANGED <<served, standing, rules, ownName>> /\ Quiet
    BY <1>6 DEF PinAccept, PinForget
  <2>4. OwnerOK'
    BY <1>1, <2>2, <2>3 DEF OwnerOK
  <2> QED BY <1>1, <2>3, <2>4, QuietKeeps
<1> QED BY <1>2, <1>3, <1>4, <1>5, <1>6

\* A channel that is attached takes the place of the old one, and the key is given anew.
LEMMA ChannelStep ==
  ASSUME AnnounceInv, NEW p \in Friend, NEW c \in 1 .. MaxChan,
         OpenChannel(p, c) \/ \E blank \in BOOLEAN : JoinChannel(p, c, blank)
  PROVE  AnnounceInv'
<1> USE DEF owner, books
<1>1. OwnerOK /\ BooksOK /\ PostOK /\ AllTold /\ real \in Nat /\ list \in 0 .. real
      /\ chan \in [Friend -> Nat] /\ lostState \subseteq Friend
  BY Parts DEF AnnounceInv, AnnounceTypeOK
<1>2. Attach(p, c) /\ UNCHANGED <<served, rules, pins, ownName, real, list, toldOf, named, post>>
  BY DEF OpenChannel, JoinChannel
<1>3. /\ chan' = [chan EXCEPT ![p] = c] /\ lostState' = lostState \ {p} /\ keyed' = keyed \ {p}
  BY <1>2 DEF Attach
<1>4. c \in Nat
  <2>1. MaxChan \in Nat
    BY AnnounceAssumption DEF AnnounceAssumption
  <2> QED BY <2>1
<1>5. standing' \in [Friend -> Standing \union {Unset}]
  BY <1>1 DEF OpenChannel, JoinChannel, OwnerOK, Standing
<1>6. /\ \A q \in Friend \ {p} : heard'[q] = heard[q] /\ \A k \in Kind : (<<q, k>> \in missed' <=> <<q, k>> \in missed)
      /\ heard' \in [Friend -> [Kind -> Told]]
      /\ missed' \subseteq Friend \X Kind
      /\ \/ heard' = heard /\ \A k \in Kind \ {"key"} : (<<p, k>> \in missed' <=> <<p, k>> \in missed)
         \/ <<p, "devices">> \in missed' /\ <<p, "name">> \in missed'
  <2>1. heard \in [Friend -> [Kind -> Told]] /\ missed \subseteq Friend \X Kind
    BY <1>1 DEF PostOK, BooksOK
  <2>2. CASE heard' = heard /\ missed' = missed \ {<<p, "key">>}
    BY <2>1, <2>2
  <2>3. CASE heard' = [heard EXCEPT ![p] = Nothing]
             /\ missed' = (missed \union {<<p, "devices">>, <<p, "name">>}) \ {<<p, "key">>}
    BY <2>1, <2>3, NothingIs, KindIs
  <2>4. \/ heard' = heard /\ missed' = missed \ {<<p, "key">>}
        \/ /\ heard' = [heard EXCEPT ![p] = Nothing]
           /\ missed' = (missed \union {<<p, "devices">>, <<p, "name">>}) \ {<<p, "key">>}
    BY DEF OpenChannel, JoinChannel
  <2> QED BY <2>2, <2>3, <2>4
<1>7. OwnerOK' /\ BooksOK' /\ PostOK'
  BY <1>1, <1>2, <1>3, <1>5, <1>6 DEF OwnerOK, BooksOK, PostOK
<1>8. ASSUME NEW q \in Friend PROVE DevicesTold(q)' /\ NameTold(q)' /\ KeyTold(q)'
  <2>1. DevicesTold(q) /\ NameTold(q) /\ KeyTold(q)
    BY <1>1 DEF AllTold
  <2>2. CASE q = p
    <3>1. p \notin keyed'
      BY <1>3
    <3> QED BY <1>2, <1>6, <2>1, <2>2, <3>1, KindIs DEF DevicesTold, NameTold, KeyTold, KnownTo
  <2>3. CASE q # p
    <3>1. /\ chan'[q] = chan[q] /\ (q \in keyed' <=> q \in keyed) /\ heard'[q] = heard[q]
          /\ \A k \in Kind : (<<q, k>> \in missed' <=> <<q, k>> \in missed)
      BY <1>1, <1>3, <1>6, <2>3
    <3> QED BY <1>2, <2>1, <3>1, KindIs DEF DevicesTold, NameTold, KeyTold, KnownTo, LastOf
  <2> QED BY <2>2, <2>3
<1>9. chan' \in [Friend -> Nat] /\ lostState' \subseteq Friend
  BY <1>1, <1>3, <1>4
<1> QED BY <1>1, <1>2, <1>7, <1>8, <1>9, Parts DEF AllTold

LEMMA LoseStateStep ==
  ASSUME AnnounceInv, NEW p \in Friend, LoseState(p)
  PROVE  AnnounceInv'
<1> USE DEF owner, books
<1>1. OwnerOK' /\ BooksOK' /\ PostOK'
  BY Parts DEF AnnounceInv, LoseState, OwnerOK, BooksOK, PostOK
<1>2. AllTold'
  BY DEF AnnounceInv, LoseState, AllTold, DevicesTold, NameTold, KeyTold, KnownTo, LastOf
<1>3. real' \in Nat /\ list' \in 0 .. real' /\ chan' \in [Friend -> Nat] /\ lostState' \subseteq Friend
  BY DEF AnnounceInv, AnnounceTypeOK, LoseState
<1> QED BY <1>1, <1>2, <1>3, Parts

\* What is dropped with a conversation was not read, and is written down as missed.
LEMMA DropStep ==
  ASSUME AnnounceInv, NEW p \in Friend, DropChannel(p)
  PROVE  AnnounceInv'
<1> USE DEF owner, books
<1>1. OwnerOK /\ BooksOK /\ PostOK /\ AllTold /\ real \in Nat /\ list \in 0 .. real
      /\ chan \in [Friend -> Nat] /\ lostState \subseteq Friend
  BY Parts DEF AnnounceInv, AnnounceTypeOK
<1>2. /\ chan' = [chan EXCEPT ![p] = 0] /\ lostState' = lostState \ {p}
      /\ post' = [post EXCEPT ![p] = [k \in Kind |-> <<>>]]
      /\ missed' = missed \union {<<p, k>> : k \in {x \in Kind : post[p][x] # <<>>}}
      /\ UNCHANGED <<served, owner, real, books, heard>>
  BY DEF DropChannel
<1>3. OwnerOK' /\ BooksOK'
  <2>1. missed' \subseteq Friend \X Kind
    BY <1>1, <1>2 DEF BooksOK
  <2> QED BY <1>1, <1>2, <2>1 DEF OwnerOK, BooksOK
<1>4. PostOK'
  <2>1. <<>> \in Seq([val : Told, chan : Nat])
    OBVIOUS
  <2> QED BY <1>1, <1>2, <2>1 DEF PostOK
<1>5. ASSUME NEW q \in Friend PROVE DevicesTold(q)' /\ NameTold(q)' /\ KeyTold(q)'
  <2>1. DevicesTold(q) /\ NameTold(q) /\ KeyTold(q)
    BY <1>1 DEF AllTold
  <2>2. CASE q = p
    <3>1. \A k \in Kind : /\ post'[p][k] = <<>>
                          /\ <<p, k>> \notin missed' => post[p][k] = <<>> /\ <<p, k>> \notin missed
      BY <1>1, <1>2 DEF PostOK
    <3>2. \A k \in Kind : <<p, k>> \notin missed' => KnownTo(p, k)' = KnownTo(p, k)
      BY <1>2, <3>1 DEF KnownTo
    <3>3. chan'[p] = 0
      BY <1>1, <1>2
    <3> QED BY <1>2, <2>1, <2>2, <3>1, <3>2, <3>3, KindIs DEF DevicesTold, NameTold, KeyTold
  <2>3. CASE q # p
    <3>1. /\ chan'[q] = chan[q] /\ post'[q] = post[q]
          /\ \A k \in Kind : (<<q, k>> \in missed' <=> <<q, k>> \in missed)
      BY <1>1, <1>2, <2>3 DEF PostOK
    <3> QED BY <1>2, <2>1, <3>1, KindIs DEF DevicesTold, NameTold, KeyTold, KnownTo, LastOf
  <2> QED BY <2>2, <2>3
<1>6. chan' \in [Friend -> Nat] /\ lostState' \subseteq Friend
  BY <1>1, <1>2
<1> QED BY <1>1, <1>2, <1>3, <1>4, <1>5, <1>6, Parts DEF AllTold

\* What is left of a line when its first letter is taken.
LEMMA TailFacts ==
  ASSUME NEW S, NEW q \in Seq(S), q # <<>>
  PROVE  /\ Tail(q) \in Seq(S) /\ q[1] \in S /\ Head(q) = q[1] /\ Len(q) \in Nat \ {0}
         /\ Len(q) = 1 => Tail(q) = <<>> /\ q[Len(q)] = q[1]
         /\ Len(q) # 1 => Tail(q) # <<>> /\ Tail(q)[Len(Tail(q))] = q[Len(q)]
<1>1. Len(q) \in Nat \ {0} /\ Tail(q) \in Seq(S) /\ Len(Tail(q)) = Len(q) - 1
      /\ Head(q) = q[1] /\ q[1] \in S
  BY EmptySeq, HeadTailProperties
<1>2. \A i \in 1 .. Len(q) - 1 : Tail(q)[i] = q[i + 1]
  BY <1>1, HeadTailProperties
<1>3. Tail(q) = <<>> <=> Len(q) = 1
  <2>1. Len(<<>>) = 0 /\ (Tail(q) # <<>> => Len(Tail(q)) \in Nat \ {0})
    BY <1>1, EmptySeq
  <2>2. Len(Tail(q)) = 0 <=> Len(q) = 1
    BY <1>1
  <2>3. Tail(q) = <<>> => Len(Tail(q)) = 0
    BY <2>1, Zenon
  <2> QED BY <2>1, <2>2, <2>3
<1>4. ASSUME Len(q) # 1 PROVE Tail(q)[Len(Tail(q))] = q[Len(q)]
  <2>1. Len(q) - 1 \in 1 .. Len(q) - 1 /\ (Len(q) - 1) + 1 = Len(q)
    BY <1>1, <1>4
  <2> QED BY <1>1, <1>2, <2>1
<1> QED BY <1>1, <1>3, <1>4

\* A letter that is read, or lost, is the first one; if it is the only one, what is lost
\* with it is written down, unless it was a key for a channel that is no more.
LEMMA LetterStep ==
  ASSUME AnnounceInv, NEW p \in Friend, NEW k \in Kind, Read(p, k) \/ NeverRead(p, k)
  PROVE  AnnounceInv'
<1> USE DEF owner, books
<1> DEFINE L == [val : Told, chan : Nat]
           s == post[p][k]
<1>1. OwnerOK /\ BooksOK /\ PostOK /\ AllTold /\ real \in Nat /\ list \in 0 .. real
      /\ chan \in [Friend -> Nat] /\ lostState \subseteq Friend
  BY Parts DEF AnnounceInv, AnnounceTypeOK
<1>2. /\ s # <<>> /\ post' = [post EXCEPT ![p][k] = Tail(s)]
      /\ UNCHANGED <<served, owner, real, books, chan, lostState>>
  BY DEF Read, NeverRead
<1>3. /\ post \in [Friend -> [Kind -> Seq(L)]] /\ heard \in [Friend -> [Kind -> Told]]
      /\ missed \subseteq Friend \X Kind /\ s \in Seq(L)
  BY <1>1 DEF PostOK, BooksOK
<1>4. /\ post'[p][k] = Tail(s)
      /\ \A q \in Friend, l \in Kind : q # p \/ l # k => post'[q][l] = post[q][l]
  BY <1>2, <1>3
<1> HIDE DEF s
<1>5. /\ Tail(s) \in Seq(L) /\ Head(s) = s[1] /\ s[1] \in L /\ Len(s) \in Nat
      /\ Len(s) = 1 => Tail(s) = <<>> /\ s[Len(s)] = s[1]
      /\ Len(s) # 1 => Tail(s) # <<>> /\ Tail(s)[Len(Tail(s))] = s[Len(s)]
  <2> HIDE DEF L
  <2>1. s \in Seq(L) /\ s # <<>>
    BY <1>2, <1>3
  <2> QED BY <2>1, TailFacts
<1>6. PostOK' /\ missed' \subseteq Friend \X Kind
  <2>1. post' \in [Friend -> [Kind -> Seq(L)]]
    BY <1>2, <1>3, <1>5
  <2>2. CASE Read(p, k)
    <3>1. heard' = [heard EXCEPT ![p][k] = s[1].val] /\ missed' = missed /\ s[1].val \in Told
      BY <1>5, <2>2 DEF Read, s
    <3>2. heard' \in [Friend -> [Kind -> Told]]
      <4> HIDE DEF L
      <4> QED BY <1>3, <3>1
    <3>3. PostOK'
      BY <2>1, <3>2 DEF PostOK
    <3> QED BY <1>3, <3>1, <3>3
  <2>3. CASE NeverRead(p, k)
    <3>1. heard' = heard /\ missed' \subseteq missed \union {<<p, k>>}
      BY <2>3 DEF NeverRead
    <3>2. PostOK'
      BY <1>3, <2>1, <3>1 DEF PostOK
    <3>3. <<p, k>> \in Friend \X Kind
      OBVIOUS
    <3> HIDE DEF PostOK
    <3> QED BY <1>3, <3>1, <3>2, <3>3
  <2> QED BY <2>2, <2>3
<1>7. \A q \in Friend, l \in Kind : q # p \/ l # k =>
         /\ KnownTo(q, l)' = KnownTo(q, l) /\ LastOf(q, l)' = LastOf(q, l) /\ post'[q][l] = post[q][l]
         /\ <<q, l>> \in missed' <=> <<q, l>> \in missed
  <2>1. \A q \in Friend, l \in Kind : q # p \/ l # k =>
          heard'[q][l] = heard[q][l] /\ (<<q, l>> \in missed' <=> <<q, l>> \in missed)
    BY <1>3 DEF Read, NeverRead
  <2> QED BY <1>4, <2>1 DEF KnownTo, LastOf
<1>8. /\ <<p, k>> \notin missed' => <<p, k>> \notin missed
      /\ post'[p][k] # <<>> => LastOf(p, k)' = LastOf(p, k) /\ KnownTo(p, k)' = KnownTo(p, k)
      /\ post'[p][k] = <<>> =>
            \/ KnownTo(p, k)' = KnownTo(p, k)
            \/ <<p, k>> \in missed'
            \/ k = "key" /\ LastOf(p, k).chan # chan[p]
  <2>1. <<p, k>> \notin missed' => <<p, k>> \notin missed
    BY DEF Read, NeverRead
  <2>2. KnownTo(p, k) = s[Len(s)].val /\ LastOf(p, k) = s[Len(s)]
    BY <1>2 DEF KnownTo, LastOf, s
  <2>3. CASE Len(s) # 1
    <3>1. post'[p][k] # <<>> /\ LastOf(p, k)' = s[Len(s)] /\ KnownTo(p, k)' = s[Len(s)].val
      BY <1>4, <1>5, <2>3 DEF KnownTo, LastOf
    <3> QED BY <2>1, <2>2, <3>1
  <2>4. CASE Len(s) = 1
    <3>1. post'[p][k] = <<>> /\ KnownTo(p, k)' = heard'[p][k] /\ KnownTo(p, k) = s[1].val /\ LastOf(p, k) = s[1]
      BY <1>4, <1>5, <2>2, <2>4 DEF KnownTo
    <3>2. CASE Read(p, k)
      <4>1. heard'[p][k] = s[1].val
        BY <1>3, <1>5, <3>2 DEF Read, s
      <4> QED BY <2>1, <3>1, <4>1
    <3>3. CASE NeverRead(p, k)
      <4>1. <<p, k>> \in missed' \/ (k = "key" /\ s[1].chan # chan[p])
        BY <1>5, <2>4, <3>3 DEF NeverRead, s
      <4> QED BY <2>1, <3>1, <4>1
    <3> QED BY <3>2, <3>3
  <2> QED BY <2>3, <2>4
<1>9. ASSUME NEW q \in Friend PROVE DevicesTold(q)' /\ NameTold(q)' /\ KeyTold(q)'
  <2>1. DevicesTold(q) /\ NameTold(q) /\ KeyTold(q)
    BY <1>1 DEF AllTold
  <2>2. UNCHANGED <<toldOf, list, named, keyed, chan>>
    BY <1>2
  <2>3. DevicesTold(q)'
    <3>1. CASE q = p /\ k = "devices"
      BY <1>8, <2>1, <2>2, <3>1 DEF DevicesTold
    <3>2. CASE ~(q = p /\ k = "devices")
      <4>1. KnownTo(q, "devices")' = KnownTo(q, "devices") /\ (<<q, "devices">> \in missed' <=> <<q, "devices">> \in missed)
        BY <1>7, <3>2, KindIs
      <4> QED BY <2>1, <2>2, <4>1 DEF DevicesTold
    <3> QED BY <3>1, <3>2
  <2>4. NameTold(q)'
    <3>1. CASE q = p /\ k = "name"
      BY <1>8, <2>1, <2>2, <3>1 DEF NameTold
    <3>2. CASE ~(q = p /\ k = "name")
      <4>1. KnownTo(q, "name")' = KnownTo(q, "name") /\ (<<q, "name">> \in missed' <=> <<q, "name">> \in missed)
        BY <1>7, <3>2, KindIs
      <4> QED BY <2>1, <2>2, <4>1 DEF NameTold
    <3> QED BY <3>1, <3>2
  <2>5. KeyTold(q)'
    <3>1. CASE q = p /\ k = "key"
      <4>1. s # <<>> /\ s = post[p]["key"]
        BY <1>2, <3>1 DEF s
      <4> QED BY <1>8, <2>1, <2>2, <3>1, <4>1 DEF KeyTold
    <3>2. CASE ~(q = p /\ k = "key")
      <4>1. /\ KnownTo(q, "key")' = KnownTo(q, "key") /\ LastOf(q, "key")' = LastOf(q, "key")
            /\ post'[q]["key"] = post[q]["key"] /\ (<<q, "key">> \in missed' <=> <<q, "key">> \in missed)
        BY <1>7, <3>2, KindIs
      <4> QED BY <2>1, <2>2, <4>1 DEF KeyTold
    <3> QED BY <3>1, <3>2
  <2> QED BY <2>3, <2>4, <2>5
<1>10. OwnerOK' /\ BooksOK'
  BY <1>1, <1>2, <1>6 DEF OwnerOK, BooksOK
<1> QED BY <1>1, <1>2, <1>6, <1>9, <1>10, Parts DEF AllTold

LEMMA AnnounceStep == AnnounceInv /\ [AnnounceNext]_announceVars => AnnounceInv'
<1> SUFFICES ASSUME AnnounceInv, [AnnounceNext]_announceVars PROVE AnnounceInv'
  OBVIOUS
<1>1. CASE UNCHANGED announceVars
  <2>1. OwnerOK /\ real \in Nat /\ list \in 0 .. real
    BY Parts DEF AnnounceInv, AnnounceTypeOK
  <2> QED BY <1>1, <2>1, QuietKeeps DEF announceVars, owner, books, OwnerOK
<1>2. CASE Telling
  BY <1>2, DevicesArriveKeeps, DevicesTornKeeps, TellingKeeps DEF Telling
<1>3. CASE AnnounceNext /\ ~Telling
  BY <1>3, OwnerStep, ChannelStep, LoseStateStep, DropStep, LetterStep DEF AnnounceNext
<1> QED BY <1>1, <1>2, <1>3

\* For any number of friends, names, rules, pins and channels, wherever the telling is
\* stopped and whatever is lost: the books say nothing that is not so, but for what they
\* cannot know.
THEOREM BooksAreTrueHolds == AnnounceSpec => []BooksAreTrue
BY AnnounceMeans, AnnounceStarts, AnnounceStep, PTL DEF AnnounceSpec

-----------------------------------------------------------------------------
(* Showcase                                                                  *)

\* The frame that decides what name the relay will show is the last one on its way.
NameSettled ==
    link /\ doc # NoDoc /\ myName # NoDoc =>
        \/ row.name = Allowed(doc, myName) /\ \A i \in DOMAIN going : going[i].op # "name"
        \/ \E i \in DOMAIN going : /\ going[i] = NameFrame(Allowed(doc, myName))
                                   /\ \A j \in DOMAIN going : j > i => going[j].op # "name"

\* What was published later comes later.
Counted(f) == f.op \in {"picture", "ornament"}
InTurn ==
    \A i, j \in DOMAIN going :
        i < j /\ Counted(going[i]) /\ going[j].op = going[i].op => going[i].show < going[j].show

PicturesTrue ==
    /\ \A i \in DOMAIN going : going[i].op = "picture" => row.picture < going[i].show /\ going[i].show <= pub
    /\ \A i \in DOMAIN coming : coming[i] <= row.picture
    /\ row.picture <= shows /\ (pub # 0 => row.picture <= pub)
    /\ NoticeIsTrue

OrnamentsTrue ==
    /\ \A i \in DOMAIN going : going[i].op = "ornament" => row.blob < going[i].show /\ going[i].show <= worn.show
    /\ worn.show <= shows /\ row.blob <= worn.show
    /\ worn.sealed /\ row.blob = worn.show => row.plain = 0

ShowcaseInv == ShowcaseTypeOK /\ NameSettled /\ InTurn /\ PicturesTrue /\ OrnamentsTrue

LEMMA ShowcaseMeans == ShowcaseInv => ShownIsSet
<1> SUFFICES ASSUME ShowcaseInv PROVE ShownIsSet
  OBVIOUS
<1>1. HiddenNameStays
  BY DEF ShowcaseInv, NameSettled, HiddenNameStays, Index, NameFrame
<1>2. NoticeIsTrue /\ NoneBeside
  BY DEF ShowcaseInv, PicturesTrue, OrnamentsTrue, NoneBeside
<1> QED BY <1>1, <1>2 DEF ShowcaseInv, ShownIsSet

LEMMA ShowcaseStarts == ShowcaseInit => ShowcaseInv
<1> SUFFICES ASSUME ShowcaseInit PROVE ShowcaseInv
  OBVIOUS
<1>1. going = <<>> /\ coming = <<>> /\ going \in Seq(Frame) /\ coming \in Seq(Nat)
  BY DEF ShowcaseInit
<1>2. ShowcaseTypeOK
  <2>1. row \in [name : Label \union {NoLabel}, picture : Nat, plain : Nat, blob : Nat]
        /\ worn \in [show : Nat, sealed : BOOLEAN]
    BY DEF ShowcaseInit
  <2>2. pub \in 0 .. shows /\ shows \in Nat /\ noticed \in Nat
    BY DEF ShowcaseInit
  <2>3. link \in BOOLEAN /\ doc \in Document \union {NoDoc} /\ myName \in Label \union {NoDoc}
    BY DEF ShowcaseInit
  <2> QED BY <1>1, <2>1, <2>2, <2>3 DEF ShowcaseTypeOK
<1>3. NameSettled /\ InTurn
  BY <1>1 DEF ShowcaseInit, NameSettled, InTurn
<1>4. PicturesTrue /\ OrnamentsTrue
  BY <1>1 DEF ShowcaseInit, PicturesTrue, OrnamentsTrue, NoticeIsTrue
<1> QED BY <1>2, <1>3, <1>4 DEF ShowcaseInv

\* The kinds of frames, and what each carries.
LEMMA FrameKinds ==
  /\ \A n \in Label \union {NoLabel} : NameFrame(n) \in Frame /\ NameFrame(n).op = "name" /\ NameFrame(n).name = n
  /\ \A k \in Nat : Picture(k) \in Frame /\ Picture(k).op = "picture" /\ Picture(k).show = k
  /\ \A k \in Nat, b \in BOOLEAN : /\ Ornament(k, b) \in Frame /\ Ornament(k, b).op = "ornament"
                                   /\ Ornament(k, b).show = k /\ Ornament(k, b).sealed = b
  /\ AskRow \in Frame /\ AskRow.op = "ask"
  /\ \A f \in Frame : /\ f.op \in {"name", "picture", "ornament", "ask"}
                      /\ f.op = "name" => f.name \in Label \union {NoLabel}
                      /\ Counted(f) => f.show \in Nat
                      /\ f.op = "ornament" => f.sealed \in BOOLEAN
BY DEF Frame, NameFrame, Picture, Ornament, AskRow, Counted

\* A frame that is sent is the last one.
LEMMA Queued ==
  ASSUME going \in Seq(Frame), NEW f \in Frame, Sends(f)
  PROVE  /\ going' \in Seq(Frame) /\ going' = Append(going, f)
         /\ DOMAIN going' = DOMAIN going \union {Len(going) + 1}
         /\ Len(going) + 1 \notin DOMAIN going /\ Len(going) + 1 \in Nat
         /\ \A i \in DOMAIN going : i \in Nat /\ i < Len(going) + 1 /\ going'[i] = going[i]
         /\ going'[Len(going) + 1] = f
BY DEF Sends

\* Of pictures and ornaments nothing changes.
LEMMA NotShown ==
  ASSUME ShowcaseInv, UNCHANGED <<pub, shows, row, noticed, worn>>,
         \/ UNCHANGED onWire
         \/ \E f \in Frame : f.op \in {"name", "ask"} /\ Sends(f) /\ UNCHANGED coming
         \/ going' = <<>> /\ coming' = <<>>
  PROVE  InTurn' /\ PicturesTrue' /\ OrnamentsTrue' /\ going' \in Seq(Frame) /\ coming' \in Seq(Nat)
<1> USE DEF onWire
<1>1. CASE UNCHANGED onWire
  BY <1>1 DEF ShowcaseInv, ShowcaseTypeOK, InTurn, PicturesTrue, OrnamentsTrue, NoticeIsTrue
<1>2. CASE going' = <<>> /\ coming' = <<>>
  <2>1. DOMAIN going' = {} /\ DOMAIN coming' = {} /\ going' \in Seq(Frame) /\ coming' \in Seq(Nat)
    BY <1>2
  <2> QED BY <2>1 DEF ShowcaseInv, InTurn, PicturesTrue, OrnamentsTrue, NoticeIsTrue
<1>3. ASSUME NEW f \in Frame, f.op \in {"name", "ask"}, Sends(f), UNCHANGED coming
      PROVE  InTurn' /\ PicturesTrue' /\ OrnamentsTrue' /\ going' \in Seq(Frame) /\ coming' \in Seq(Nat)
  <2>1. /\ going' \in Seq(Frame)
        /\ DOMAIN going' = DOMAIN going \union {Len(going) + 1}
        /\ \A i \in DOMAIN going : going'[i] = going[i]
        /\ going'[Len(going) + 1] = f
    BY <1>3, Queued DEF ShowcaseInv, ShowcaseTypeOK
  <2>2. ~Counted(f) /\ f.op # "picture" /\ f.op # "ornament"
    BY <1>3 DEF Counted
  <2>3. InTurn'
    BY <2>1, <2>2 DEF ShowcaseInv, InTurn, Counted
  <2>4. PicturesTrue' /\ OrnamentsTrue'
    BY <1>3, <2>1, <2>2 DEF ShowcaseInv, PicturesTrue, OrnamentsTrue, NoticeIsTrue
  <2> QED BY <1>3, <2>1, <2>3, <2>4 DEF ShowcaseInv, ShowcaseTypeOK
<1> QED BY <1>1, <1>2, <1>3

\* The name that was sent last is the one the rules allow.
LEMMA NameSent ==
  ASSUME going \in Seq(Frame), NEW n \in Label \union {NoLabel}, Sends(NameFrame(n)),
         doc' # NoDoc /\ myName' # NoDoc => n = Allowed(doc', myName')
  PROVE  NameSettled'
<1>1. /\ DOMAIN going' = DOMAIN going \union {Len(going) + 1}
      /\ \A i \in DOMAIN going : i \in Nat /\ i < Len(going) + 1
      /\ going'[Len(going) + 1] = NameFrame(n) /\ Len(going) + 1 \in Nat
  BY Queued, FrameKinds
<1>2. \A j \in DOMAIN going' : ~(j > Len(going) + 1)
  BY <1>1
<1> QED BY <1>1, <1>2 DEF NameSettled

\* Frames of another kind do not change what the name will be.
LEMMA OtherSent ==
  ASSUME ShowcaseInv, NEW f \in Frame, f.op # "name", Sends(f), UNCHANGED <<link, doc, myName, row>>
  PROVE  NameSettled'
<1>1. /\ DOMAIN going' = DOMAIN going \union {Len(going) + 1}
      /\ \A i \in DOMAIN going : going'[i] = going[i]
      /\ going'[Len(going) + 1] = f
  BY Queued DEF ShowcaseInv, ShowcaseTypeOK
<1> QED BY <1>1 DEF ShowcaseInv, NameSettled

LEMMA AllowedIsName ==
  ASSUME NEW d \in Document, NEW n \in Label PROVE Allowed(d, n) \in Label \union {NoLabel}
BY DEF Allowed, Document

\* Restoring the rules settles the name.
LEMMA Restored ==
  ASSUME ShowcaseInv, NEW d \in Document \union {NoDoc}, Restore(d), doc' = d, UNCHANGED <<myName, row>>
  PROVE  /\ NameSettled'
         /\ UNCHANGED going \/ \E f \in Frame : f.op \in {"name", "ask"} /\ Sends(f)
<1>1. CASE d = NoDoc \/ myName = NoDoc
  BY <1>1 DEF Restore, NameSettled
<1>2. CASE d # NoDoc /\ myName # NoDoc
  <2>1. d \in Document /\ myName \in Label
    BY <1>2 DEF ShowcaseInv, ShowcaseTypeOK
  <2>2. Sends(NameFrame(Allowed(d, myName))) /\ Allowed(d, myName) \in Label \union {NoLabel}
    BY <1>2, <2>1, AllowedIsName DEF Restore
  <2>3. NameSettled'
    BY <2>2, NameSent DEF ShowcaseInv, ShowcaseTypeOK
  <2> QED BY <2>2, <2>3, FrameKinds
<1> QED BY <1>1, <1>2

LEMMA RulesStep ==
  ASSUME ShowcaseInv, \/ LinkUp \/ OnUsernameOk \/ LinkLost \/ RulesMaximize
                      \/ \E d \in Document : RulesSet(d)
  PROVE  ShowcaseInv'
<1> USE DEF owned, onWire
<1> DEFINE Rest == UNCHANGED <<myName, pub, shows, row, noticed, worn>>
           Wire == \/ UNCHANGED onWire
                   \/ \E f \in Frame : f.op \in {"name", "ask"} /\ Sends(f) /\ UNCHANGED coming
                   \/ going' = <<>> /\ coming' = <<>>
<1>1. Rest /\ link' \in BOOLEAN /\ doc' \in Document \union {NoDoc} /\ NameSettled' /\ Wire
  <2>1. CASE LinkUp \/ OnUsernameOk
    <3>1. Restore(doc) /\ UNCHANGED <<owned, coming, row, noticed, worn>> /\ link' \in BOOLEAN
      BY <2>1 DEF LinkUp, OnUsernameOk, ShowcaseInv, ShowcaseTypeOK
    <3>2. doc \in Document \union {NoDoc}
      BY DEF ShowcaseInv, ShowcaseTypeOK
    <3> QED BY <3>1, <3>2, Restored
  <2>2. CASE LinkLost \/ RulesMaximize
    <3>1. link' = FALSE /\ Rest /\ Wire
      BY <2>2 DEF LinkLost, RulesMaximize, Dropped
    <3>2. doc' \in Document \union {NoDoc}
      <4>1. doc' = doc \/ doc' = [name |-> FALSE, picture |-> FALSE]
        BY <2>2 DEF LinkLost, RulesMaximize
      <4>2. [name |-> FALSE, picture |-> FALSE] \in Document
        BY DEF Document
      <4> QED BY <4>1, <4>2 DEF ShowcaseInv, ShowcaseTypeOK
    <3>3. NameSettled'
      BY <3>1 DEF NameSettled
    <3>4. link' \in BOOLEAN
      BY <3>1
    <3> HIDE DEF Rest, Wire
    <3> QED BY <3>1, <3>2, <3>3, <3>4
  <2>3. ASSUME NEW d \in Document, RulesSet(d)
        PROVE  Rest /\ link' \in BOOLEAN /\ doc' \in Document \union {NoDoc} /\ NameSettled' /\ Wire
    <3>1. doc' = d /\ Rest
      BY <2>3 DEF RulesSet
    <3>2. CASE ~link /\ UNCHANGED <<link, onWire>>
      <4>1. link' = FALSE /\ doc' \in Document \union {NoDoc}
        BY <3>1, <3>2 DEF ShowcaseInv, ShowcaseTypeOK
      <4>2. NameSettled'
        BY <4>1 DEF NameSettled
      <4> QED BY <3>1, <3>2, <4>1, <4>2
    <3>3. CASE link /\ Restore(d) /\ UNCHANGED <<link, coming>>
      BY <3>1, <3>3, Restored
    <3>4. CASE Dropped
      BY <3>1, <3>4 DEF Dropped, NameSettled
    <3> QED BY <2>3, <3>2, <3>3, <3>4 DEF RulesSet
  <2> QED BY <2>1, <2>2, <2>3
<1>2. InTurn' /\ PicturesTrue' /\ OrnamentsTrue' /\ going' \in Seq(Frame) /\ coming' \in Seq(Nat)
  BY <1>1, NotShown
<1>3. ShowcaseTypeOK'
  BY <1>1, <1>2 DEF ShowcaseInv, ShowcaseTypeOK
<1> QED BY <1>1, <1>2, <1>3 DEF ShowcaseInv

LEMMA NameStep ==
  ASSUME ShowcaseInv, \/ ProfileGet \/ \E n \in Label : NameSet(n)
  PROVE  ShowcaseInv'
<1> USE DEF owned, onWire
<1>1. CASE ProfileGet
  <2>1. AskRow \in Frame /\ AskRow.op = "ask"
    BY FrameKinds
  <2>2. NameSettled'
    BY <1>1, <2>1, OtherSent DEF ProfileGet
  <2>3. InTurn' /\ PicturesTrue' /\ OrnamentsTrue' /\ going' \in Seq(Frame) /\ coming' \in Seq(Nat)
    BY <1>1, <2>1, NotShown DEF ProfileGet
  <2>4. ShowcaseTypeOK'
    BY <1>1, <2>3 DEF ProfileGet, ShowcaseInv, ShowcaseTypeOK
  <2> QED BY <2>2, <2>3, <2>4 DEF ShowcaseInv
<1>2. ASSUME NEW n \in Label, NameSet(n) PROVE ShowcaseInv'
  <2>1. RulesNow \in Document /\ (doc # NoDoc => RulesNow = doc)
    BY DEF RulesNow, Document, ShowcaseInv, ShowcaseTypeOK
  <2>2. Allowed(RulesNow, n) \in Label \union {NoLabel}
    BY <2>1, AllowedIsName
  <2>3. NameSettled'
    BY <1>2, <2>1, <2>2, NameSent DEF NameSet, ShowcaseInv, ShowcaseTypeOK
  <2>4. InTurn' /\ PicturesTrue' /\ OrnamentsTrue' /\ going' \in Seq(Frame) /\ coming' \in Seq(Nat)
    <3>1. NameFrame(Allowed(RulesNow, n)) \in Frame /\ NameFrame(Allowed(RulesNow, n)).op = "name"
      BY <2>2, FrameKinds
    <3> QED BY <1>2, <3>1, NotShown DEF NameSet
  <2>5. ShowcaseTypeOK'
    BY <1>2, <2>4 DEF NameSet, ShowcaseInv, ShowcaseTypeOK
  <2> QED BY <2>3, <2>4, <2>5 DEF ShowcaseInv
<1> QED BY <1>1, <1>2

\* Pictures and ornaments are numbered as they are sent.
LEMMA ShowStep ==
  ASSUME ShowcaseInv, ProfileSet \/ ProfileDecor
  PROVE  ShowcaseInv'
<1> USE DEF owned, onWire
<1>1. PICK f \in Frame : /\ Sends(f) /\ f.op \in {"picture", "ornament"} /\ f.show = shows + 1
                         /\ f.op = "picture" => pub' = shows + 1 /\ UNCHANGED worn
                         /\ f.op = "ornament" => worn'.show = shows + 1 /\ UNCHANGED pub
  <2>1. CASE ProfileSet
    <3>1. shows + 1 \in Nat
      BY DEF ShowcaseInv, ShowcaseTypeOK
    <3>2. Picture(shows + 1) \in Frame /\ Picture(shows + 1).op = "picture" /\ Picture(shows + 1).show = shows + 1
      BY <3>1, FrameKinds
    <3>3. Sends(Picture(shows + 1)) /\ pub' = shows + 1 /\ UNCHANGED worn
      BY <2>1 DEF ProfileSet
    <3> QED BY <3>2, <3>3
  <2>2. CASE ProfileDecor
    <3> DEFINE o == Ornament(shows + 1, ~RulesNow.picture)
    <3>1. shows + 1 \in Nat /\ (~RulesNow.picture) \in BOOLEAN
      BY DEF ShowcaseInv, ShowcaseTypeOK
    <3>2. o \in Frame /\ o.op = "ornament" /\ o.show = shows + 1
      BY <3>1, FrameKinds
    <3>3. Sends(o) /\ worn'.show = shows + 1 /\ UNCHANGED pub
      BY <2>2 DEF ProfileDecor
    <3> QED BY <3>2, <3>3
  <2> QED BY <2>1, <2>2
<1>2. shows' = shows + 1 /\ UNCHANGED <<link, doc, myName, coming, row, noticed>>
  BY DEF ProfileSet, ProfileDecor
<1>3. /\ going' \in Seq(Frame)
      /\ DOMAIN going' = DOMAIN going \union {Len(going) + 1}
      /\ \A i \in DOMAIN going : i \in Nat /\ i < Len(going) + 1 /\ going'[i] = going[i]
      /\ going'[Len(going) + 1] = f /\ Len(going) + 1 \in Nat
  BY <1>1, Queued DEF ShowcaseInv, ShowcaseTypeOK
<1>4. \A i \in DOMAIN going : going[i] \in Frame
  BY DEF ShowcaseInv, ShowcaseTypeOK
<1>5. \A i \in DOMAIN going : Counted(going[i]) => going[i].show \in Nat /\ going[i].show <= shows
  <2> SUFFICES ASSUME NEW i \in DOMAIN going, Counted(going[i])
               PROVE  going[i].show \in Nat /\ going[i].show <= shows
    OBVIOUS
  <2>1. going[i].show \in Nat
    BY <1>4, FrameKinds
  <2>2. shows \in Nat /\ pub \in Nat /\ pub <= shows /\ worn.show \in Nat /\ worn.show <= shows
    BY DEF ShowcaseInv, ShowcaseTypeOK, OrnamentsTrue
  <2>3. going[i].show <= pub \/ going[i].show <= worn.show
    BY DEF ShowcaseInv, PicturesTrue, OrnamentsTrue, Counted
  <2> QED BY <2>1, <2>2, <2>3
<1>6. NameSettled'
  BY <1>1, <1>2, OtherSent
<1>7. InTurn'
  <2> SUFFICES ASSUME NEW i \in DOMAIN going', NEW j \in DOMAIN going', i < j,
                      Counted(going'[i]), going'[j].op = going'[i].op
               PROVE  going'[i].show < going'[j].show
    BY DEF InTurn, Counted
  <2>1. i \in DOMAIN going
    BY <1>3
  <2>2. CASE j \in DOMAIN going
    BY <2>1, <2>2, <1>3 DEF ShowcaseInv, InTurn
  <2>3. CASE j = Len(going) + 1
    BY <2>1, <2>3, <1>1, <1>3, <1>5 DEF ShowcaseInv, ShowcaseTypeOK
  <2> QED BY <2>2, <2>3, <1>3
<1>8. PicturesTrue'
  <2>1. /\ pub' \in Nat /\ pub <= pub' /\ row.picture \in Nat
        /\ f.op = "picture" => f.show = pub' /\ row.picture < f.show
        /\ pub' # 0 => row.picture <= pub'
    BY <1>1, <1>2 DEF ShowcaseInv, ShowcaseTypeOK, PicturesTrue
  <2>2. ASSUME NEW i \in DOMAIN going', going'[i].op = "picture"
        PROVE  row'.picture < going'[i].show /\ going'[i].show <= pub'
    <3>1. CASE i \in DOMAIN going
      <4>1. row.picture < going[i].show /\ going[i].show <= pub /\ going[i].show \in Nat
        BY <2>2, <3>1, <1>3, <1>5 DEF ShowcaseInv, PicturesTrue, Counted
      <4> QED BY <4>1, <2>1, <3>1, <1>2, <1>3 DEF ShowcaseInv, ShowcaseTypeOK
    <3>2. CASE i = Len(going) + 1
      BY <2>1, <2>2, <3>2, <1>2, <1>3
    <3> QED BY <3>1, <3>2, <1>3
  <2>3. row'.picture <= shows' /\ NoticeIsTrue'
    BY <1>1, <1>2 DEF ShowcaseInv, ShowcaseTypeOK, PicturesTrue, NoticeIsTrue
  <2> QED BY <2>1, <2>2, <2>3, <1>2 DEF ShowcaseInv, PicturesTrue
<1>9. OrnamentsTrue'
  <2>1. /\ worn'.show \in Nat /\ worn.show <= worn'.show /\ row.blob \in Nat /\ worn'.show <= shows'
        /\ row.blob <= worn'.show /\ worn.show \in Nat
        /\ f.op = "ornament" => f.show = worn'.show /\ row.blob < f.show
        /\ f.op = "picture" => worn' = worn
    BY <1>1, <1>2 DEF ShowcaseInv, ShowcaseTypeOK, OrnamentsTrue
  <2>2. ASSUME NEW i \in DOMAIN going', going'[i].op = "ornament"
        PROVE  row'.blob < going'[i].show /\ going'[i].show <= worn'.show
    <3>1. CASE i \in DOMAIN going
      <4>1. row.blob < going[i].show /\ going[i].show <= worn.show /\ going[i].show \in Nat
        BY <2>2, <3>1, <1>3, <1>5 DEF ShowcaseInv, OrnamentsTrue, Counted
      <4> QED BY <4>1, <2>1, <3>1, <1>2, <1>3
    <3>2. CASE i = Len(going) + 1
      BY <2>1, <2>2, <3>2, <1>2, <1>3
    <3> QED BY <3>1, <3>2, <1>3
  <2>3. worn'.sealed /\ row'.blob = worn'.show => row'.plain = 0
    BY <1>1, <1>2, <2>1 DEF ShowcaseInv, OrnamentsTrue
  <2> QED BY <2>1, <2>2, <2>3, <1>2 DEF OrnamentsTrue
<1>10. ShowcaseTypeOK'
  <2>1. worn' \in [show : Nat, sealed : BOOLEAN]
    <3>1. worn \in [show : Nat, sealed : BOOLEAN] /\ shows' \in Nat
      BY <1>2 DEF ShowcaseInv, ShowcaseTypeOK
    <3>2. worn' = worn \/ worn' = [show |-> shows', sealed |-> ~RulesNow.picture]
      BY DEF ProfileSet, ProfileDecor
    <3>3. ASSUME worn' = [show |-> shows', sealed |-> ~RulesNow.picture]
          PROVE  worn' \in [show : Nat, sealed : BOOLEAN]
      <4>1. (~RulesNow.picture) \in BOOLEAN
        OBVIOUS
      <4> QED BY <3>1, <3>3, <4>1
    <3> QED BY <3>1, <3>2, <3>3
  <2>2. pub' \in 0 .. shows' /\ shows' \in Nat
    BY <1>1, <1>2 DEF ShowcaseInv, ShowcaseTypeOK
  <2> QED BY <2>1, <2>2, <1>2, <1>3 DEF ShowcaseInv, ShowcaseTypeOK
<1> QED BY <1>6, <1>7, <1>8, <1>9, <1>10 DEF ShowcaseInv

\* An answer that shows the pending picture: the relay has it, and no other is on its way.
LEMMA AnswerStep == ASSUME ShowcaseInv, OnProfile PROVE ShowcaseInv'
<1> USE DEF owned, onWire
<1>1. /\ coming \in Seq(Nat) /\ coming # <<>> /\ coming' = Tail(coming)
      /\ UNCHANGED <<link, doc, myName, shows, going, row, worn>>
  BY DEF OnProfile, ShowcaseInv, ShowcaseTypeOK
<1>2. /\ coming' \in Seq(Nat) /\ Head(coming) = coming[1] /\ 1 \in DOMAIN coming /\ Head(coming) \in Nat
      /\ \A i \in DOMAIN coming' : i + 1 \in DOMAIN coming /\ coming'[i] = coming[i + 1]
  BY <1>1
<1>3. NameSettled' /\ InTurn' /\ OrnamentsTrue'
  BY <1>1 DEF ShowcaseInv, NameSettled, InTurn, OrnamentsTrue
<1>4. PicturesTrue' /\ pub' \in 0 .. shows' /\ noticed' \in Nat
  <2>1. CASE pub # 0 /\ Head(coming) = pub
    <3>1. noticed' = pub /\ pub' = 0 /\ row.picture = pub
      BY <1>1, <1>2, <2>1 DEF OnProfile, ShowcaseInv, ShowcaseTypeOK, PicturesTrue
    <3>2. \A i \in DOMAIN going : going[i] \in Frame
      BY DEF ShowcaseInv, ShowcaseTypeOK
    <3>3. \A i \in DOMAIN going : going[i].op # "picture"
      <4> SUFFICES ASSUME NEW i \in DOMAIN going, going[i].op = "picture" PROVE FALSE
        OBVIOUS
      <4>1. going[i].show \in Nat
        BY <3>2, FrameKinds DEF Counted
      <4>2. row.picture < going[i].show /\ going[i].show <= pub
        BY DEF ShowcaseInv, PicturesTrue
      <4> QED BY <3>1, <4>1, <4>2 DEF ShowcaseInv, ShowcaseTypeOK
    <3>4. \A i \in DOMAIN coming' : coming'[i] <= row.picture
      BY <1>2 DEF ShowcaseInv, PicturesTrue
    <3> QED BY <1>1, <3>1, <3>3, <3>4 DEF ShowcaseInv, ShowcaseTypeOK, PicturesTrue, NoticeIsTrue
  <2>2. CASE ~(pub # 0 /\ Head(coming) = pub)
    <3>1. UNCHANGED <<noticed, pub>>
      BY <2>2 DEF OnProfile
    <3>2. \A i \in DOMAIN coming' : coming'[i] <= row.picture
      BY <1>2 DEF ShowcaseInv, PicturesTrue
    <3> QED BY <1>1, <3>1, <3>2 DEF ShowcaseInv, ShowcaseTypeOK, PicturesTrue, NoticeIsTrue
  <2> QED BY <2>1, <2>2
<1>5. ShowcaseTypeOK'
  BY <1>1, <1>2, <1>4 DEF ShowcaseInv, ShowcaseTypeOK
<1> QED BY <1>3, <1>4, <1>5 DEF ShowcaseInv

\* The relay takes the first frame: those behind it were published later.
LEMMA FrameStep == ASSUME ShowcaseInv, OnFrame PROVE ShowcaseInv'
<1> USE DEF owned
<1> DEFINE f == going[1]
<1>1. /\ going \in Seq(Frame) /\ going # <<>> /\ going' = Tail(going) /\ Head(going) = f
      /\ 1 \in DOMAIN going /\ f \in Frame /\ row' = RowAfter(f)
      /\ UNCHANGED <<link, doc, myName, pub, shows, noticed, worn>>
  BY DEF OnFrame, ShowcaseInv, ShowcaseTypeOK
<1>2. /\ going' \in Seq(Frame)
      /\ \A i \in DOMAIN going' : /\ i \in Nat /\ i + 1 \in DOMAIN going /\ going'[i] = going[i + 1]
                                  /\ 1 < i + 1 /\ going[i + 1] \in Frame
      /\ \A i \in DOMAIN going : i # 1 => i - 1 \in DOMAIN going' /\ going'[i - 1] = going[i] /\ i \in Nat
  BY <1>1
<1>3. /\ row \in [name : Label \union {NoLabel}, picture : Nat, plain : Nat, blob : Nat]
      /\ f.op \in {"name", "picture", "ornament", "ask"}
      /\ f.op = "name" => f.name \in Label \union {NoLabel}
      /\ Counted(f) => f.show \in Nat
      /\ f.op = "ornament" => f.sealed \in BOOLEAN
  BY <1>1, FrameKinds DEF ShowcaseInv, ShowcaseTypeOK
<1>4. /\ row' \in [name : Label \union {NoLabel}, picture : Nat, plain : Nat, blob : Nat]
      /\ row'.name = IF f.op = "name" THEN f.name ELSE row.name
      /\ row'.picture = IF f.op = "picture" THEN f.show ELSE row.picture
      /\ f.op # "ornament" => row'.blob = row.blob /\ row'.plain = row.plain
      /\ f.op = "ornament" => \/ f.sealed /\ row'.blob = f.show /\ row'.plain = 0
                              \/ ~f.sealed /\ row'.blob = row.blob /\ row'.plain = f.show
  <2>1. CASE f.op = "name"
    BY <1>1, <1>3, <2>1 DEF RowAfter
  <2>2. CASE f.op = "picture"
    BY <1>1, <1>3, <2>2 DEF RowAfter, Counted
  <2>3. CASE f.op = "ornament"
    BY <1>1, <1>3, <2>3 DEF RowAfter, Worn, Counted
  <2>4. CASE f.op = "ask"
    BY <1>1, <1>3, <2>4 DEF RowAfter
  <2> QED BY <1>3, <2>1, <2>2, <2>3, <2>4
<1> HIDE DEF f
<1>5. /\ coming' \in Seq(Nat) /\ coming \in Seq(Nat)
      /\ \A i \in DOMAIN coming' : (i \in DOMAIN coming /\ coming'[i] = coming[i]) \/ coming'[i] = row'.picture
  <2>1. coming \in Seq(Nat) /\ row'.picture \in Nat /\ coming' = Append(coming, row'.picture)
    BY <1>4 DEF OnFrame, ShowcaseInv, ShowcaseTypeOK
  <2> DEFINE n == row'.picture
  <2> HIDE DEF n
  <2>2. n \in Nat /\ coming' = Append(coming, n)
    BY <2>1 DEF n
  <2>3. coming' \in Seq(Nat) /\ \A i \in DOMAIN coming' : (i \in DOMAIN coming /\ coming'[i] = coming[i]) \/ coming'[i] = n
    BY <2>1, <2>2
  <2> QED BY <2>1, <2>3 DEF n
<1>6. NameSettled'
  <2> SUFFICES ASSUME link, doc # NoDoc, myName # NoDoc
               PROVE  \/ row'.name = Allowed(doc, myName) /\ \A i \in DOMAIN going' : going'[i].op # "name"
                      \/ \E i \in DOMAIN going' : /\ going'[i] = NameFrame(Allowed(doc, myName))
                                                  /\ \A j \in DOMAIN going' : j > i => going'[j].op # "name"
    BY <1>1 DEF NameSettled
  <2>1. CASE row.name = Allowed(doc, myName) /\ \A i \in DOMAIN going : going[i].op # "name"
    BY <1>1, <1>2, <1>4, <2>1 DEF f
  <2>2. ASSUME NEW i \in DOMAIN going, going[i] = NameFrame(Allowed(doc, myName)),
               \A j \in DOMAIN going : j > i => going[j].op # "name"
        PROVE  \/ row'.name = Allowed(doc, myName) /\ \A j \in DOMAIN going' : going'[j].op # "name"
               \/ \E k \in DOMAIN going' : /\ going'[k] = NameFrame(Allowed(doc, myName))
                                           /\ \A j \in DOMAIN going' : j > k => going'[j].op # "name"
    <3>1. CASE i = 1
      <4>1. f.op = "name" /\ f.name = Allowed(doc, myName)
        BY <2>2, <3>1 DEF f, NameFrame
      <4>2. \A j \in DOMAIN going' : going'[j].op # "name"
        BY <1>2, <2>2, <3>1
      <4> QED BY <1>4, <4>1, <4>2
    <3>2. CASE i # 1
      <4>1. i - 1 \in DOMAIN going' /\ going'[i - 1] = NameFrame(Allowed(doc, myName)) /\ i \in Nat
        BY <1>2, <2>2, <3>2
      <4>2. \A j \in DOMAIN going' : j > i - 1 => going'[j].op # "name"
        BY <1>2, <2>2, <4>1
      <4> QED BY <4>1, <4>2
    <3> QED BY <3>1, <3>2
  <2> QED BY <2>1, <2>2 DEF ShowcaseInv, NameSettled
<1>7. InTurn'
  <2> SUFFICES ASSUME NEW i \in DOMAIN going', NEW j \in DOMAIN going', i < j,
                      Counted(going'[i]), going'[j].op = going'[i].op
               PROVE  going'[i].show < going'[j].show
    BY DEF InTurn, Counted
  <2>1. i + 1 < j + 1 /\ Counted(going[i + 1]) /\ going[j + 1].op = going[i + 1].op
    BY <1>2
  <2> QED BY <2>1, <1>2 DEF ShowcaseInv, InTurn
<1>8. \A i \in DOMAIN going' : /\ Counted(going'[i]) => going'[i].show \in Nat
                               /\ Counted(f) /\ going'[i].op = f.op => f.show < going'[i].show
  BY <1>1, <1>2, FrameKinds DEF ShowcaseInv, InTurn, f, Counted
<1>9. PicturesTrue'
  <2>1. /\ row.picture \in Nat /\ row'.picture \in Nat /\ row.picture <= row'.picture
        /\ f.op = "picture" => row'.picture <= pub /\ row.picture < row'.picture
    BY <1>1, <1>3, <1>4 DEF ShowcaseInv, PicturesTrue, f, Counted
  <2>2. ASSUME NEW i \in DOMAIN going', going'[i].op = "picture"
        PROVE  row'.picture < going'[i].show /\ going'[i].show <= pub
    BY <1>2, <1>4, <1>8, <2>2 DEF ShowcaseInv, PicturesTrue, Counted
  <2>3. \A i \in DOMAIN coming' : coming'[i] <= row'.picture
    <3>1. \A i \in DOMAIN coming : coming[i] \in Nat /\ coming[i] <= row.picture
      BY <1>5 DEF ShowcaseInv, PicturesTrue
    <3>2. row.picture \in Nat /\ row'.picture \in Nat
      BY <1>3, <1>4
    <3> SUFFICES ASSUME NEW i \in DOMAIN coming' PROVE coming'[i] <= row'.picture
      OBVIOUS
    <3> DEFINE a == row.picture
               b == row'.picture
               c == coming'[i]
    <3>3. a <= b /\ a \in Nat /\ b \in Nat /\ (c = b \/ (c \in Nat /\ c <= a))
      BY <1>5, <2>1, <3>1, <3>2
    <3> HIDE DEF a, b, c
    <3>4. c <= b
      BY <3>3
    <3> QED BY <3>4 DEF b, c
  <2>4. row'.picture <= shows /\ (pub # 0 => row'.picture <= pub)
    BY <1>4, <2>1 DEF ShowcaseInv, ShowcaseTypeOK, PicturesTrue
  <2>5. NoticeIsTrue'
    BY <1>1, <1>4, <2>1 DEF ShowcaseInv, ShowcaseTypeOK, PicturesTrue, NoticeIsTrue
  <2> QED BY <1>1, <2>2, <2>3, <2>4, <2>5 DEF PicturesTrue
<1>10. OrnamentsTrue'
  <2>1. CASE f.op # "ornament"
    BY <1>1, <1>2, <1>4, <2>1 DEF ShowcaseInv, OrnamentsTrue
  <2>2. CASE f.op = "ornament"
    <3>1. f.show \in Nat /\ row.blob < f.show /\ f.show <= worn.show /\ row.blob \in Nat /\ worn.show \in Nat
      BY <1>1, <1>3, <2>2 DEF ShowcaseInv, ShowcaseTypeOK, OrnamentsTrue, f, Counted
    <3>2. \A i \in DOMAIN going' : going'[i].op = "ornament" =>
              row'.blob < going'[i].show /\ going'[i].show <= worn.show
      BY <1>2, <1>4, <1>8, <2>2, <3>1 DEF ShowcaseInv, OrnamentsTrue, Counted
    <3>3. row'.blob <= worn.show /\ (worn.sealed /\ row'.blob = worn.show => row'.plain = 0)
      BY <1>4, <2>2, <3>1
    <3> QED BY <1>1, <3>2, <3>3 DEF ShowcaseInv, OrnamentsTrue
  <2> QED BY <2>1, <2>2
<1>11. ShowcaseTypeOK'
  BY <1>1, <1>2, <1>4, <1>5 DEF ShowcaseInv, ShowcaseTypeOK
<1> QED BY <1>6, <1>7, <1>9, <1>10, <1>11 DEF ShowcaseInv

LEMMA ShowcaseStep == ShowcaseInv /\ [ShowcaseNext]_showcaseVars => ShowcaseInv'
<1> SUFFICES ASSUME ShowcaseInv, [ShowcaseNext]_showcaseVars PROVE ShowcaseInv'
  OBVIOUS
<1>1. CASE UNCHANGED showcaseVars
  BY <1>1 DEF showcaseVars, owned, onWire, ShowcaseInv, ShowcaseTypeOK, NameSettled, InTurn, PicturesTrue,
              OrnamentsTrue, NoticeIsTrue
<1>2. CASE ShowcaseNext
  BY <1>2, RulesStep, NameStep, ShowStep, AnswerStep, FrameStep DEF ShowcaseNext
<1> QED BY <1>1, <1>2

\* Through any order of rules, names, pictures, ornaments, losses and answers: the relay
\* shows the name the rules allow once it has read what was written, contacts were told
\* of the picture it has, and no open ornaments stand beside the ones sealed last.
THEOREM ShownIsSetHolds == ShowcaseSpec => []ShownIsSet
BY ShowcaseMeans, ShowcaseStarts, ShowcaseStep, PTL DEF ShowcaseSpec
=============================================================================

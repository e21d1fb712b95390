------------------------------- MODULE Calls -------------------------------
(* Calls (calls.rs, calls/runtime.rs and their commands in client.rs): the    *)
(* signals of a call are messages of the two members of a conversation, its   *)
(* sound goes over a socket of its own to the relay (module Rooms).          *)
(*                                                                          *)
(* A device has at most one call (`call`), with one task: the timer while it   *)
(* rings, then the media. The state belongs to the core's thread; only the    *)
(* abort of a media task comes from the user's thread, ahead of the command.  *)
(* A signal may be late or overtake another (Outbox!InOrder exempts them), and *)
(* one that is never taken is lost: in transit, forbidden by a rule of the    *)
(* receiver, or not sent for want of a connection. It is read once. End,      *)
(* Reject and Busy differ in what the user is told only: here they are "end". *)
EXTENDS Naturals, FiniteSets, Functions, Tables

CONSTANTS
    Talker,       \* devices
    Ahead,        \* Ahead[d]: how far the clock of d is ahead
    NoCall,
    Ttl, Slack,   \* TTL_MS; the five seconds of Signal.fresh and of State.remember
    MaxSeen,      \* 256 calls remembered, and 128 probes
    MaxAsked,     \* 8 probes at once
    \* bounds of a model
    MaxCall, MaxClock, MaxRestarts

ASSUME CallsAssumption ==
    /\ Ahead \in [Talker -> Nat]
    /\ {Ttl, Slack, MaxSeen, MaxAsked, MaxCall, MaxClock, MaxRestarts} \subseteq Nat

VARIABLES
    call,     \* State.active; an Active that is not alive is as none: every entry prunes first
    seen,     \* State.seen: calls that must not ring any more, with their expiry
    asked,    \* Pending.outgoing: probes without an answer
    replied,     \* Pending.seen: probes that were answered
    signals,  \* signals on their way
    orders,   \* calls named by a CallEnd or CallReject in the command channel
    clock, nextCall, restarts,
    endings,  \* calls whose end the user was told, with how often (history)
    gone,     \* calls a device knows to be over (history)
    agreed,   \* calls whose callee accepted (history)
    flooded   \* devices that had no room to remember a call (history)

history == <<endings, gone, agreed, flooded>>
probes == <<asked, replied>>
callVars == <<call, seen, probes, signals, orders, clock, nextCall, restarts, history>>

Id == 1 .. MaxCall
Time(d) == clock + Ahead[d]
Signal(d, e, id, op) == [from |-> d, to |-> e, id |-> id, op |-> op, until |-> Time(d) + Ttl]
Fresh(d, s) == s.until > Time(d) /\ s.until <= Time(d) + Ttl + Slack

Full(d) == Cardinality(DOMAIN seen[d]) >= MaxSeen
Remember(d, e, id) ==
    seen' = IF Full(d) THEN seen ELSE [seen EXCEPT ![d] = Put(@, <<e, id>>, Time(d) + Ttl + Slack)]

\* pending: a call that rings, at the caller or at the callee, with its timer.
Ringing(e, id, caller, until) ==
    [peer |-> e, id |-> id, phase |-> IF caller THEN "ringing" ELSE "incoming",
     until |-> until, task |-> "timer", active |-> FALSE]

\* connect: the timer goes, the media task begins and is registered with the user's thread.
Connecting(c) == [c EXCEPT !.phase = "connecting", !.task = "media"]

\* The user is told that the call of d is over, and d has none any more.
CallOver(d) ==
    /\ call' = [call EXCEPT ![d] = NoCall]
    /\ endings' = [endings EXCEPT ![d][call[d].id] = @ + 1]
    /\ gone' = [gone EXCEPT ![d] = @ \union {call[d].id}]

-----------------------------------------------------------------------------
(* Commands of the user. *)

CallStart(d, e) ==
    /\ e # d /\ call[d] = NoCall /\ nextCall <= MaxCall
    /\ call' = [call EXCEPT ![d] = Ringing(e, nextCall, TRUE, Time(d) + Ttl)]
    /\ signals' = signals \union {Signal(d, e, nextCall, "offer")}
    /\ nextCall' = nextCall + 1
    /\ UNCHANGED <<seen, probes, orders, clock, restarts, history>>

CallAccept(d) ==
    /\ call[d] # NoCall /\ call[d].phase = "incoming" /\ call[d].until > Time(d)
    /\ call' = [call EXCEPT ![d] = Connecting(@)]
    /\ signals' = signals \union {Signal(d, call[d].peer, call[d].id, "accept")}
    /\ agreed' = agreed \union {call[d].id}
    /\ UNCHANGED <<seen, probes, orders, clock, nextCall, restarts, endings, gone, flooded>>

\* Engine::submit of CallEnd or CallReject: the media task of this call is
\* aborted at once, in the user's thread; the command comes to the core later.
HangUp(d) ==
    /\ call[d] # NoCall
    /\ orders' = [orders EXCEPT ![d] = @ \union {call[d].id}]
    /\ call' = IF call[d].task = "media" THEN [call EXCEPT ![d].task = "dead"] ELSE call
    /\ UNCHANGED <<seen, probes, signals, clock, nextCall, restarts, history>>

\* Mutant: the call is reported as ended and stays.
End_Kept(d) ==
    /\ endings' = [endings EXCEPT ![d][call[d].id] = @ + 1]
    /\ gone' = [gone EXCEPT ![d] = @ \union {call[d].id}]
    /\ signals' = signals \union {Signal(d, call[d].peer, call[d].id, "end")}
    /\ Remember(d, call[d].peer, call[d].id)
    /\ UNCHANGED <<call, flooded>>

\* end, and CallDispatch, which sends the signal if there is a connection.
End(d) ==
    /\ CallOver(d)
    /\ signals' = signals \union {Signal(d, call[d].peer, call[d].id, "end")}
    /\ Remember(d, call[d].peer, call[d].id)
    /\ flooded' = IF Full(d) THEN flooded \union {d} ELSE flooded

\* The command is taken, in any phase of the engine; nothing if the call is over.
Obey(d, id) ==
    /\ id \in orders[d]
    /\ orders' = [orders EXCEPT ![d] = @ \ {id}]
    /\ IF call[d] # NoCall /\ call[d].id = id THEN End(d)
       ELSE UNCHANGED <<call, seen, signals, endings, gone, flooded>>
    /\ UNCHANGED <<probes, clock, nextCall, restarts, agreed>>

\* CallProbe: noted before the rule is asked, so that a forbidden check stays noted.
CallProbe(d, e) ==
    /\ e # d /\ nextCall <= MaxCall
    /\ Cardinality(DOMAIN asked[d]) < MaxAsked /\ \A k \in DOMAIN asked[d] : k[1] # e
    /\ asked' = [asked EXCEPT ![d] = Put(@, <<e, nextCall>>, Time(d) + Ttl)]
    /\ signals' = signals \union {Signal(d, e, nextCall, "probe")}
    /\ nextCall' = nextCall + 1
    /\ UNCHANGED <<call, seen, replied, orders, clock, restarts, history>>

-----------------------------------------------------------------------------
(* Signals that arrive: incoming, and the two halves of a probe.             *)

\* An offer rings, or is answered by Busy. A call that is known does neither.
Offered(d, s) ==
    /\ s.op = "offer"
    /\ IF Full(d) \/ <<s.from, s.id>> \in DOMAIN seen[d]
       THEN signals' = signals \ {s} /\ UNCHANGED <<call, seen>>
       ELSE /\ Remember(d, s.from, s.id)
            /\ \/ /\ call[d] # NoCall
                  /\ signals' = (signals \ {s}) \union {Signal(d, s.from, s.id, "end")}
                  /\ UNCHANGED call
               \/ /\ call[d] = NoCall
                  /\ call' = [call EXCEPT ![d] = Ringing(s.from, s.id, FALSE, s.until)]
                  /\ signals' = signals \ {s}
    /\ UNCHANGED <<probes, history>>

\* Mutant: any call of this peer is meant.
Mine_Any(d, s) == call[d] # NoCall /\ call[d].peer = s.from

Mine(d, s) == call[d] # NoCall /\ call[d].peer = s.from /\ call[d].id = s.id

Answered(d, s) ==
    /\ s.op = "accept"
    /\ call' = IF Mine(d, s) /\ call[d].phase = "ringing" THEN [call EXCEPT ![d] = Connecting(@)] ELSE call
    /\ signals' = signals \ {s}
    /\ UNCHANGED <<seen, probes, history>>

\* The end of a call is remembered, whether its offer has come or not.
Finished(d, s) ==
    /\ s.op = "end"
    /\ Remember(d, s.from, s.id)
    /\ flooded' = IF Full(d) THEN flooded \union {d} ELSE flooded
    /\ \/ Mine(d, s) /\ CallOver(d)
       \/ /\ ~Mine(d, s)
          /\ gone' = [gone EXCEPT ![d] = @ \union {s.id}]
          /\ UNCHANGED <<call, endings>>
    /\ signals' = signals \ {s}
    /\ UNCHANGED <<probes, agreed>>

\* answer: the reply lives as long as the question.
Probed(d, s) ==
    /\ s.op = "probe"
    /\ IF <<s.from, s.id>> \notin DOMAIN replied[d] /\ Cardinality(DOMAIN replied[d]) < MaxSeen
       THEN /\ replied' = [replied EXCEPT ![d] = Put(@, <<s.from, s.id>>, s.until)]
            /\ signals' = (signals \ {s})
                 \union {[s EXCEPT !.from = d, !.to = s.from, !.op = "unavailable"]}
       ELSE signals' = signals \ {s} /\ UNCHANGED replied
    /\ UNCHANGED <<call, seen, asked, history>>

\* complete: an answer that no check waits for is dropped.
Completed(d, s) ==
    /\ s.op = "unavailable"
    /\ asked' = [asked EXCEPT ![d] = Restrict(@, DOMAIN @ \ {<<s.from, s.id>>})]
    /\ endings' = IF <<s.from, s.id>> \in DOMAIN asked[d] THEN [endings EXCEPT ![d][s.id] = @ + 1] ELSE endings
    /\ signals' = signals \ {s}
    /\ UNCHANGED <<call, seen, replied, gone, agreed, flooded>>

Take(d, s) ==
    /\ s.to = d /\ Fresh(d, s)
    /\ Offered(d, s) \/ Answered(d, s) \/ Finished(d, s) \/ Probed(d, s) \/ Completed(d, s)
    /\ UNCHANGED <<orders, clock, nextCall, restarts>>

-----------------------------------------------------------------------------
(* The tasks of a call. *)

\* pending: nobody answered, or nobody was asked in time. The timer may be late.
RingingEnds(d) ==
    /\ call[d] # NoCall /\ call[d].task = "timer" /\ Time(d) >= call[d].until
    /\ CallOver(d)
    /\ UNCHANGED <<seen, probes, signals, orders, clock, nextCall, restarts, agreed, flooded>>

\* The first packet of the other end, which is in the same room.
Hear(d) ==
    /\ call[d] # NoCall /\ call[d].task = "media" /\ ~call[d].active
    /\ \E e \in Talker \ {d} : call[e] # NoCall /\ call[e].id = call[d].id /\ call[e].task = "media"
    /\ call' = [call EXCEPT ![d].active = TRUE]
    /\ UNCHANGED <<seen, probes, signals, orders, clock, nextCall, restarts, history>>

\* run_media returns: its socket is closed by the relay after the other end
\* left, or it fails (no route, no relay, no READY, 90 or 30 s of silence, two hours).
MediaEnds(d) ==
    /\ call[d] # NoCall /\ call[d].task = "media"
    /\ CallOver(d)
    /\ UNCHANGED <<seen, probes, signals, orders, clock, nextCall, restarts, agreed, flooded>>

-----------------------------------------------------------------------------
\* Time passes. The maps forget what is older than its limit (both prune before
\* every use, so that it may as well be here), and a signal that nobody can take is lost.
CallClock ==
    /\ clock < MaxClock /\ clock' = clock + 1
    /\ LET Recent(f) == [d \in Talker |-> Restrict(f[d], {k \in DOMAIN f[d] : f[d][k] > Time(d) + 1})] IN
       seen' = Recent(seen) /\ asked' = Recent(asked) /\ replied' = Recent(replied)
    /\ signals' = {s \in signals : s.until > Time(s.to) + 1}
    /\ UNCHANGED <<call, orders, nextCall, restarts, history>>

\* A session ends and another one begins: the probes were in `Live`.
SessionEnds(d) ==
    /\ DOMAIN asked[d] \union DOMAIN replied[d] # {}
    /\ restarts < MaxRestarts /\ restarts' = restarts + 1
    /\ asked' = [asked EXCEPT ![d] = << >>] /\ replied' = [replied EXCEPT ![d] = << >>]
    /\ UNCHANGED <<call, seen, signals, orders, clock, nextCall, history>>

\* The engine ends and starts: all of this is in memory, also what the user saw
\* (a restart that has no call to forget is left out).
EngineRestart(d) ==
    /\ call[d] # NoCall \/ DOMAIN seen[d] # {}
    /\ restarts < MaxRestarts /\ restarts' = restarts + 1
    /\ call' = [call EXCEPT ![d] = NoCall]
    /\ seen' = [seen EXCEPT ![d] = << >>] /\ asked' = [asked EXCEPT ![d] = << >>]
    /\ replied' = [replied EXCEPT ![d] = << >>] /\ orders' = [orders EXCEPT ![d] = {}]
    /\ endings' = [endings EXCEPT ![d] = [i \in Id |-> 0]] /\ gone' = [gone EXCEPT ![d] = {}]
    /\ UNCHANGED <<signals, clock, nextCall, agreed, flooded>>

CallsInit ==
    /\ call = [d \in Talker |-> NoCall]
    /\ seen = [d \in Talker |-> << >>] /\ asked = [d \in Talker |-> << >>] /\ replied = [d \in Talker |-> << >>]
    /\ signals = {} /\ orders = [d \in Talker |-> {}] /\ clock = 0 /\ nextCall = 1 /\ restarts = 0
    /\ endings = [d \in Talker |-> [i \in Id |-> 0]] /\ gone = [d \in Talker |-> {}]
    /\ agreed = {} /\ flooded = {}

CallsNext ==
    \/ \E d, e \in Talker : CallStart(d, e) \/ CallProbe(d, e)
    \/ \E d \in Talker : \/ CallAccept(d) \/ HangUp(d) \/ \E id \in Id : Obey(d, id)
                         \/ RingingEnds(d) \/ Hear(d) \/ MediaEnds(d)
                         \/ SessionEnds(d) \/ EngineRestart(d)
    \/ \E s \in signals : Take(s.to, s)
    \/ CallClock

CallsSpec == CallsInit /\ [][CallsNext]_callVars
-----------------------------------------------------------------------------
\* A call ends once: the user is told its end exactly when it is over, whoever
\* ends it and whatever crosses, late timers and aborted tasks included; while it
\* is not, a task or a command will end it. And what is over never rings again,
\* though its offer comes after its end, as long as there was room to remember it.
EndsOnce ==
    \A d \in Talker :
        /\ \A id \in Id : endings[d][id] <= 1
        /\ call[d] # NoCall =>
              /\ endings[d][call[d].id] = 0
              /\ call[d].id \in gone[d] => d \in flooded
              /\ call[d].task = "dead" => call[d].id \in orders[d]

\* No microphone without consent: whoever has a media task is in a call whose
\* callee has accepted this very call.
MediaAfterConsent ==
    \A d \in Talker : call[d] # NoCall /\ call[d].phase = "connecting" => call[d].id \in agreed

\* Both: a call ends once, and nobody is heard who did not accept.
CallsKept == EndsOnce /\ MediaAfterConsent
=============================================================================

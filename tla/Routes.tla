------------------------------- MODULE Routes -------------------------------
(* Which entrances of the relay a client uses (valanium-core/src/client.rs:  *)
(* routes_for, remember_onion_hosts, load_onion_hosts, session, connect_once, *)
(* open_entrances, pick_onion_route; onion.rs).                              *)
(*                                                                           *)
(* The relay names its onion entrances in HELLO, in a list signed elsewhere, *)
(* with the time it was issued. A session takes its routes from the list     *)
(* saved when it begins; anonymous sends choose among those saved now. Hosts *)
(* stand for their addresses, and the order of a list is left out: a session *)
(* that cannot open a route takes another one.                               *)
EXTENDS Naturals, FiniteSets

CONSTANTS
    Onion,    \* onion hosts
    Spare,    \* those of the build,
    Retired,  \* and those it no longer uses
    Junk,     \* what a list may hold that is no onion host
    Direct,   \* the direct route, and an address the user gave
    Lists,    \* sets of hosts a relay names
    MaxIssue, \* bound of a model: times of issue
    NoRoute

RoutesAssumption ==
    /\ Spare \subseteq Onion \ Retired /\ Spare # {} /\ Retired \subseteq Onion
    /\ Onion \intersect Direct = {} /\ Junk \intersect Onion = {} /\ Direct # {}
    /\ Lists \subseteq SUBSET (Onion \union Junk) /\ MaxIssue \in Nat
    /\ {"auto", "onion"} \intersect (Onion \union Direct) = {}
    /\ NoRoute \notin Onion \union Direct \union {"auto", "onion"}
ASSUME RoutesAssumption

VARIABLES
    signed, \* lists the owner has signed: [hosts, at]
    stamp,  \* onion_hosts_issued_at, 0 is none
    hosts,  \* onion_hosts
    policy, \* delivery_policy_v1
    goal,   \* what the session was asked for, or NoRoute
    routes, \* its routes,
    at,     \* the one it uses or tries,
    open,   \* and the one its socket is open to, or NoRoute
    aside,  \* the entrance of an anonymous socket, or NoRoute
    torn    \* (history) the process ended between the two saves of this stamp

file == <<stamp, hosts, policy>>
journey == <<goal, routes, at, open>>
routesVars == <<signed, file, journey, aside, torn>>

\* load_onion_hosts.
Saved == ((hosts \intersect Onion) \ Retired) \union Spare

\* routes_for.
RoutesFor(url) ==
    CASE url = "auto" -> Direct \union Saved
      [] url = "onion" -> Saved
      [] OTHER -> {url}

IsOnion(url) == url = "onion" \/ url \in Onion

\* The owner signs a list, away from the relay.
Sign(hs, t) ==
    /\ hs # {} /\ signed' = signed \union {[hosts |-> hs, at |-> t]}
    /\ UNCHANGED <<file, journey, aside, torn>>

\* session: the policy is saved, and the routes are those of this moment.
BeginSession(url) ==
    /\ goal = NoRoute
    /\ policy' = IF IsOnion(url) THEN "onion" ELSE "explicit_relay"
    /\ goal' = url /\ routes' = RoutesFor(url) /\ at' \in routes' /\ open' = NoRoute
    /\ UNCHANGED <<signed, stamp, hosts, aside, torn>>

\* open_entrances: an onion route is tried together with another one.
Backups == IF at \in Onion THEN (routes \intersect Onion) \ {at} ELSE {}

\* remember_onion_hosts: a signed list, not older than the last one, with a host in it.
TakesList(l) == l \in signed /\ l.at >= stamp /\ l.hosts \intersect Onion # {}

\* HELLO comes by the route or its backup, with some list; the two saves may be torn apart
\* by a failure.
Hello(via, l, whole) ==
    /\ goal # NoRoute /\ open = NoRoute /\ via \in {at} \union Backups
    /\ open' = via
    /\ IF TakesList(l)
       THEN /\ stamp' = l.at
            /\ hosts' = IF whole THEN l.hosts \intersect Onion ELSE hosts
            /\ torn' = ~whole
       ELSE UNCHANGED <<stamp, hosts, torn>>
    /\ UNCHANGED <<signed, policy, goal, routes, at, aside>>

\* It did not open: the next one. A connection that was open keeps its route.
TryNext ==
    /\ goal # NoRoute /\ open = NoRoute
    /\ at' \in IF routes = {at} THEN routes ELSE routes \ {at}
    /\ UNCHANGED <<signed, file, goal, routes, open, aside, torn>>
Broken ==
    /\ open # NoRoute /\ open' = NoRoute
    /\ UNCHANGED <<signed, file, goal, routes, at, aside, torn>>

\* EndSession; and PrivacyMaximize, which ends a session wherever it is.
NoSession == goal' = NoRoute /\ routes' = {} /\ at' = NoRoute /\ open' = NoRoute /\ aside' = NoRoute
EndSession == NoSession /\ UNCHANGED <<signed, file, torn>>

\* Mutant: PrivacyMaximize leaves the session as it is.
Maximize_Stay ==
    /\ policy' = "onion"
    /\ UNCHANGED <<signed, stamp, hosts, journey, aside, torn>>
Maximize ==
    /\ policy' = "onion" /\ NoSession
    /\ UNCHANGED <<signed, stamp, hosts, torn>>

\* pick_onion_route, for an anonymous socket; send_anon_once refuses any other host.
Anonymous(h) ==
    /\ open # NoRoute /\ h \in Saved /\ h \in Onion
    /\ aside' = h
    /\ UNCHANGED <<signed, file, journey, torn>>

RoutesInit ==
    /\ signed = {} /\ stamp = 0 /\ hosts \in SUBSET Retired /\ policy = "onion"
    /\ goal = NoRoute /\ routes = {} /\ at = NoRoute /\ open = NoRoute /\ aside = NoRoute /\ torn = FALSE

RoutesNext ==
    \/ \E hs \in Lists, t \in 1 .. MaxIssue :
          Sign(hs, t) \/ \E via \in Onion \union Direct, whole \in BOOLEAN : Hello(via, [hosts |-> hs, at |-> t], whole)
    \/ \E url \in {"auto", "onion"} \union Onion \union Direct : BeginSession(url)
    \/ TryNext \/ Broken \/ EndSession \/ Maximize
    \/ \E h \in Onion : Anonymous(h)

RoutesSpec == RoutesInit /\ [][RoutesNext]_routesVars
-----------------------------------------------------------------------------
RoutesTypeOK ==
    /\ stamp \in Nat /\ hosts \subseteq Onion /\ policy \in {"onion", "explicit_relay"}
    /\ goal \in {NoRoute, "auto", "onion"} \union Onion \union Direct
    /\ routes \subseteq Onion \union Direct /\ at \in routes \union {NoRoute} /\ torn \in BOOLEAN
    /\ goal # NoRoute => at # NoRoute
    /\ open \in Onion \union Direct \union {NoRoute} /\ aside \in Onion \union {NoRoute}

\* As long as the recorded policy is onion there is no socket to a clear address, and none
\* is being opened; a session that was asked for onion has that policy
\* (client.rs:229-246, 2195-2240, 2505-2525).
OnionStays ==
    /\ goal # NoRoute /\ policy = "onion" => routes \union {at} \subseteq Onion /\ open \in Onion \union {NoRoute}
    /\ goal # NoRoute /\ IsOnion(goal) => policy = "onion"

\* The saved hosts are those of the list whose time is saved with them, or, when the second
\* save failed, of an older one until the same list comes again (client.rs:269-310).
ListIsDated ==
    stamp # 0 /\ ~torn => \E l \in signed : l.at = stamp /\ hosts = l.hosts \intersect Onion

RoutesHold == RoutesTypeOK /\ OnionStays /\ ListIsDated
=============================================================================

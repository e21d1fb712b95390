------------------------------ MODULE Onionize ------------------------------
(* The Tor process of the desktop application, src-tauri/src/onionize.rs:    *)
(* onionize_status, _install, _start and _stop run on threads of their own,  *)
(* between them the mutexes START, INSTALL and RUNNING and the variable       *)
(* VALANIUM_TOR_SOCKS, which the engine reads when it connects.              *)
EXTENDS Naturals

CONSTANTS
    MaxTor,  \* Tor processes in a behaviour
    MaxGets  \* installations in a behaviour

ASSUME OnionizeAssumption == {MaxTor, MaxGets} \subseteq Nat

VARIABLES
    tor,        \* the processes: "unused", "boots", "ready" (READY is written), "dead",
                \* or "failed": dead with READY in the pipe
    running,    \* RUNNING: the process that was handed over, 0 for none
    socks,      \* the process whose address VALANIUM_TOR_SOCKS is, 0 for none
    starter,    \* what holds START: where it is, and its process
    installer,  \* what holds INSTALL: "no", or "loads" after its check of RUNNING
    installed,  \* how often the program was put in place
    crossed     \* a stop came before what was started was handed over (history)

onionVars == <<tor, running, socks, starter, installer, installed, crossed>>

Tor == 1 .. MaxTor
Alive == {t \in Tor : tor[t] \in {"boots", "ready"}}
Resting == [at |-> "no", child |-> 0]

-----------------------------------------------------------------------------
(* start_blocking                                                             *)

\* onionize_status: a process that has ended is forgotten, and its address.
Gone == running # 0 /\ running \notin Alive
Status ==
    /\ Gone /\ running' = 0 /\ socks' = 0
    /\ UNCHANGED <<tor, starter, installer, installed, crossed>>

\* START is taken; what runs and has an address is the answer.
StartTor ==
    /\ starter = Resting
    /\ running' = IF Gone THEN 0 ELSE running
    /\ socks' = IF Gone THEN 0 ELSE socks
    /\ starter' = IF running' # 0 /\ socks' # 0 THEN Resting ELSE [at |-> "checked", child |-> 0]
    /\ UNCHANGED <<tor, installer, installed, crossed>>

\* There is no program: an error.
NotInstalled ==
    /\ starter.at = "checked" /\ installed = 0 /\ starter' = Resting
    /\ UNCHANGED <<tor, running, socks, installer, installed, crossed>>

Spawn(t) ==
    /\ starter.at = "checked" /\ installed > 0 /\ tor[t] = "unused"
    /\ \A u \in Tor : u < t => tor[u] # "unused"
    /\ tor' = [tor EXCEPT ![t] = "boots"] /\ starter' = [at |-> "waits", child |-> t]
    /\ UNCHANGED <<running, socks, installer, installed, crossed>>

\* READY is read from the pipe, also of a process that has died since.
Announce ==
    /\ starter.at = "waits" /\ tor[starter.child] \in {"ready", "failed"}
    /\ socks' = starter.child /\ starter' = [starter EXCEPT !.at = "announced"]
    /\ UNCHANGED <<tor, running, installer, installed, crossed>>

HandOver ==
    /\ starter.at = "announced"
    /\ running' = starter.child /\ starter' = Resting
    /\ UNCHANGED <<tor, socks, installer, installed, crossed>>

\* READY_TIMEOUT, which may fall together with READY, the pipe closed, or no
\* job object for the process.
GivesUp ==
    /\ starter.at = "waits"
    /\ tor' = [tor EXCEPT ![starter.child] = "dead"] /\ starter' = Resting
    /\ UNCHANGED <<running, socks, installer, installed, crossed>>

-----------------------------------------------------------------------------
(* onionize_stop, onionize_install, and the processes                         *)

\* Bug: the address of what was stopped stays.
Stop_Addressed ==
    /\ tor' = [t \in Tor |-> IF t = running THEN "dead" ELSE tor[t]]
    /\ running' = 0 /\ UNCHANGED socks
    /\ crossed' = (crossed \/ starter.at = "announced")
    /\ UNCHANGED <<starter, installer, installed>>

\* What is still starting is not seen: it is handed over later.
Stop ==
    /\ tor' = [t \in Tor |-> IF t = running THEN "dead" ELSE tor[t]]
    /\ running' = 0 /\ socks' = 0
    /\ crossed' = (crossed \/ starter.at = "announced")
    /\ UNCHANGED <<starter, installer, installed>>

\* Refused while a process is handed over.
InstallVerified ==
    /\ installer = "no" /\ running = 0 /\ installed < MaxGets
    /\ installer' = "loads"
    /\ UNCHANGED <<tor, running, socks, starter, installed, crossed>>

\* Verified, it replaces the program, unless a process runs it; or the load fails.
Installs ==
    /\ installer = "loads" /\ installer' = "no"
    /\ installed' \in {installed} \union {n \in {installed + 1} : Alive = {}}
    /\ UNCHANGED <<tor, running, socks, starter, crossed>>

Listens(t) ==
    /\ tor[t] = "boots" /\ tor' = [tor EXCEPT ![t] = "ready"]
    /\ UNCHANGED <<running, socks, starter, installer, installed, crossed>>

\* It dies by itself: before READY was written, or after ("failed").
Dies(t) ==
    /\ t \in Alive
    /\ tor' = [tor EXCEPT ![t] = IF @ = "ready" THEN "failed" ELSE "dead"]
    /\ UNCHANGED <<running, socks, starter, installer, installed, crossed>>

\* The application ends; with its handle on the job object every Tor of it ends.
Exit ==
    /\ tor' = [t \in Tor |-> IF t \in Alive THEN "dead" ELSE tor[t]]
    /\ running' = 0 /\ socks' = 0 /\ starter' = Resting /\ installer' = "no" /\ crossed' = FALSE
    /\ UNCHANGED installed

-----------------------------------------------------------------------------
OnionInit ==
    /\ tor = [t \in Tor |-> "unused"] /\ running = 0 /\ socks = 0
    /\ starter = Resting /\ installer = "no" /\ installed = 0 /\ crossed = FALSE

OnionNext ==
    \/ StartTor \/ NotInstalled \/ Announce \/ HandOver \/ GivesUp
    \/ Status \/ Stop \/ InstallVerified \/ Installs \/ Exit
    \/ \E t \in Tor : Spawn(t) \/ Listens(t) \/ Dies(t)

OnionSpec == OnionInit /\ [][OnionNext]_onionVars

-----------------------------------------------------------------------------
(* Properties                                                                 *)

\* A Tor process is the one that was handed over or the one being started
\* ("not to leave it an orphan", RUNNING), and an address belongs to one of
\* these ("otherwise the engine goes on to a dead port", onionize_stop). A stop
\* that falls between the two lines that publish a process breaks both.
TorOwned ==
    ~crossed => Alive \union ({socks} \ {0}) \subseteq {running, starter.child}
=============================================================================

------------------------------ MODULE MCClient ------------------------------
(* Instances for TLC of the parts of the client application: the pairing of  *)
(* devices (MCPairing), the engine, with two processes that may open the one *)
(* database, the supply of its anonymous sends (MCSupply), the local         *)
(* profiles of the desktop and its Tor.                                      *)
EXTENDS MCPairing, Engine, MCSupply, Profile, Onionize

CONSTANTS x, y, c1, c2, p1

\* Pairing takes place on connections that others opened, Engine sends no
\* letter and finds its profile open: the parts share no state. TLC explores
\* the states of one of them while the others are as they were in the beginning.
PartsInit == Init /\ EngineInit /\ SupplyInit /\ ProfileInit /\ OnionInit
PartsNext ==
    \/ /\ EngineInit /\ SupplyInit /\ ProfileInit /\ OnionInit /\ Next
       /\ UNCHANGED <<engineVars, supplyVars, profileVars, onionVars>>
    \/ /\ Init /\ SupplyInit /\ ProfileInit /\ OnionInit /\ EngineNext
       /\ UNCHANGED <<vars, supplyVars, profileVars, onionVars>>
    \/ /\ Init /\ EngineInit /\ ProfileInit /\ OnionInit /\ SupplyNext
       /\ UNCHANGED <<vars, engineVars, profileVars, onionVars>>
    \/ /\ Init /\ EngineInit /\ SupplyInit /\ OnionInit /\ ProfileNext
       /\ UNCHANGED <<vars, engineVars, supplyVars, onionVars>>
    \/ /\ Init /\ EngineInit /\ SupplyInit /\ ProfileInit /\ OnionNext
       /\ UNCHANGED <<vars, engineVars, supplyVars, profileVars>>

Parts ==
    PartsInit /\ [][PartsNext]_<<vars, engineVars, supplyVars, profileVars, onionVars>>
=============================================================================

------------------------------ MODULE MCPairing ------------------------------
(* Instances of Pairing for TLC.                                            *)
EXTENDS Pairing
CONSTANTS phone, desktop, tablet

\* Two sessions, or two messages, or a third device: never two of these at once.
TakesPart(d) == active[d] # None \/ queue[d] # << >> \/ Has(d)
FewParts ==
    /\ epoch[tablet] = 0 /\ \A id \in DOMAIN shown : shown[id].by # tablet
    /\ log[phone] = 2 => Cardinality(DOMAIN shown) <= 1
    /\ TakesPart(tablet) =>
          /\ Cardinality(DOMAIN shown) <= 1 /\ log[phone] <= 1
          /\ epoch[phone] = 0 /\ epoch[desktop] = 0
=============================================================================

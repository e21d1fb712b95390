------------------------------ MODULE MCSupply ------------------------------
(* Instances of Supply for TLC: letters to one device, a light one among them. *)
EXTENDS Supply

CONSTANTS text, typing, peer

MCHeading == [n \in Note |-> peer]
=============================================================================

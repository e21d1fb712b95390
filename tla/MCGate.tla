------------------------------- MODULE MCGate -------------------------------
(* Instances of Gate for TLC.                                               *)
EXTENDS Gate, TLC
CONSTANTS alice, bob, s1, s2, s3, home, cafe, i1, r1, r2
MCIpOf == [s \in Socket |-> IF s = s3 THEN cafe ELSE home]
Symmetric == Permutations(Person) \union Permutations(Socket \ {s3}) \union Permutations(Room)

\* Invoices and transfers, calls, and tickets share nothing but the sockets and
\* the clock: TLC explores states in which one of the three is in play (the first
\* for one moment less).
InPlay == {p \in {"payments", "rooms", "tickets"} :
              \/ p = "payments" /\ <<chain, invoices>> # <<<< >>, << >>>>
              \/ p = "rooms" /\ rooms # << >>
              \/ p = "tickets" /\ tickets # << >>}
OnePart == Cardinality(InPlay) <= 1 /\ (clock = MaxTime => "payments" \notin InPlay)
=============================================================================

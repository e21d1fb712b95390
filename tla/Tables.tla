------------------------------- MODULE Tables -------------------------------
(* A Map of the program, or the rows of a table by their key, as a function. *)

\* map.set(k, v), or the row that is inserted under k.
Put(f, k, v) == [x \in DOMAIN f \union {k} |-> IF x = k THEN v ELSE f[x]]
=============================================================================

------------------------------ MODULE Mailbox ------------------------------
(***************************************************************************)
(* What the relay promises a sender about one letter, whatever it does     *)
(* with sockets, rows and timers: a letter is taken in once, is held until *)
(* it is settled, is remembered until its retention ends and no longer,    *)
(* and SEND_OK is said only of a letter that was taken in.                 *)
(***************************************************************************)
EXTENDS Integers

CONSTANTS
  Letter,
  MaxTtl   \* the longest retention

VARIABLES
  now,
  slot,    \* per letter: "free", "held" (in the queue) or "done" (settled)
  until,   \* the end of its retention, 0 of a free letter
  told     \* letters whose sender was answered with SEND_OK

mvars == <<now, slot, until, told>>

Init == /\ now = 0
        /\ slot = [l \in Letter |-> "free"]
        /\ until = [l \in Letter |-> 0]
        /\ told = {}

\* A new letter is stored and confirmed in one step.
Accept(l) == /\ slot[l] = "free"
             /\ slot' = [slot EXCEPT ![l] = "held"]
             /\ \E t \in now + 1 .. now + MaxTtl : until' = [until EXCEPT ![l] = t]
             /\ told' = told \cup {l}
             /\ UNCHANGED now

\* A retry of a stored or settled letter is confirmed again, not stored again.
Confirm(l) == /\ slot[l] # "free"
              /\ told' = told \cup {l}
              /\ UNCHANGED <<now, slot, until>>

\* The recipient acknowledged, or was revoked.
Settle(L) == /\ \A l \in L : slot[l] = "held"
             /\ slot' = [l \in Letter |-> IF l \in L THEN "done" ELSE slot[l]]
             /\ UNCHANGED <<now, until, told>>

\* Retention ends: the letter and the memory of it go together, and on time.
Pass == LET kept(l) == until[l] > now'
        IN  /\ now' = now + 1
            /\ slot' = [l \in Letter |-> IF kept(l) THEN slot[l] ELSE "free"]
            /\ until' = [l \in Letter |-> IF kept(l) THEN until[l] ELSE 0]
            /\ UNCHANGED told

Next == \/ \E l \in Letter : Accept(l) \/ Confirm(l)
        \/ \E L \in SUBSET Letter : Settle(L)
        \/ Pass

Spec == Init /\ [][Next]_mvars
=============================================================================

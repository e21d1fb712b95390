------------------------------- MODULE MCCalls -------------------------------
(* Instances for TLC of the queue with its reader (MCDelivery) and of the    *)
(* calls of two devices, the clock of one ahead of the other's.             *)
EXTENDS MCDelivery, Calls

CONSTANTS a, b

\* NoMailLost is asked where delivery has what it needs.
ASSUME MailAssumption == InOrderAndStored

MCAhead == [d \in Talker |-> IF d = a THEN 1 ELSE 0]

\* A signal is a letter like any other to Delivery, and only late or lost to
\* Calls: they share no state. TLC explores the states of one of them while
\* the other one is as it was in the beginning.
MailOrCallsInit == DInit /\ CallsInit
MailOrCallsNext ==
    \/ nextCall = 1 /\ clock = 0 /\ DNext /\ UNCHANGED callVars
    \/ nextSeq = 1 /\ status[Phone] = "absent" /\ CallsNext /\ UNCHANGED dvars
MailOrCalls == MailOrCallsInit /\ [][MailOrCallsNext]_<<dvars, callVars>>

UnreadAndCalls == <<WithoutRead, callVars>>
=============================================================================

---------------------------- MODULE CheckoutGate -----------------------------
(***************************************************************************)
(* What the checkout workflow promises one session: risky browser actions  *)
(* are let through only between a confirmation and its cancellation or     *)
(* expiry.  AgentTurn uses the workflow in this form; CheckoutWorkflow     *)
(* implements it with deadlines.                                           *)
(***************************************************************************)
VARIABLES
    confirmed,   \* purchases are authorized
    waiting      \* a refused action waits for the user's confirmation

Init == ~ confirmed /\ ~ waiting

Confirm == confirmed' /\ ~ waiting'

Cancel == ~ confirmed' /\ ~ waiting'

Expire == confirmed /\ ~ confirmed' /\ (waiting' <=> waiting)

Allow == confirmed /\ confirmed' /\ ~ waiting'

Refuse == ~ confirmed /\ ~ confirmed' /\ waiting'

Next == Confirm \/ Cancel \/ Expire \/ Allow \/ Refuse

Spec == Init /\ [][Next]_<<confirmed, waiting>>
=============================================================================

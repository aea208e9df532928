--------------------------- MODULE CheckoutWorkflow ---------------------------
(***************************************************************************)
(* src/agents/checkout-workflow.ts: the authorization of purchases, kept   *)
(* per session as a deadline that is compared with the clock whenever the  *)
(* state is used.  The turns of several runs, of one session or of many,   *)
(* call the two operations in any order.                                   *)
(***************************************************************************)
EXTENDS Integers

CONSTANTS
    Sessions,
    TTL,         \* CHECKOUT_CONFIRM_TTL_MS, in ticks of the clock
    MaxTime      \* bound on the clock

ASSUME WorkflowAssumption ==
    /\ TTL \in Nat \ {0}
    /\ MaxTime \in Nat

VARIABLES
    now,             \* Date.now()
    confirmedUntil,  \* checkoutStateBySession[s].confirmedUntil; 0: none
    pending,         \* checkoutStateBySession[s].pending is set
    decision,        \* the last GuardDecision on a risky action, by session
    said             \* history: the user's last word on a purchase, and when

vars == <<now, confirmedUntil, pending, decision, said>>

Decisions == {"none", "allowed", "refused"}
Words == [word : {"nothing", "confirm", "cancel"}, at : Nat]

Init ==
    /\ now = 1
    /\ confirmedUntil = [s \in Sessions |-> 0]
    /\ pending = [s \in Sessions |-> FALSE]
    /\ decision = [s \in Sessions |-> "none"]
    /\ said = [s \in Sessions |-> [word |-> "nothing", at |-> 0]]

\* Both operations first forget a deadline that has passed.
Current(s) == IF confirmedUntil[s] <= now THEN 0 ELSE confirmedUntil[s]

\* Mutant: a cancellation forgets the refused action, but not the deadline.
BeginCancelKeepsDeadline(s) ==
    /\ pending' = [pending EXCEPT ![s] = FALSE]
    /\ decision' = [decision EXCEPT ![s] = "none"]
    /\ said' = [said EXCEPT ![s] = [word |-> "cancel", at |-> now]]
    /\ UNCHANGED <<now, confirmedUntil>>

\* beginCheckoutWorkflowTurn, for a message that cancels, confirms, or neither.
\* A message that does both cancels: CANCEL_REGEX is tested first.
BeginCancel(s) ==
    /\ confirmedUntil' = [confirmedUntil EXCEPT ![s] = 0]
    /\ pending' = [pending EXCEPT ![s] = FALSE]
    /\ decision' = [decision EXCEPT ![s] = "none"]
    /\ said' = [said EXCEPT ![s] = [word |-> "cancel", at |-> now]]
    /\ UNCHANGED now

\* Mutant: a confirmation leaves the refused action waiting.
BeginConfirmKeepsPending(s) ==
    /\ confirmedUntil' = [confirmedUntil EXCEPT ![s] = now + TTL]
    /\ decision' = [decision EXCEPT ![s] = "none"]
    /\ said' = [said EXCEPT ![s] = [word |-> "confirm", at |-> now]]
    /\ UNCHANGED <<now, pending>>

BeginConfirm(s) ==
    /\ confirmedUntil' = [confirmedUntil EXCEPT ![s] = now + TTL]
    /\ pending' = [pending EXCEPT ![s] = FALSE]
    /\ decision' = [decision EXCEPT ![s] = "none"]
    /\ said' = [said EXCEPT ![s] = [word |-> "confirm", at |-> now]]
    /\ UNCHANGED now

BeginOther(s) ==
    /\ confirmedUntil' = [confirmedUntil EXCEPT ![s] = Current(s)]
    /\ decision' = [decision EXCEPT ![s] = "none"]
    /\ UNCHANGED <<now, pending, said>>

\* enforceCheckoutWorkflow on a risky action.
EnforceRisky(s) ==
    /\ confirmedUntil' = [confirmedUntil EXCEPT ![s] = Current(s)]
    /\ \/ /\ Current(s) > now
          /\ pending' = [pending EXCEPT ![s] = FALSE]
          /\ decision' = [decision EXCEPT ![s] = "allowed"]
       \/ /\ ~ (Current(s) > now)
          /\ pending' = [pending EXCEPT ![s] = TRUE]
          /\ decision' = [decision EXCEPT ![s] = "refused"]
    /\ UNCHANGED <<now, said>>

\* enforceCheckoutWorkflow on any other action only forgets a passed deadline.
EnforceHarmless(s) ==
    /\ confirmedUntil' = [confirmedUntil EXCEPT ![s] = Current(s)]
    /\ UNCHANGED <<now, pending, decision, said>>

\* The clock moves on; the last decisions are over.
Tick ==
    /\ now < MaxTime
    /\ now' = now + 1
    /\ decision' = [s \in Sessions |-> "none"]
    /\ UNCHANGED <<confirmedUntil, pending, said>>

Next ==
    \/ \E s \in Sessions : \/ BeginCancel(s) \/ BeginConfirm(s) \/ BeginOther(s)
                           \/ EnforceRisky(s) \/ EnforceHarmless(s)
    \/ Tick

Spec == Init /\ [][Next]_vars

-----------------------------------------------------------------------------
(* Properties.                                                             *)

TypeOK ==
    /\ now \in Nat
    /\ confirmedUntil \in [Sessions -> Nat]
    /\ pending \in [Sessions -> BOOLEAN]
    /\ decision \in [Sessions -> Decisions]
    /\ said \in [Sessions -> Words]

\* The session's user confirmed a purchase less than TTL ago and has not
\* cancelled since.
Authorized(s) == said[s].word = "confirm" /\ now < said[s].at + TTL

\* A risky action is let through exactly while the session's own user has
\* authorized it: never without, after a cancellation or at the deadline, and
\* never because of another session; and an authorized one is never refused
\* ('Reply with "confirm purchase" to authorize ... for the next 5 minutes').
DecisionsFollowTheUser ==
    \A s \in Sessions :
        /\ decision[s] = "allowed" => Authorized(s)
        /\ decision[s] = "refused" => ~ Authorized(s)

Gate(s) == INSTANCE CheckoutGate WITH confirmed <- confirmedUntil[s] > now,
                                      waiting <- pending[s]

\* The workflow of each session implements the abstract gate: passing deadlines
\* are its expiry, and nothing else opens or closes it.
ImplementsGate ==
    /\ \A s \in Sessions : Gate(s)!Init
    /\ [][\A s \in Sessions :
            [Gate(s)!Next]_<<confirmedUntil[s] > now, pending[s]>>]_vars
=============================================================================

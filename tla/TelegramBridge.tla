--------------------------- MODULE TelegramBridge ---------------------------
(***************************************************************************)
(* startTelegramBridge (channels/telegram.ts): the loop that polls for     *)
(* updates and handles them one by one.  It decides whether to accept a    *)
(* sender, with the pairing store if the policy asks for it, runs the      *)
(* progress relay while handleMessage works, and sends the reply.  Any     *)
(* exception abandons the rest of the batch; it is fetched again, because  *)
(* the offset has only moved past the updates that were taken.             *)
(*                                                                         *)
(* The owner's command line is a process of its own.  A relay is followed  *)
(* until its message is answered: stray timers that fire later share       *)
(* nothing with the rest.                                                  *)
(***************************************************************************)
EXTENDS Naturals, Sequences

CONSTANTS
    Users, Chats, Senders, Codes, MaxApprovals,
    MaxProgress, BatchLines, MaxTexts,
    Policies,        \* the values of dmPolicy the configuration may have
    Allowed,         \* users and chats of the configuration's allowlist
    MaxUpdates,      \* bound on updates
    MaxFailures      \* bound on exceptions

VARIABLES
    file, default, gateway, cli, approvals, told, granted, overlap,
    said, queue, sentCount, recent, flushTimer, armed, chain, closing, awaited, delivered,
    running,
    loop,       \* where the loop is
    updates,    \* the updates telegram has: sender, or "noise", or a "command"
    offset,
    batch,      \* ids fetched and not yet taken
    thrown,     \* handleMessage ended with an exception
    failures,
    \* History.
    taken,      \* ids in the order they were taken
    accepted    \* {[sender, policy]} of the message that was passed on, or {}

pairingVars == <<file, default, gateway, cli, approvals, told, granted, overlap>>
relayVars == <<said, queue, sentCount, recent, flushTimer, armed, chain, closing, awaited, delivered>>
loopVars == <<running, loop, updates, offset, batch, thrown, failures, taken, accepted>>
vars == <<pairingVars, relayVars, loopVars>>

Pairing == INSTANCE PairingStore
Progress == INSTANCE ProgressRelay

Kinds == Senders \cup {<<"noise">>, <<"command">>}

ASSUME BridgeAssumption ==
    /\ "none" \notin Codes
    /\ Users \cap Chats = {} /\ Senders \subseteq Users \X Chats
    /\ (Users \cup Chats) \cap Senders = {}
    /\ Allowed \subseteq Users \cup Chats
    /\ Policies \subseteq {"disabled", "open", "allowlist", "pairing"}
    /\ MaxProgress \in Nat \ {0} /\ BatchLines \in Nat \ {0}
    /\ {MaxApprovals, MaxTexts, MaxUpdates, MaxFailures} \subseteq Nat

Init ==
    /\ Pairing!Init /\ Progress!Init
    /\ running = TRUE /\ loop = "poll"
    /\ updates = <<>> /\ offset = 1 /\ batch = <<>>
    /\ thrown = FALSE /\ failures = 0
    /\ taken = <<>> /\ accepted = {}

\* The sender of the update in hand.
Sender == updates[taken[Len(taken)]]
InAllowlist(sender) == {sender[1], sender[2]} \cap Allowed # {}

-----------------------------------------------------------------------------
(* Telegram, and the end of the program.                                   *)

Arrive(kind) ==
    /\ Len(updates) < MaxUpdates
    /\ updates' = Append(updates, kind)
    /\ UNCHANGED <<pairingVars, relayVars, running, loop, offset, batch, thrown, failures,
                   taken, accepted>>

\* close: the poll is aborted; whatever else is under way goes on.
Stop ==
    /\ running
    /\ running' = FALSE
    /\ loop' = IF loop = "poll" THEN "stopped" ELSE loop
    /\ UNCHANGED <<pairingVars, relayVars, updates, offset, batch, thrown, failures,
                   taken, accepted>>

-----------------------------------------------------------------------------
(* The loop.                                                               *)

\* getUpdates answers with everything from the offset on.
Poll ==
    /\ loop = "poll" /\ running
    /\ loop' = "batch"
    /\ batch' = [i \in 1..(Len(updates) - offset + 1) |-> offset + i - 1]
    /\ UNCHANGED <<pairingVars, relayVars, running, updates, offset, thrown, failures,
                   taken, accepted>>

\* Mutant: the offset is moved past the whole batch.
TakeAll(next) ==
    /\ loop = "batch" /\ batch # <<>>
    /\ taken' = Append(taken, Head(batch))
    /\ batch' = Tail(batch)
    /\ offset' = batch[Len(batch)] + 1
    /\ loop' = next

\* An update is taken from the batch.
Take(next) ==
    /\ loop = "batch" /\ batch # <<>>
    /\ taken' = Append(taken, Head(batch))
    /\ batch' = Tail(batch)
    /\ offset' = IF Head(batch) + 1 > offset THEN Head(batch) + 1 ELSE offset
    /\ loop' = next

\* No text, or a heartbeat check: nothing happens.
SkipNoise ==
    /\ Take("batch") /\ updates[Head(batch)] = <<"noise">>
    /\ UNCHANGED <<pairingVars, relayVars, running, updates, thrown, failures, accepted>>

\* /start, /status, /new and /reset are answered for everybody.
TakeCommand ==
    /\ Take("sending") /\ updates[Head(batch)] = <<"command">>
    /\ UNCHANGED <<pairingVars, relayVars, running, updates, thrown, failures, accepted>>

TakeMessage ==
    /\ Take("deciding") /\ updates[Head(batch)] \in Senders
    /\ UNCHANGED <<pairingVars, relayVars, running, updates, thrown, failures, accepted>>

\* The condition of the loop, after a batch.
EndBatch ==
    /\ loop = "batch" /\ batch = <<>>
    /\ loop' = IF running THEN "poll" ELSE "stopped"
    /\ UNCHANGED <<pairingVars, relayVars, running, updates, offset, batch, thrown, failures,
                   taken, accepted>>

\* Any await of the loop throws: the rest of the batch is given up, and the loop
\* goes on after a pause unless it is to stop.
Throw ==
    /\ failures < MaxFailures
    /\ failures' = failures + 1
    /\ batch' = <<>>
    /\ loop' = IF running THEN "pause" ELSE "stopped"
    /\ Progress!Forget
    /\ accepted' = {}

Fail ==
    /\ loop \in {"poll", "deciding", "sending"}
    /\ Throw
    /\ UNCHANGED <<pairingVars, running, updates, offset, thrown, taken>>

Resume ==
    /\ loop = "pause"
    /\ loop' = IF running THEN "poll" ELSE "stopped"
    /\ UNCHANGED <<pairingVars, relayVars, running, updates, offset, batch, thrown, failures,
                   taken, accepted>>

\* A message of the bot is sent: an answer to a command, a refusal, or the reply.
Sent ==
    /\ loop = "sending"
    /\ loop' = "batch"
    /\ Progress!Forget
    /\ accepted' = {}
    /\ UNCHANGED <<pairingVars, running, updates, offset, batch, thrown, failures, taken>>

-----------------------------------------------------------------------------
(* shouldAcceptMessage, with the policy the configuration has by now.      *)

Refuse(policy) ==
    /\ loop = "deciding"
    /\ policy = "disabled" \/ (policy = "allowlist" /\ ~ InAllowlist(Sender))
    /\ loop' = "sending"
    /\ UNCHANGED <<pairingVars, relayVars, running, updates, offset, batch, thrown, failures,
                   taken, accepted>>

Accepts(policy) ==
    \/ policy = "open"
    \/ policy \in {"allowlist", "pairing"} /\ InAllowlist(Sender)
    \/ policy = "pairing" /\ Pairing!Paired(Sender)

\* The message is passed to handleMessage, beside a new relay.
Accept(policy) ==
    /\ loop = "deciding" /\ Accepts(policy)
    /\ Progress!Create
    /\ loop' = "handling"
    /\ accepted' = {[sender |-> Sender, policy |-> policy]}
    /\ UNCHANGED <<pairingVars, running, updates, offset, batch, thrown, failures, taken>>

AskForCode ==
    /\ loop = "deciding" /\ "pairing" \in Policies /\ ~ InAllowlist(Sender)
    /\ Pairing!Ask(Sender)
    /\ loop' = "pairing"
    /\ UNCHANGED <<relayVars, running, updates, offset, batch, thrown, failures, taken, accepted>>

\* The steps of requestPairingCode; when the store is written the code is sent.
IssueCode ==
    /\ loop = "pairing"
    /\ Pairing!Request
    /\ loop' = IF gateway' = Pairing!Idle THEN "sending" ELSE "pairing"
    /\ UNCHANGED <<relayVars, running, updates, offset, batch, thrown, failures, taken, accepted>>

OwnerCommand ==
    /\ Pairing!Command
    /\ UNCHANGED <<relayVars, loopVars>>

-----------------------------------------------------------------------------
(* The message is handled.                                                 *)

\* handleMessage returns or throws; either way the relay is closed.
HandlerSettles ==
    /\ loop = "handling"
    /\ thrown' \in IF failures < MaxFailures THEN BOOLEAN ELSE {FALSE}
    /\ Progress!Close
    /\ loop' = "closing"
    /\ UNCHANGED <<pairingVars, running, updates, offset, batch, failures, taken, accepted>>

RelayClosed ==
    /\ loop = "closing" /\ Progress!MayClose
    /\ thrown' = FALSE
    /\ \/ thrown /\ Throw
       \/ ~ thrown /\ loop' = "sending" /\ Progress!Closed /\ UNCHANGED <<batch, failures, accepted>>
    /\ UNCHANGED <<pairingVars, running, updates, offset, taken>>

\* Events, timers and sends of the relay, also after its message was handled.
RelayWorks ==
    /\ Progress!Relay
    /\ UNCHANGED <<pairingVars, loopVars>>

-----------------------------------------------------------------------------
Loop ==
    \/ Poll \/ SkipNoise \/ TakeCommand \/ TakeMessage \/ EndBatch
    \/ Fail \/ Resume \/ Sent
    \/ (\E policy \in Policies : Refuse(policy) \/ Accept(policy))
    \/ AskForCode \/ IssueCode
    \/ HandlerSettles \/ RelayClosed

Next ==
    \/ \E kind \in Kinds : Arrive(kind)
    \/ Stop \/ Loop \/ OwnerCommand \/ RelayWorks

Spec == Init /\ [][Next]_vars

\* Every await of the loop settles (handleMessage by the gateway's timer), timers
\* fire and sends end.  Updates, events and commands need not come.
FairSpec ==
    /\ Spec
    /\ WF_vars(Loop)
    /\ WF_vars(Progress!Send /\ UNCHANGED <<pairingVars, loopVars>>)
    /\ WF_vars(Progress!Drain /\ UNCHANGED <<pairingVars, loopVars>>)

-----------------------------------------------------------------------------
(* Properties.                                                             *)

\* Whatever throws, and however batches are given up and fetched again, every
\* update before the offset was taken exactly once, in order (offset, the for
\* loop and the catch of startTelegramBridge).
UpdatesTakenOnce == taken = [i \in 1..offset - 1 |-> i]

\* A message is passed on only if the policy is open, its sender is in the
\* allowlist, or the owner approved a request of that user or chat: no race,
\* damaged store or shared default lets anybody else in.
OnlyApprovedPass ==
    \A m \in accepted :
        \/ m.policy = "open"
        \/ InAllowlist(m.sender)
        \/ /\ m.policy = "pairing"
           /\ \E s \in granted : s[1] = m.sender[1] \/ s[2] = m.sender[2]

\* As long as the bridge and the command line have not used the store at once, it
\* is exact: approvals are in it, and codes that were told still work.
SerialStoreIsExact == ~ overlap => Pairing!Exact

\* However many timers are armed at once, a message's relay sends at most
\* MAX_PROGRESS_MESSAGES batches of at most BATCH_LINES texts, and the texts reach
\* the chat in the order the assistant said them, each at most once.
RelayKeepsOrderAndLimit == Progress!WithinLimit /\ Progress!Ordered

\* When texts are queued below the limit and no send is under way, a timer is
\* armed, unless flushTimer holds the handle of a timer that has fired: that
\* handle is the only thing that keeps scheduleFlush from arming one.
ATimerIsArmedUnlessStale ==
    Progress!Waiting => armed.schedule + armed.rearm > 0 \/ flushTimer = "fired"

\* The loop always catches up: while the bridge runs every update is taken,
\* whatever threw before it and however slow a relay is to close, and once it is
\* closed the loop, which close awaits, ends.
LoopCatchesUp ==
    []<> \/ running /\ offset > Len(updates)
         \/ loop = "stopped"
=============================================================================

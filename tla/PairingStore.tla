---------------------------- MODULE PairingStore ----------------------------
(***************************************************************************)
(* channels/pairing.ts: the file of approved and pending telegram senders, *)
(* read and rewritten as a whole by two processes without a lock: the      *)
(* gateway, which checks each sender and hands out codes, and the owner's  *)
(* command line, which approves them.  A file that is missing or does not  *)
(* parse reads as DEFAULT_STORE, whose arrays the copy shares: within one  *)
(* process what is pushed to them stays.                                   *)
(***************************************************************************)
EXTENDS Naturals

CONSTANTS
    Users, Chats,
    Senders,         \* pairs of a user and the chat the user writes in
    Codes,
    MaxApprovals     \* bound on the commands of the owner

None == "none"

VARIABLES
    file,       \* [whole, store]: a store has the approved ids, and sender -> code or None
    default,    \* what DEFAULT_STORE.pending has become in the gateway
    gateway,    \* [at, sender, store]: the request for a code
    cli,        \* [at, sender, store]: the command being executed
    approvals,
    \* History.
    told,       \* sender -> the code last returned for it
    granted,    \* senders the owner was told are approved
    overlap     \* the two processes had the store in hand at once

vars == <<file, default, gateway, cli, approvals, told, granted, overlap>>
history == <<told, granted, overlap>>

NoCodes == [s \in Senders |-> None]
Empty == [approved |-> {}, pending |-> NoCodes]

Idle == [at |-> "idle"]

Init ==
    /\ file = [whole |-> FALSE, store |-> Empty]
    /\ default = NoCodes
    /\ gateway = Idle /\ cli = Idle
    /\ approvals = 0
    /\ told = NoCodes /\ granted = {} /\ overlap = FALSE

-----------------------------------------------------------------------------
\* isPairingApproved, on a store.
IsApproved(store, sender) ==
    {sender, sender[1], sender[2]} \cap store.approved # {}

\* readStore: in the command line's process DEFAULT_STORE is still empty.
ReadStore(dflt) ==
    IF file.whole THEN file.store ELSE [approved |-> {}, pending |-> dflt]

\* What isPairingApproved answers in the gateway.
Paired(sender) == IsApproved(ReadStore(default), sender)

\* It answered no, and requestPairingCode is called.
Ask(sender) ==
    /\ gateway.at = "idle" /\ ~ Paired(sender)
    /\ gateway' = [at |-> "checked", sender |-> sender]
    /\ UNCHANGED <<file, default, cli, approvals, history>>

\* requestPairingCode reads the store again and finds the sender's code, or
\* draws one that no pending sender has.
RequestCode ==
    LET store == ReadStore(default)
        sender == gateway.sender
        used == {store.pending[s] : s \in Senders}
        codes == IF store.pending[sender] # None THEN {store.pending[sender]}
                 ELSE Codes \ used
    IN
    /\ gateway.at = "checked"
    /\ \E code \in codes :
          LET pending == [store.pending EXCEPT ![sender] = code] IN
          /\ gateway' = [at |-> "read", sender |-> sender,
                         store |-> [store EXCEPT !.pending = pending]]
          /\ default' = IF file.whole THEN default ELSE pending
    /\ overlap' = (overlap \/ cli.at # "idle")
    /\ UNCHANGED <<file, cli, approvals, told, granted>>

\* approvePairingCode, in a process of its own, which starts from an empty
\* DEFAULT_STORE.
Approve(code) ==
    LET store == ReadStore(NoCodes)
        owners == {s \in Senders : store.pending[s] = code}
    IN
    /\ cli.at = "idle" /\ approvals < MaxApprovals
    /\ approvals' = approvals + 1
    /\ \E sender \in owners :
          cli' = [at |-> "read", sender |-> sender,
                  store |-> [approved |-> store.approved \cup {sender, sender[1], sender[2]},
                             pending |-> [store.pending EXCEPT ![sender] = None]]]
    /\ overlap' = (overlap \/ gateway.at \notin {"idle", "checked"})
    /\ UNCHANGED <<file, default, gateway, told, granted>>

\* writeStore opens the file, which truncates it, then writes it.  Two writers
\* that both opened it before writing may leave a mixture that does not parse.
Writing(p) == p.at \in {"open", "contended"}
Opened(p, other) == [p EXCEPT !.at = IF Writing(other) THEN "contended" ELSE "open"]
Met(p) == IF Writing(p) THEN [p EXCEPT !.at = "contended"] ELSE p

GatewayOpens ==
    /\ gateway.at = "read"
    /\ gateway' = Opened(gateway, cli)
    /\ cli' = Met(cli)
    /\ file' = [file EXCEPT !.whole = FALSE]
    /\ UNCHANGED <<default, approvals, history>>

CliOpens ==
    /\ cli.at = "read"
    /\ cli' = Opened(cli, gateway)
    /\ gateway' = Met(gateway)
    /\ file' = [file EXCEPT !.whole = FALSE]
    /\ UNCHANGED <<default, approvals, history>>

Write(p) ==
    /\ Writing(p)
    /\ \E whole \in IF p.at = "contended" THEN BOOLEAN ELSE {TRUE} :
          file' = [whole |-> whole, store |-> p.store]

GatewayWrites ==
    /\ Write(gateway)
    /\ told' = [told EXCEPT ![gateway.sender] = gateway.store.pending[gateway.sender]]
    /\ gateway' = Idle
    /\ UNCHANGED <<default, cli, approvals, granted, overlap>>

\* Mutant: the approval is announced for everybody who waits.
CliApprovesAll ==
    /\ cli.at = "open"
    /\ file' = [whole |-> TRUE,
                store |-> [cli.store EXCEPT !.approved = @ \cup Users]]
    /\ granted' = granted \cup {cli.sender}
    /\ cli' = Idle
    /\ UNCHANGED <<default, gateway, approvals, told, overlap>>

\* Mutant: the pending request is forgotten but not approved.
CliOnlyRemoves ==
    /\ cli.at = "open"
    /\ file' = [whole |-> TRUE, store |-> [cli.store EXCEPT !.approved = {}]]
    /\ granted' = granted \cup {cli.sender}
    /\ cli' = Idle
    /\ UNCHANGED <<default, gateway, approvals, told, overlap>>

\* "Approved ... pairing code" is printed after the write.
CliWrites ==
    /\ Write(cli)
    /\ granted' = granted \cup {cli.sender}
    /\ cli' = Idle
    /\ UNCHANGED <<default, gateway, approvals, told, overlap>>

\* The steps of requestPairingCode after Ask, and the command line.
Request == RequestCode \/ GatewayOpens \/ GatewayWrites
Command == (\E code \in Codes : Approve(code)) \/ CliOpens \/ CliWrites

-----------------------------------------------------------------------------
(* What the bridge's properties say of the store.                          *)

\* Whoever the owner approved is in the store, and whoever was told a code and
\* is not approved can still be approved by it.
Exact ==
    file.whole =>
        /\ \A s \in granted : IsApproved(file.store, s)
        /\ \A s \in Senders :
              told[s] # None => s \in file.store.approved \/ file.store.pending[s] = told[s]
=============================================================================

------------------------------ MODULE SetupFlow ------------------------------
(***************************************************************************)
(* Who writes the credential vault: security/setup-flow.ts, the dialogue   *)
(* in which a session stores the credentials of a service, and the vault   *)
(* page of web/dashboard.ts; tools read it.  The dialogue's state is kept  *)
(* by session; a message is taken by the dialogue if there is one, and     *)
(* goes to the provider if not.  Calls of the vault are awaited, and other *)
(* messages of the session are handled meanwhile.                          *)
(*                                                                         *)
(* A flow is one dialogue, from "/setup service" to its end.  What the     *)
(* user types in answer to a prompt belongs to the flow that prompted last.*)
(***************************************************************************)
EXTENDS CredentialVault

CONSTANTS
    Sessions,
    MaxFlows       \* bound on "/setup service" commands

ASSUME SetupAssumption == MaxFlows \in Nat

Flows == 1..MaxFlows
Dashboard == MaxFlows + 1   \* stands for what is typed on the dashboard
None == 0

VARIABLES
    pending,    \* pendingBySessionId: session -> [flow, step, identifier]
    saving,     \* [session, flow, call]: dialogues awaiting setCredential
    clearing,   \* [session, call]: "/setup clear" awaiting deleteCredential
    editing,    \* [service, call]: the dashboard looking up an identifier
    \* History.
    service,    \* the services of the flows so far
    prompted    \* session -> the flow whose prompt the user saw last, or None

awaits == <<saving, clearing, editing>>
flowVars == <<vaultVars, pending, awaits, service, prompted>>

NoFlow == [flow |-> None, step |-> "none", identifier |-> None]

FlowInit ==
    /\ VaultInit
    /\ pending = [s \in Sessions |-> NoFlow]
    /\ saving = {} /\ clearing = {} /\ editing = {}
    /\ service = <<>>
    /\ prompted = [s \in Sessions |-> None]

Active(s) == pending[s].flow # None
Forget(s) == pending' = [pending EXCEPT ![s] = NoFlow]
Prompt(s, flow) == prompted' = [prompted EXCEPT ![s] = flow]

NextCall == Len(call) + 1
Returned(c, outcome) == call[c].at = "over" /\ call[c].outcome = outcome

-----------------------------------------------------------------------------
(* handleSlashSetupCommand, which comes before the dialogue.               *)

\* Mutant: a dialogue in progress is kept.
SetupServiceResumes(s, target) ==
    /\ Len(service) < MaxFlows
    /\ service' = Append(service, target)
    /\ pending' = IF Active(s) THEN pending
                  ELSE [pending EXCEPT ![s] = [NoFlow EXCEPT !.flow = Len(service'),
                                                             !.step = "identifier"]]
    /\ Prompt(s, Len(service'))
    /\ UNCHANGED <<vaultVars, awaits>>

SetupService(s, target) ==
    /\ Len(service) < MaxFlows
    /\ service' = Append(service, target)
    /\ pending' = [pending EXCEPT ![s] = [NoFlow EXCEPT !.flow = Len(service'),
                                                        !.step = "identifier"]]
    /\ Prompt(s, Len(service'))
    /\ UNCHANGED <<vaultVars, awaits>>

SetupCancel(s) ==
    /\ Active(s)
    /\ Forget(s)
    /\ Prompt(s, None)
    /\ UNCHANGED <<vaultVars, awaits, service>>

\* "/setup mode" skips to the secret, before the identifier is known too.
SetupMode(s) ==
    /\ Active(s)
    /\ pending' = [pending EXCEPT ![s].step = "secret"]
    /\ Prompt(s, pending[s].flow)
    /\ UNCHANGED <<vaultVars, awaits, service>>

SetupClear(s, target) ==
    /\ Call("delete", target, Absent)
    /\ clearing' = clearing \cup {[session |-> s, call |-> NextCall]}
    /\ UNCHANGED <<pending, saving, editing, service, prompted>>

\* deleteCredential returns: the dialogue of the session ends, whichever it is
\* by now; if it throws, the dialogue goes on.
ClearEnds(w) ==
    /\ clearing' = clearing \ {w}
    /\ \/ Returned(w.call, "done") /\ Forget(w.session) /\ Prompt(w.session, None)
       \/ Returned(w.call, "error") /\ UNCHANGED <<pending, prompted>>
    /\ UNCHANGED <<vaultVars, saving, editing, service>>

-----------------------------------------------------------------------------
(* handlePendingSetupInput, for a value that is not empty and no command:  *)
(* those change nothing.                                                   *)

Identifier(s) ==
    /\ pending[s].step = "identifier"
    /\ pending' = [pending EXCEPT ![s].identifier = pending[s].flow, ![s].step = "authMode"]
    /\ UNCHANGED <<vaultVars, awaits, service, prompted>>

\* A mode, or a value that is none.  Which mode it is decides what of the secret
\* is stored, and is left out.
AuthMode(s) ==
    /\ pending[s].step = "authMode"
    /\ \/ pending' = [pending EXCEPT ![s].step = "secret"]
       \/ UNCHANGED pending
    /\ UNCHANGED <<vaultVars, awaits, service, prompted>>

Save(s) ==
    /\ Call("set", service[pending[s].flow],
            [secret |-> pending[s].flow, identifier |-> pending[s].identifier])
    /\ saving' = saving \cup {[session |-> s, flow |-> pending[s].flow, call |-> NextCall]}
    /\ UNCHANGED <<pending, prompted>>

\* Mutant: the identifier is not asked for again.
SecretWithoutIdentifier(s) ==
    /\ pending[s].step = "secret"
    /\ Save(s)
    /\ UNCHANGED <<clearing, editing, service>>

\* The secret: without an identifier the dialogue is reset, else setCredential
\* is called with what the dialogue holds now.
Secret(s) ==
    /\ pending[s].step = "secret"
    /\ \/ /\ pending[s].identifier = None
          /\ Forget(s)
          /\ Prompt(s, None)
          /\ UNCHANGED <<vaultVars, saving>>
       \/ pending[s].identifier # None /\ Save(s)
    /\ UNCHANGED <<clearing, editing, service>>

\* setCredential returns: the dialogue of the session ends, whichever it is by now.
Stored(w) ==
    /\ Returned(w.call, "done")
    /\ saving' = saving \ {w}
    /\ Forget(w.session)
    /\ IF prompted[w.session] = w.flow THEN Prompt(w.session, None) ELSE UNCHANGED prompted
    /\ UNCHANGED <<vaultVars, clearing, editing, service>>

\* setCredential throws: "Could not save secure credentials yet".
StoreFails(w) ==
    /\ Returned(w.call, "error")
    /\ saving' = saving \ {w}
    /\ UNCHANGED <<vaultVars, pending, clearing, editing, service, prompted>>

-----------------------------------------------------------------------------
(* The vault page of the dashboard, the tools, and the process.            *)

\* A credential with its identifier is set, or one is deleted; a tool, "/setup
\* list" or the page reads one.
Others(target) ==
    /\ \/ Call("set", target, [secret |-> Dashboard, identifier |-> Dashboard])
       \/ Call("delete", target, Absent)
       \/ Call("get", target, Absent)
    /\ UNCHANGED <<pending, awaits, service, prompted>>

\* A secret without an identifier: the stored identifier is looked up.
PutBlank(target) ==
    /\ Call("get", target, Absent)
    /\ editing' = editing \cup {[service |-> target, call |-> NextCall]}
    /\ UNCHANGED <<pending, saving, clearing, service, prompted>>

\* It is there, and is stored with the new secret; or the request is refused.
PutReuses(w) ==
    /\ call[w.call].at = "over"
    /\ editing' = editing \ {w}
    /\ \/ /\ call[w.call].found # Absent
          /\ Call("set", w.service, [secret |-> Dashboard,
                                     identifier |-> call[w.call].found.identifier])
       \/ call[w.call].found = Absent /\ UNCHANGED vaultVars
    /\ UNCHANGED <<pending, saving, clearing, service, prompted>>

Crash ==
    /\ Die
    /\ pending' = [s \in Sessions |-> NoFlow]
    /\ saving' = {} /\ clearing' = {} /\ editing' = {}
    /\ UNCHANGED <<service, prompted>>

FlowNext ==
    \/ \E s \in Sessions :
          \/ \E target \in Services : SetupService(s, target) \/ SetupClear(s, target)
          \/ SetupCancel(s) \/ SetupMode(s)
          \/ Identifier(s) \/ AuthMode(s) \/ Secret(s)
    \/ \E w \in clearing : ClearEnds(w)
    \/ \E w \in saving : Stored(w) \/ StoreFails(w)
    \/ \E w \in editing : PutReuses(w)
    \/ \E target \in Services : Others(target) \/ PutBlank(target)
    \/ VaultStep /\ UNCHANGED <<pending, awaits, service, prompted>>
    \/ Crash

FlowSpec == FlowInit /\ [][FlowNext]_flowVars

-----------------------------------------------------------------------------
(* Properties.                                                             *)

\* Whatever commands, answers, edits and crashes overlap, a credential in the
\* vault carries a secret and an identifier that were typed for its service (in
\* a dialogue about it, or on the dashboard), of one dialogue unless the
\* dashboard changed the secret: setCredential gets what was read before the
\* await, and a blank identifier is refused or replaced by the stored one.
StoredForItsService ==
    \A t \in Services : vault.records[t] # Absent =>
       LET r == vault.records[t] IN
       /\ \A f \in {r.secret, r.identifier} : f = Dashboard \/ (f \in Flows /\ service[f] = t)
       /\ r.secret \in {r.identifier, Dashboard}

\* A dialogue takes no value that the user typed for another one: the dialogue
\* in progress is the one whose prompt the user saw last.  (That dialogue may be
\* over, and then the value goes to the provider.)
NoFlowStealsInput ==
    \A s \in Sessions : Active(s) => prompted[s] \in {None, pending[s].flow}
=============================================================================

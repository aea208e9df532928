------------------------------- MODULE MCTools -------------------------------
(* Four tools of the agent side by side: the durable memory, the gate before  *)
(* payments, the mailbox, the sign-in of the browser.  They share no state; a *)
(* behaviour is one of one of them, the others stay in one initial state.     *)
EXTENDS MemoryStore, CheckoutWorkflow, MailTool, BrowserLogin, TLC
CONSTANTS s1, s2

BothSessions == {s1, s2}
EveryKind == {"save", "replace", "delete", "touch", "prune", "compact", "erase"}
Symmetric == Permutations(Calls) \cup Permutations(Namespaces)

VARIABLE part

toolVars == <<part, memoryVars, vars, mailVars, loginVars>>

QuietMail == \A q \in Mails : box[q] = "absent"
QuietSite == site.controls = {} /\ ~ site.twoStep

ToolsInit ==
    /\ MemoryInit /\ Init /\ MailInit /\ LoginInit
    /\ \/ part \in {"memory", "checkout"} /\ QuietMail /\ QuietSite
       \/ part = "mail" /\ QuietSite
       \/ part = "login" /\ QuietMail

ToolsNext ==
    \/ part = "memory" /\ MemoryNext /\ UNCHANGED <<part, vars, mailVars, loginVars>>
    \/ part = "checkout" /\ Next /\ UNCHANGED <<part, memoryVars, mailVars, loginVars>>
    \/ part = "mail" /\ MailNext /\ UNCHANGED <<part, memoryVars, vars, loginVars>>
    \/ part = "login" /\ LoginNext /\ UNCHANGED <<part, memoryVars, vars, mailVars>>

ToolsSpec == ToolsInit /\ [][ToolsNext]_toolVars
=============================================================================

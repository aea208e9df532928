------------------------------ MODULE AgentTurn ------------------------------
(***************************************************************************)
(* One chat session served by chatWithProvider (src/provider/run.ts): the  *)
(* user's messages are handled one after the other, each by a turn that    *)
(* may first log in by itself, then alternates provider requests and tool  *)
(* calls, and ends with a composed reply or with an exception.             *)
(*                                                                         *)
(* What survives a turn is what the program keeps in its module-level      *)
(* maps: the pending MFA challenge and the checkout authorization of the   *)
(* session.  A message is the set of intents the message classifiers find  *)
(* in it; a tool call is its kind, the class of calls the loop's tests     *)
(* tell apart; an assistant answer is its tool calls, the class of its     *)
(* text and whether it ended in a provider error.                          *)
(***************************************************************************)
EXTENDS Naturals, Sequences, FiniteSets

CONSTANTS
    Messages,        \* the user messages, each a subset of Intents
    Calls,           \* the kinds of tool call the model may issue
    Texts,           \* the classes of assistant text the model may produce
    MaxBatch,        \* tool calls in one assistant message
    MaxToolRounds,   \* MAX_TOOL_ROUNDS, or COMPACT_MODE_MAX_TOOL_ROUNDS
    MaxTurns,        \* bound on the messages of one behaviour
    CompactMode,     \* isCompactModeEnabled for the route
    Telegram         \* the channel of the session is telegram

Intents == {"code", "login", "dashboard", "visit", "recovery", "continue",
            "tools", "change", "smallTalk", "identity", "lookup", "browse",
            "mail", "memory", "confirm", "cancel"}

Kinds == {"read", "write", "memory", "search", "mail", "send", "other",
          "snapshot", "open", "click", "buy", "order", "login", "mfa",
          "screenshot"}

TextClasses == {"empty", "answer", "ungrounded", "asksIdentifier", "refusesOtp"}

Prompts == {"identity", "identifier", "verify", "empty", "final", "force",
            "recovery"}

\* The prompts guarded by a flag of their own.
OncePrompts == {"verify", "empty", "final", "recovery"}

Replies == {"none", "thrown", "paused", "text", "askCode", "otpSent", "otpUnsent",
            "toolOnly", "noTools", "providerFailure", "generic",
            "cannotClaim", "allFailed", "checkoutBlocked", "guardrail"}

Points == {"idle", "autoOpen", "autoLogin", "autoMail", "autoMailAgain",
           "autoMfa", "enter", "request", "tools", "after", "finish", "save"}

\* compactFailureStreak at which the loop stops, and identityRetryCount's limit.
StreakLimit == 3
IdentityRetryLimit == 2

ASSUME BoundsAssumption ==
    /\ MaxBatch \in Nat \ {0}
    /\ MaxToolRounds \in Nat \ {0}
    /\ MaxTurns \in Nat
    /\ CompactMode \in BOOLEAN
    /\ Telegram \in BOOLEAN

ASSUME InputsAssumption ==
    /\ Messages \subseteq SUBSET Intents
    /\ Calls \subseteq Kinds
    /\ Texts \subseteq TextClasses

NoLogin == [submitted |-> FALSE, mfaExpected |-> FALSE]
NothingSeen == [calls |-> FALSE, ok |-> FALSE, failed |-> FALSE,
                browserOk |-> FALSE, browserFailed |-> FALSE, webOk |-> FALSE]
SeenType == [calls : BOOLEAN, ok : BOOLEAN, failed : BOOLEAN,
             browserOk : BOOLEAN, browserFailed : BOOLEAN, webOk : BOOLEAN]
LoginType == [submitted : BOOLEAN, mfaExpected : BOOLEAN]
AnswerType == [present : BOOLEAN, text : TextClasses, errored : BOOLEAN]
NoAnswer == [present |-> FALSE, text |-> "empty", errored |-> FALSE]

VARIABLES
    pc,          \* where the turn stands; "idle" between two messages
    turn,        \* messages handled so far
    msg,         \* params.message of the turn
    mfa,         \* the turn's local pendingMfa is set
    saved,       \* savedServiceFromMessage is set
    round,       \* the loop counter
    needed,      \* completionVerificationNeeded
    satisfied,   \* completionVerificationSatisfied
    asked,       \* the one-time prompts already sent in the turn
    identities,  \* identityRetryCount
    forceWait,   \* forceWaitForMfaCode
    blocked,     \* checkoutBlockedMessage is set
    guardrail,   \* compactGuardrailMessage is set
    streak,      \* compactFailureStreak
    autoLogin,   \* autoAuthLoginSucceeded
    loginState,  \* latestBrowserLoginState
    seen,        \* what allToolCalls and toolOutcomes contain
    shot,        \* the tab is in challengeScreenshotKeys
    batch,       \* the tool calls of the last answer still to be run
    last,        \* lastAssistant
    pendingMfa,  \* pendingMfaBySession has the session
    confirmed,   \* the session's checkout confirmation has not expired
    waiting,     \* the session's checkout state has a pending action
    reply,       \* how the last turn ended
    unverified   \* history: a completed change was not verified since

loopVars == <<round, needed, satisfied, asked, identities, forceWait, blocked,
              guardrail, streak, autoLogin, loginState, seen, shot, batch, last>>
vars == <<pc, turn, msg, mfa, saved, loopVars, pendingMfa, confirmed, waiting,
          reply, unverified>>

-----------------------------------------------------------------------------
(* The tests the loop makes on messages and calls.                         *)

Has(intents) == msg \cap intents # {}
AuthIntents == {"login", "dashboard", "visit"}

\* toolCallMutatesState, toolCallVerifiesState and detectCheckoutRisk.
MutatesState(kind) == kind \in {"write", "memory", "send", "order", "login", "mfa"}
VerifiesState(kind) == kind \in {"read", "memory", "search", "mail", "send", "snapshot"}
CheckoutRisk(kind) == kind \in {"buy", "order"}

OnBrowser(kind) == kind \in {"snapshot", "open", "click", "buy", "order", "login",
                             "mfa", "screenshot"}
OnMail(kind) == kind \in {"mail", "send"}

EmailToolAllowed == mfa \/ Has({"mail", "login", "dashboard"})

\* selectToolsForCompactMode.
KeptInCompactMode(kind) ==
    /\ OnMail(kind) => mfa \/ Has({"mail"})
    /\ OnBrowser(kind) \/ kind = "search" => mfa \/ Has(AuthIntents \cup {"lookup", "browse"})
    /\ kind = "memory" => Has({"memory"})

\* The tools the turn exposes; a call of any other fails as "not found".
Exposed(kind) ==
    /\ ~ Has({"smallTalk"})
    /\ OnMail(kind) => EmailToolAllowed
    /\ CompactMode => KeptInCompactMode(kind)

ForceToolUse == ~ Has({"smallTalk"}) /\ (Has({"tools"}) \/ (mfa /\ Has({"code"})))

\* shouldAttemptWebRecovery.
WebRecoveryDue ==
    /\ ~ pendingMfa
    /\ ~ Has(AuthIntents)
    /\ Exposed("search")
    /\ Has({"lookup"})
    /\ seen.browserFailed /\ ~ seen.webOk
-----------------------------------------------------------------------------
(* What one executed tool call changes: runSyntheticToolCall, and the part *)
(* of the loop's body after the call.                                      *)

\* runWithHardTimeout around executeToolCall: it returns, fails or is left.
Outcomes(kind) == IF Exposed(kind) THEN {"ok", "error", "timeout"} ELSE {"error"}

\* The parts of a login result parseBrowserLoginState and parseBrowserMfaState read.
LoginResults == [submitted : BOOLEAN, mfaExpected : BOOLEAN, requiresMfa : BOOLEAN,
                 mailbox : BOOLEAN]

\* maybeCaptureCaptchaScreenshotForTelegram: the outcome of the screenshot, if any.
Captures(kind, res) ==
    LET challenge == \/ res = "ok"
                     \/ res = "error" /\ kind \in {"login", "open", "click", "buy"}
    IN  {"none"} \cup IF /\ Telegram /\ ~ shot
                         /\ OnBrowser(kind) /\ Exposed(kind) /\ challenge
                      THEN Outcomes("screenshot")
                      ELSE {}

Note(s, kind, ok) ==
    [calls |-> TRUE,
     ok |-> s.ok \/ ok,
     failed |-> s.failed \/ ~ ok,
     browserOk |-> s.browserOk \/ (OnBrowser(kind) /\ ok),
     browserFailed |-> s.browserFailed \/ (OnBrowser(kind) /\ ~ ok),
     webOk |-> s.webOk \/ (kind = "search" /\ ok)]

\* Mutant: a later change leaves an earlier verification standing.
SignalKeepsVerified(kind, ok) ==
    /\ needed' = (needed \/ (ok /\ MutatesState(kind)))
    /\ satisfied' = (satisfied \/ (ok /\ VerifiesState(kind)))
    /\ asked' = IF ok /\ MutatesState(kind) THEN asked \ {"verify"} ELSE asked

\* registerCompletionVerificationSignal.
RegisterSignal(kind, ok) ==
    /\ needed' = (needed \/ (ok /\ MutatesState(kind)))
    /\ satisfied' = IF ok /\ VerifiesState(kind) /\ (needed \/ MutatesState(kind)) THEN TRUE
                    ELSE IF ok /\ MutatesState(kind) THEN FALSE
                    ELSE satisfied
    /\ asked' = IF ok /\ MutatesState(kind) THEN asked \ {"verify"} ELSE asked

\* Mutant: a challenge is registered only if the form was submitted.
PendingOnlyIfSubmitted(kind, ok, lr) ==
    pendingMfa' = CASE ok /\ kind = "mfa" -> FALSE
                    [] ok /\ kind = "login" -> lr.requiresMfa /\ lr.submitted
                    [] OTHER -> pendingMfa

\* updatePendingMfaStateFromBrowserTool.
UpdatePendingMfa(kind, ok, lr) ==
    pendingMfa' = CASE ok /\ kind = "mfa" -> FALSE
                    [] ok /\ kind = "login" -> lr.requiresMfa
                    [] OTHER -> pendingMfa

\* The history variable: what the calls really did, beside what is recorded.
Observe(kind, res) ==
    unverified' = IF res = "ok" /\ VerifiesState(kind) THEN FALSE
                  ELSE (unverified \/ (res = "ok" /\ MutatesState(kind)))

\* A call was run with this outcome (and, for a login, this result).
Ran(kind, res, lr) ==
    /\ \E capture \in Captures(kind, res) :
          /\ seen' = LET s == Note(seen, kind, res = "ok")
                     IN  IF capture = "none" THEN s ELSE Note(s, "screenshot", capture = "ok")
          /\ shot' = (shot \/ capture # "none")
    /\ RegisterSignal(kind, res = "ok")
    /\ UpdatePendingMfa(kind, res = "ok", lr)
    /\ loginState' = IF kind = "login" /\ res = "ok"
                     THEN [submitted |-> lr.submitted, mfaExpected |-> lr.mfaExpected]
                     ELSE loginState
    /\ Observe(kind, res)

NoResult == [submitted |-> FALSE, mfaExpected |-> FALSE, requiresMfa |-> FALSE,
             mailbox |-> FALSE]
Results(kind, res) == IF kind = "login" /\ res = "ok" THEN LoginResults ELSE {NoResult}

-----------------------------------------------------------------------------
(* The beginning of a turn.                                                *)

\* Mutant: the code in the message is not looked at.
DropsChallengeDespiteCode(m) ==
    pendingMfa /\ m \cap {"login", "visit", "recovery"} # {}

\* A message without a code that asks for the login, a site or a new code
\* drops the pending challenge.
DropsChallenge(m) ==
    pendingMfa /\ "code" \notin m /\ m \cap {"login", "visit", "recovery"} # {}

\* A message that only asks to go on while the challenge is pending.
PausesAtMfa(m) ==
    /\ pendingMfa /\ "code" \notin m
    /\ m \cap {"continue", "dashboard"} # {}
    /\ m \cap {"login", "visit", "recovery"} = {}

AutoAuthIntent(m) ==
    m \cap AuthIntents # {} \/ (pendingMfa /\ "code" \notin m /\ "recovery" \in m)

\* savedServiceFromMessage: the dropped challenge's service when the message
\* asks for its code again, else what the vault lookup finds (it may fail).
SavedServices(m) ==
    IF pendingMfa /\ "code" \notin m /\ "recovery" \in m THEN {TRUE} ELSE BOOLEAN

\* The local variables of a turn that gets as far as the provider.
FreshLocals(m) ==
    /\ round' = 0
    /\ needed' = ("change" \in m)
    /\ satisfied' = ("change" \notin m)
    /\ asked' = {}
    /\ identities' = 0
    /\ forceWait' = FALSE
    /\ blocked' = FALSE
    /\ guardrail' = FALSE
    /\ streak' = 0
    /\ autoLogin' = FALSE
    /\ loginState' = NoLogin
    /\ seen' = NothingSeen
    /\ shot' = FALSE
    /\ batch' = <<>>
    /\ last' = NoAnswer

\* A turn that returns or throws leaves none of its locals behind.
EndTurn(r) ==
    /\ pc' = "idle"
    /\ reply' = r
    /\ mfa' = FALSE /\ saved' = FALSE
    /\ FreshLocals({})

\* chatWithProvider up to the automatic login.  A missing route, credential,
\* model or profile file ends the turn before or after the challenge is dropped.
BeginTurn(m) ==
    /\ pc = "idle" /\ turn < MaxTurns
    /\ turn' = turn + 1
    /\ msg' = m
    /\ pendingMfa' = (pendingMfa /\ ~ DropsChallenge(m))
    /\ unverified' = FALSE
    /\ \/ /\ PausesAtMfa(m)
          /\ EndTurn("paused")
       \/ /\ ~ PausesAtMfa(m)
          /\ EndTurn("thrown")
       \/ /\ ~ PausesAtMfa(m)
          /\ FreshLocals(m)
          /\ mfa' = pendingMfa'
          /\ reply' = "none"
          /\ IF ~ pendingMfa' /\ AutoAuthIntent(m)
             THEN /\ saved' \in SavedServices(m)
                  /\ pc' \in IF saved' THEN {"autoOpen", "autoLogin"} ELSE {"enter"}
             ELSE saved' = FALSE /\ pc' = "enter"
    /\ UNCHANGED <<confirmed, waiting>>

\* A route without provider or credential throws before anything is touched.
RejectTurn(m) ==
    /\ pc = "idle" /\ turn < MaxTurns
    /\ turn' = turn + 1
    /\ msg' = m
    /\ reply' = "thrown"
    /\ UNCHANGED <<pc, mfa, saved, loopVars, pendingMfa, confirmed, waiting,
                   unverified>>

-----------------------------------------------------------------------------
(* The automatic login with a saved service.                               *)

turnVars == <<turn, msg, mfa, saved, confirmed, waiting, reply>>
ladderVars == <<round, identities, blocked, guardrail, streak, batch, last>>

AutoOpen ==
    /\ pc = "autoOpen"
    /\ \E res \in Outcomes("open") : Ran("open", res, NoResult)
    /\ pc' = "autoLogin"
    /\ UNCHANGED <<turnVars, ladderVars, forceWait, autoLogin>>

AutoLogin ==
    /\ pc = "autoLogin"
    /\ \E res \in Outcomes("login") : \E lr \in Results("login", res) :
          /\ Ran("login", res, lr)
          /\ autoLogin' = (res = "ok")
          /\ \/ /\ lr.requiresMfa /\ lr.mailbox /\ Exposed("mail")
                /\ pc' = "autoMail"
                /\ UNCHANGED forceWait
             \/ /\ ~ (lr.requiresMfa /\ lr.mailbox /\ Exposed("mail"))
                /\ pc' = "enter"
                /\ forceWait' = (lr.requiresMfa /\ pendingMfa')
    /\ UNCHANGED <<turnVars, ladderVars>>

\* list_unread, then read_recent, until one of them shows a code.
AutoMail ==
    /\ pc \in {"autoMail", "autoMailAgain"}
    /\ \E res \in Outcomes("mail") : \E found \in BOOLEAN :
          /\ found => res = "ok"
          /\ Ran("mail", res, NoResult)
          /\ pc' = IF found THEN "autoMfa"
                   ELSE IF pc = "autoMail" THEN "autoMailAgain"
                   ELSE "enter"
          /\ forceWait' = (pc' = "enter" /\ pendingMfa')
    /\ UNCHANGED <<turnVars, ladderVars, autoLogin>>

AutoMfa ==
    /\ pc = "autoMfa"
    /\ \E res \in Outcomes("mfa") : Ran("mfa", res, NoResult)
    /\ pc' = "enter"
    /\ forceWait' = pendingMfa'
    /\ UNCHANGED <<turnVars, ladderVars, autoLogin>>

\* beginCheckoutWorkflowTurn, then the loop unless the code is awaited.
EnterLoop ==
    /\ pc = "enter"
    /\ confirmed' = CASE Has({"cancel"}) -> FALSE
                      [] ~ Has({"cancel"}) /\ Has({"confirm"}) -> TRUE
                      [] OTHER -> confirmed
    /\ waiting' = (waiting /\ ~ Has({"cancel", "confirm"}))
    /\ pc' = IF forceWait THEN "after" ELSE "request"
    /\ UNCHANGED <<turn, msg, mfa, saved, loopVars, pendingMfa, reply,
                   unverified>>

-----------------------------------------------------------------------------
(* The rounds: a provider request, then prompts or tool calls.             *)

Answers == [present : {TRUE}, text : Texts, errored : BOOLEAN]
Batches == UNION {[1..n -> Calls] : n \in 0..MaxBatch}

keptVars == <<turn, msg, mfa, saved>>
sharedVars == <<pendingMfa, confirmed, waiting>>

\* The prompts of the branch without tool calls, in the order they are tried.
PromptOrder == <<"identity", "identifier", "verify", "empty", "final", "force", "recovery">>

\* found: resolveSavedServiceFromBrowserOutcomes knows the site.
Due(prompt, a, found) ==
    CASE prompt = "identity"   -> Has({"identity"}) /\ identities < IdentityRetryLimit
                                  /\ a.text \in {"empty", "ungrounded"}
      [] prompt = "identifier" -> Has(AuthIntents) /\ a.text = "asksIdentifier"
                                  /\ (saved \/ (seen.calls /\ found))
      [] prompt = "verify"     -> ~ satisfied /\ "verify" \notin asked
      [] prompt = "empty"      -> a.text = "empty" /\ "empty" \notin asked
      [] prompt = "final"      -> a.text = "empty" /\ "final" \notin asked /\ seen.calls
      [] prompt = "force"      -> round = 0 /\ ForceToolUse
      [] prompt = "recovery"   -> "recovery" \notin asked /\ WebRecoveryDue

FirstDue(i, a, found) ==
    /\ Due(PromptOrder[i], a, found)
    /\ \A j \in 1..(i - 1) : ~ Due(PromptOrder[j], a, found)

\* Mutant: the counter is not advanced.
SameRound ==
    /\ round' = round
    /\ pc' = IF round + 1 < MaxToolRounds THEN "request" ELSE "after"

\* The loop's own condition, after round + 1.
NextRound ==
    /\ round' = round + 1
    /\ pc' = IF round + 1 < MaxToolRounds THEN "request" ELSE "after"

\* The provider answers without tool calls: the first prompt due is sent and
\* the loop continues, or the loop ends.
AnswerWithoutCalls(a) ==
    /\ pc = "request"
    /\ last' = a
    /\ \E found \in BOOLEAN :
          /\ found => seen.browserOk
          /\ \/ /\ \A i \in 1..7 : ~ FirstDue(i, a, found)
                /\ pc' = "after"
                /\ UNCHANGED <<round, asked, identities>>
             \/ \E i \in 1..7 :
                   /\ FirstDue(i, a, found)
                   /\ NextRound
                   /\ asked' = asked \cup ({PromptOrder[i]} \cap OncePrompts)
                   /\ identities' = IF PromptOrder[i] = "identity" THEN identities + 1
                                    ELSE identities
    /\ UNCHANGED <<keptVars, sharedVars, unverified, needed, satisfied, forceWait, blocked,
                   guardrail, streak, autoLogin, loginState, seen, shot, batch, reply>>

\* The provider answers with tool calls.
AnswerWithCalls(a, calls) ==
    /\ pc = "request"
    /\ calls # <<>>
    /\ last' = a
    /\ batch' = calls
    /\ pc' = "tools"
    /\ UNCHANGED <<keptVars, sharedVars, unverified, round, needed, satisfied, asked,
                   identities, forceWait, blocked, guardrail, streak, autoLogin,
                   loginState, seen, shot, reply>>

\* requestAssistant rejects (failure, timeout), or the vault lookup of the
\* identifier prompt does: the exception leaves chatWithProvider.
RequestFails ==
    /\ pc = "request"
    /\ EndTurn("thrown")
    /\ UNCHANGED <<turn, msg, sharedVars, unverified>>

\* Mutant: the breaks after a refused call are missing.
BlockCallAndGoOn ==
    /\ pc = "tools"
    /\ CheckoutRisk(Head(batch)) /\ ~ confirmed
    /\ waiting' = TRUE
    /\ blocked' = TRUE
    /\ seen' = Note(seen, Head(batch), FALSE)
    /\ batch' = Tail(batch)
    /\ IF Len(batch) = 1 THEN NextRound ELSE pc' = "tools" /\ UNCHANGED round
    /\ UNCHANGED <<keptVars, unverified, pendingMfa, confirmed, needed, satisfied, asked,
                   identities, forceWait, guardrail, streak, autoLogin, loginState, shot,
                   last, reply>>

\* One call of the batch that enforceCheckoutWorkflow refuses: it counts as a
\* failed call and ends the loop.
BlockCall ==
    /\ pc = "tools"
    /\ CheckoutRisk(Head(batch)) /\ ~ confirmed
    /\ waiting' = TRUE
    /\ blocked' = TRUE
    /\ seen' = Note(seen, Head(batch), FALSE)
    /\ streak' = IF CompactMode THEN streak + 1 ELSE streak
    /\ guardrail' = (CompactMode /\ streak' >= StreakLimit)
    /\ batch' = <<>>
    /\ pc' = "after"
    /\ UNCHANGED <<keptVars, unverified, pendingMfa, confirmed, round, needed, satisfied,
                   asked, identities, forceWait, autoLogin, loginState, shot, last, reply>>

\* A login met a challenge: the rest of the batch is dropped.  The model is
\* told to read the code from the mailbox, or the user is asked for it.
MeetChallenge(lr) ==
    /\ batch' = <<>>
    /\ \/ /\ lr.mailbox /\ Exposed("mail")
          /\ NextRound
          /\ UNCHANGED forceWait
       \/ /\ ~ (lr.mailbox /\ Exposed("mail"))
          /\ forceWait' = TRUE
          /\ pc' = "after"
          /\ UNCHANGED round
    /\ UNCHANGED <<streak, guardrail>>

\* The result is pushed; in compact mode repeated failures end the loop.
PushResult(res) ==
    /\ streak' = CASE ~ CompactMode -> streak
                   [] CompactMode /\ res = "ok" -> 0
                   [] OTHER -> streak + 1
    /\ \/ /\ streak' >= StreakLimit
          /\ guardrail' = TRUE
          /\ batch' = <<>>
          /\ pc' = "after"
          /\ UNCHANGED round
       \/ /\ streak' < StreakLimit
          /\ batch' = Tail(batch)
          /\ IF Len(batch) = 1 THEN NextRound ELSE pc' = "tools" /\ UNCHANGED round
          /\ UNCHANGED guardrail
    /\ UNCHANGED forceWait

\* One call of the batch is executed.
RunCall ==
    /\ pc = "tools"
    /\ LET kind == Head(batch)
       IN  /\ CheckoutRisk(kind) => confirmed
           /\ waiting' = (waiting /\ ~ CheckoutRisk(kind))
           /\ \E res \in Outcomes(kind) : \E lr \in Results(kind, res) :
                 /\ Ran(kind, res, lr)
                 /\ IF lr.requiresMfa THEN MeetChallenge(lr) ELSE PushResult(res)
    /\ UNCHANGED <<keptVars, confirmed, identities, blocked, autoLogin, last, reply>>

-----------------------------------------------------------------------------
(* The end of a turn.                                                      *)

RetryDue ==
    /\ ~ forceWait /\ autoLogin
    /\ loginState.mfaExpected /\ ~ loginState.submitted

\* The automatic login left the code request unconfirmed: it is tried again.
RetryLogin ==
    /\ pc = "after" /\ RetryDue /\ saved
    /\ \E res \in Outcomes("login") : \E lr \in Results("login", res) :
          /\ Ran("login", res, lr)
          /\ forceWait' = (lr.requiresMfa /\ pendingMfa')
    /\ pc' = "finish"
    /\ UNCHANGED <<turnVars, ladderVars, autoLogin>>

LeaveLoop ==
    /\ pc = "after" /\ ~ (RetryDue /\ saved)
    /\ pc' = "finish"
    /\ UNCHANGED <<keptVars, sharedVars, unverified, loopVars, reply>>

\* A last request without tools when calls were made and no text came back;
\* its failure is swallowed.  A turn that awaits the code needs no answer; for
\* any other the exception "Provider did not return an assistant response."
\* has no step here because HasResponse shows that it is never thrown.
Finalize ==
    /\ pc = "finish"
    /\ last.present \/ forceWait
    /\ \/ /\ ~ forceWait /\ seen.calls /\ last.text = "empty"
          /\ last' \in Answers \cup {last}
       \/ /\ forceWait \/ ~ seen.calls \/ last.text # "empty"
          /\ last' = [last EXCEPT !.present = TRUE]
    /\ pc' = "save"
    /\ UNCHANGED <<keptVars, sharedVars, unverified, round, needed, satisfied, asked,
                   identities, forceWait, blocked, guardrail, streak, autoLogin,
                   loginState, seen, shot, batch, reply>>

\* The reply before the overrides: the text, or what stands in for it.
BaseReply ==
    IF forceWait THEN "askCode"
    ELSE IF ForceToolUse /\ ~ seen.calls /\ (last.errored \/ last.text = "empty") THEN "noTools"
    ELSE IF last.text = "empty" /\ seen.calls THEN "toolOnly"
    ELSE IF last.text = "empty" THEN IF last.errored THEN "providerFailure" ELSE "generic"
    ELSE IF last.text = "refusesOtp" /\ loginState.mfaExpected /\ Has(AuthIntents)
         THEN IF loginState.submitted THEN "otpSent" ELSE "otpUnsent"
    ELSE "text"

\* The overrides, the last one first.
ComposeReply ==
    IF guardrail THEN "guardrail"
    ELSE IF blocked THEN "checkoutBlocked"
    ELSE IF seen.failed /\ ~ seen.ok THEN "allFailed"
    ELSE IF ~ forceWait /\ needed /\ ~ satisfied THEN "cannotClaim"
    ELSE BaseReply

\* saveSessionMessages succeeds and the reply is returned.
SaveAndReply ==
    /\ pc = "save"
    /\ EndTurn(ComposeReply)
    /\ UNCHANGED <<turn, msg, sharedVars, unverified>>

SaveFails ==
    /\ pc = "save"
    /\ EndTurn("thrown")
    /\ UNCHANGED <<turn, msg, sharedVars, unverified>>

-----------------------------------------------------------------------------
(* What happens beside the turn.                                           *)

\* The five minutes of a checkout confirmation end.
ConfirmationExpires ==
    /\ confirmed
    /\ confirmed' = FALSE
    /\ UNCHANGED <<pc, keptVars, loopVars, pendingMfa, waiting, reply, unverified>>

-----------------------------------------------------------------------------
Init ==
    /\ pc = "idle" /\ turn = 0 /\ msg = {} /\ mfa = FALSE /\ saved = FALSE
    /\ round = 0 /\ needed = FALSE /\ satisfied = TRUE /\ asked = {}
    /\ identities = 0 /\ forceWait = FALSE /\ blocked = FALSE
    /\ guardrail = FALSE /\ streak = 0 /\ autoLogin = FALSE
    /\ loginState = NoLogin /\ seen = NothingSeen /\ shot = FALSE
    /\ batch = <<>> /\ last = NoAnswer
    /\ pendingMfa = FALSE /\ confirmed = FALSE /\ waiting = FALSE
    /\ reply = "none" /\ unverified = FALSE

Message == \E m \in Messages : BeginTurn(m) \/ RejectTurn(m)

Request ==
    \/ \E a \in Answers : AnswerWithoutCalls(a)
    \/ \E a \in Answers, calls \in Batches : AnswerWithCalls(a, calls)
    \/ RequestFails

\* The steps of the turn itself.
TurnStep ==
    \/ AutoOpen \/ AutoLogin \/ AutoMail \/ AutoMfa \/ EnterLoop
    \/ Request \/ BlockCall \/ RunCall
    \/ RetryLogin \/ LeaveLoop \/ Finalize
    \/ SaveAndReply \/ SaveFails

Next == Message \/ TurnStep \/ ConfirmationExpires

Spec == Init /\ [][Next]_vars

\* Every await of a turn settles: provider requests and tool calls by their
\* hard timeouts, file access by the operating system.
FairSpec == Spec /\ WF_vars(TurnStep)

-----------------------------------------------------------------------------
(* Properties.                                                             *)

FlagsOK ==
    /\ mfa \in BOOLEAN /\ saved \in BOOLEAN
    /\ needed \in BOOLEAN /\ satisfied \in BOOLEAN
    /\ forceWait \in BOOLEAN /\ blocked \in BOOLEAN /\ guardrail \in BOOLEAN
    /\ autoLogin \in BOOLEAN /\ shot \in BOOLEAN
    /\ pendingMfa \in BOOLEAN /\ confirmed \in BOOLEAN /\ waiting \in BOOLEAN
    /\ unverified \in BOOLEAN

CountersOK ==
    /\ turn \in 0..MaxTurns
    /\ round \in 0..MaxToolRounds
    /\ identities \in 0..IdentityRetryLimit
    /\ streak \in 0..StreakLimit
    /\ batch \in Seq(Kinds) /\ Len(batch) <= MaxBatch

DataOK ==
    /\ pc \in Points
    /\ msg \subseteq Intents
    /\ asked \subseteq Prompts
    /\ loginState \in LoginType
    /\ seen \in SeenType
    /\ last \in AnswerType
    /\ reply \in Replies

\* Every variable keeps its type, and the counters their limits: the loop
\* never exceeds its rounds, the identity retries and the failure streak
\* never exceed theirs.
TypeOK == FlagsOK /\ CountersOK /\ DataOK

\* The replies that report an outcome rather than a failure or a question.
Claims == {"text", "toolOnly", "otpSent", "otpUnsent", "generic"}

\* A turn in which a state-changing call completed reports an outcome only if
\* a verifying call completed after it, whatever prompts, retries and batches
\* came between (registerCompletionVerificationSignal and the overrides).
VerifiedBeforeClaim == pc = "idle" /\ reply \in Claims => ~ unverified

\* When the user is asked for the one-time code after a login, the session's
\* challenge is still registered, so that the code will be recognised
\* (forceWaitForMfaCode against pendingMfaBySession).
AskedCodeIsAwaited == pc = "idle" /\ reply = "askCode" => pendingMfa

\* A refused checkout action ends the model's tool use for the turn: no later
\* round or batch runs (checkoutBlockedMessage and the two breaks).
BlockedEndsToolUse ==
    pc # "idle" /\ blocked => pc \in {"after", "finish", "save"} /\ batch = <<>>

\* The loop is left without any assistant answer only to ask for a code, so
\* "Provider did not return an assistant response." is never thrown.
HasResponse == pc = "finish" => last.present \/ forceWait

\* A message with a code that follows the question for it is handled as the
\* continuation of the challenge (effectiveUserMessage, forceToolUse).
CodeContinuesChallenge ==
    [][ pc = "idle" /\ reply = "askCode" /\ pc' # "idle" /\ "code" \in msg'
        => mfa' /\ pc' = "enter" ]_vars

\* Every turn ends, with a reply or an exception.
TurnEnds == (pc # "idle") ~> (pc = "idle")
=============================================================================

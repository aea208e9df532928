---------------------------- MODULE BrowserLogin ----------------------------
(***************************************************************************)
(* login and mfa of the browser tool (agents/tools/browser-tool.ts) on the *)
(* live page: find the input for the identifier, type the credential, press*)
(* something that submits it, see whether the site asks for a code; later  *)
(* type the code.  Every look at the page and every key is an await, and   *)
(* the site goes on by itself in between.                                  *)
(*                                                                         *)
(* A page is what its selectors tell apart: its view.  The input of the    *)
(* view "form" is in the page, that of "framed" in a child frame, and      *)
(* likewise "code" and "framedCode"; "entry" hides the form behind a       *)
(* button; "prompt" says that a code was sent, without an input.           *)
(***************************************************************************)
EXTENDS Naturals, Sequences

CONSTANTS
    MaxCodes,   \* bound on the codes that the site sends
    MaxMoves,   \* bound on what the site does by itself
    MaxCalls    \* bound on the calls

ASSUME LoginAssumption == {MaxCodes, MaxMoves, MaxCalls} \subseteq Nat

VARIABLES
    login,     \* the call under way, or the last one
    site,      \* the page: view, late (the answer on its way), typed inputs,
               \* pw (it shows a password input), controls, twoStep
    sent,      \* codes the site has sent
    moves, calls,
    \* History, of the call under way.
    submits,   \* submissions of a complete form
    lost       \* an await failed although its key or click took effect

loginVars == <<login, site, sent, moves, calls, submits, lost>>

Forms == {"form", "framed"}
Codes == {"code", "framedCode"}
Unasked == {"preparing", "entry", "form", "framed", "human", "other"}

NoLogin == [op |-> "none", at |-> "idle", mode |-> "none", x |-> FALSE, frame |-> FALSE,
            code |-> 0, submitted |-> FALSE, mfa |-> FALSE, outcome |-> "none"]

LoginInit ==
    /\ login = NoLogin
    /\ \E controls \in SUBSET {"plain", "social"}, two \in BOOLEAN :
          site = [view |-> "preparing", late |-> "none", typed |-> {}, pw |-> ~ two,
                  controls |-> controls, twoStep |-> two]
    /\ sent = 0 /\ moves = 0 /\ calls = 0
    /\ submits = 0 /\ lost = FALSE

At(at) == login.at = at
GoesOn(at) == login' = [login EXCEPT !.at = at]
Ends(outcome) == login' = [login EXCEPT !.at = "idle", !.outcome = outcome]

\* The call only looks.
Looks == UNCHANGED <<site, sent, moves, calls, submits, lost>>

-----------------------------------------------------------------------------
(* What the selectors find.                                                *)

\* selectFirstUsableLocator, for inputs in the page or in a child frame.
Usable(inFrame, inPage, framed) == site.view = IF inFrame THEN framed ELSE inPage
IdentifierIn(frame) == Usable(frame, "form", "framed")
CodeIn(frame) == Usable(frame, "code", "framedCode")
PasswordIn(frame) == IdentifierIn(frame) /\ site.pw

\* loginPageLooksStuckPreparing.
StuckPreparing == site.view = "preparing"

\* detectInteractiveChallengeLive, classifyChallengeSignals.
HumanCheck == site.view = "human"

\* isSocialAuthLabel, isLikelySocialAuthTarget: the controls that may be used.
NotSocial(controls) == controls \ {"social"}

\* The form with the identifier is still there, the input typed in last is, and
\* all that the form needs is typed in.
FormIsHere == IdentifierIn(login.frame)
InputIsHere == IF login.mode = "passwordless" THEN FormIsHere ELSE PasswordIn(login.frame)
Complete == "id" \in site.typed /\ (login.mode = "passwordless" \/ "pw" \in site.typed)

-----------------------------------------------------------------------------
(* The site (external).                                                    *)

\* It gets a complete form: it may let the user in, ask for a code, or refuse.
SiteGets ==
    /\ submits' = submits + 1
    /\ \/ site' = [site EXCEPT !.late = "none"] /\ UNCHANGED sent
       \/ /\ login.mode # "passwordless"
          /\ site' = [site EXCEPT !.late = "in"]
          /\ UNCHANGED sent
       \/ /\ sent < MaxCodes
          /\ sent' = sent + 1
          /\ \E v \in Codes \cup {"prompt"} : site' = [site EXCEPT !.late = v]

\* It gets a code: the last one it sent is right.
SiteGetsCode ==
    /\ submits' = submits + 1
    /\ site' = [site EXCEPT !.late = IF login.code = sent THEN "in" ELSE "none"]
    /\ UNCHANGED sent

Shows(v) == site' = [site EXCEPT !.view = v, !.late = "none", !.typed = {}, !.pw = ~ site.twoStep]

SiteAnswers ==
    /\ site.late # "none"
    /\ Shows(site.late)
    /\ UNCHANGED <<login, sent, moves, calls, submits, lost>>

\* It loads, redirects, expires or checks for a human.
SiteMoves ==
    /\ moves < MaxMoves
    /\ moves' = moves + 1
    /\ \E v \in Unasked \ {site.view} : Shows(v)
    /\ UNCHANGED <<login, sent, calls, submits, lost>>

-----------------------------------------------------------------------------
(* performLiveCredentialLogin.                                             *)

\* resolveCredentialForCandidates: the first candidate with a credential, or a
\* service that belongs to the host of the page.
CredentialsFor(vault, candidates, ofHost) ==
    LET known == {i \in DOMAIN candidates : vault[candidates[i]] # "none"}
    IN  IF known # {} THEN {candidates[CHOOSE i \in known : \A j \in known : i <= j]}
        ELSE {s \in ofHost : vault[s] # "none"}

BeginCall(r) ==
    /\ At("idle") /\ calls < MaxCalls
    /\ calls' = calls + 1
    /\ login' = r
    /\ submits' = 0 /\ lost' = FALSE
    /\ UNCHANGED <<site, sent, moves>>

\* login: without candidates, or without a credential, it throws.
BeginLogin(vault, candidates, ofHost, x) ==
    LET found == CredentialsFor(vault, candidates, ofHost)
        new == [NoLogin EXCEPT !.op = "login", !.x = x]
    IN  IF candidates = <<>> \/ found = {}
        THEN BeginCall([new EXCEPT !.outcome = "error"])
        ELSE \E s \in found : BeginCall([new EXCEPT !.at = "look", !.mode = vault[s]])

\* Look for the identifier until the deadline; then for a button that leads to
\* the form ...
LookForIdentifier ==
    /\ At("look")
    /\ IF IdentifierIn(FALSE) THEN GoesOn("identifier") ELSE GoesOn("enter")
    /\ Looks

\* ... which may by then be a button of another view ...
PressEntry ==
    /\ At("enter")
    /\ \/ GoesOn("frames") /\ UNCHANGED site
       \/ GoesOn("lookAgain") /\ IF site.view = "entry" THEN \E v \in Forms : Shows(v)
                                                        ELSE UNCHANGED site
    /\ UNCHANGED <<sent, moves, calls, submits, lost>>

LookAgain ==
    /\ At("lookAgain")
    /\ IF IdentifierIn(FALSE) THEN GoesOn("identifier") ELSE GoesOn("frames")
    /\ Looks

\* ... then in the child frames.  If it is nowhere the call throws.
LookInFrames ==
    /\ At("frames")
    /\ IF IdentifierIn(TRUE)
       THEN login' = [login EXCEPT !.at = "identifier", !.frame = TRUE]
       ELSE Ends(IF StuckPreparing THEN "stuck" ELSE IF HumanCheck THEN "human" ELSE "error")
    /\ Looks

\* fill throws when the input is gone, or not in time.
FillIdentifier ==
    /\ At("identifier")
    /\ \/ Ends("error") /\ UNCHANGED site
       \/ /\ FormIsHere
          /\ site' = [site EXCEPT !.typed = @ \cup {"id"}]
          /\ GoesOn(IF login.mode = "passwordless" THEN "submit" ELSE "password")
    /\ UNCHANGED <<sent, moves, calls, submits, lost>>

\* Only for x.com is the form expected to come in two steps.
LookForPassword ==
    /\ login.at \in {"password", "passwordNext"}
    /\ \/ PasswordIn(login.frame) /\ GoesOn("secret") /\ UNCHANGED site
       \/ /\ ~ PasswordIn(login.frame)
          /\ IF login.x /\ At("password")
             THEN /\ GoesOn("passwordNext")
                  /\ \/ FormIsHere /\ site' = [site EXCEPT !.pw = TRUE]
                     \/ UNCHANGED site
             ELSE Ends("error") /\ UNCHANGED site
    /\ UNCHANGED <<sent, moves, calls, submits, lost>>

FillPassword ==
    /\ At("secret")
    /\ \/ Ends("error") /\ UNCHANGED site
       \/ /\ PasswordIn(login.frame)
          /\ site' = [site EXCEPT !.typed = @ \cup {"pw"}]
          /\ GoesOn("submit")
    /\ UNCHANGED <<sent, moves, calls, submits, lost>>

\* What a key or click on a submit control does, if the form is there.
FormHit == FormIsHere /\ Complete
Pressed == IF FormHit THEN SiteGets ELSE UNCHANGED <<site, sent, submits>>

\* A key or click: it is reported, or fails before or after it took effect.
Strikes(hit, strike, reported, at) ==
    \/ strike /\ login' = reported /\ UNCHANGED lost
    \/ strike /\ GoesOn(at) /\ lost' = (lost \/ hit)
    \/ GoesOn(at) /\ UNCHANGED <<site, sent, submits, lost>>

Submitted(at) == [login EXCEPT !.at = at, !.submitted = TRUE]

\* submitNearestFormFromInput: a control of the form that is not social, or the
\* form itself if it has none.  If the script fails Enter follows, also when the
\* script had pressed the control and the page went away.
SubmitNearest ==
    /\ At("submit")
    /\ IF ~ InputIsHere THEN GoesOn("enterKey") /\ UNCHANGED <<site, sent, submits, lost>>
       ELSE IF site.controls # {} /\ NotSocial(site.controls) = {}
       THEN \E at \in {"press", "enterKey"} : GoesOn(at) /\ UNCHANGED <<site, sent, submits, lost>>
       ELSE Strikes(FormHit, Pressed, Submitted("probe"), "enterKey")
    /\ UNCHANGED <<moves, calls>>

PressEnter ==
    /\ At("enterKey")
    /\ IF InputIsHere THEN Strikes(FormHit, Pressed, Submitted("probe"), "press")
                      ELSE GoesOn("press") /\ UNCHANGED <<site, sent, submits, lost>>
    /\ UNCHANGED <<moves, calls>>

\* A button of the view that is there by now, not a social one.
PressAny(at) ==
    /\ IF FormIsHere /\ NotSocial(site.controls) = {}
       THEN GoesOn(at) /\ UNCHANGED <<site, sent, submits, lost>>
       ELSE Strikes(FormHit, Pressed, Submitted("probe"), at)
    /\ UNCHANGED <<moves, calls>>

\* The submit control by selector, or by role (clickRoleButtonExcludingSocial) ...
PressButton == At("press") /\ PressAny(IF login.mode = "passwordless" THEN "select" ELSE "probe")

\* ... and by text (clickFirstNonSocialSelector).
PressSelector == At("select") /\ PressAny("probe")

\* detectMfaChallenge looks where the identifier was.
AsksForCode == IF login.frame THEN site.view = "framedCode" ELSE site.view \in {"code", "prompt"}

Report(detected) ==
    login' = [login EXCEPT !.at = "snapshot",
                           !.mfa = detected \/ (login.mode = "passwordless" /\ login.submitted)]

\* Mutant: what was pressed without a code being asked for counts as submitted.
ProbeOnce ==
    /\ login.at \in {"probe", "probeAgain"}
    /\ Report(AsksForCode)
    /\ Looks

\* Until the deadline.  Pressing something in a passwordless login counts only
\* if the site then asks for the code.
Probe ==
    /\ login.at \in {"probe", "probeAgain"}
    /\ IF ~ AsksForCode /\ login.mode = "passwordless" /\ login.submitted
       THEN login' = [login EXCEPT !.at = "probeAgain", !.submitted = FALSE]
       ELSE Report(AsksForCode)
    /\ Looks

\* The snapshot that follows login and mfa may throw.
SnapshotAfter ==
    /\ At("snapshot")
    /\ Ends("ok") \/ Ends("unseen")
    /\ Looks

-----------------------------------------------------------------------------
(* submitMfaCode.                                                          *)

\* mfa with the code the user was sent at some time, or another one.
BeginMfa(code) == BeginCall([NoLogin EXCEPT !.op = "mfa", !.at = "codeFrames", !.code = code])

\* Without a code in the call or in the vault.
BeginMfaWithout == BeginCall([NoLogin EXCEPT !.op = "mfa", !.outcome = "error"])

LookForCodeFrame ==
    /\ At("codeFrames")
    /\ login' = [login EXCEPT !.at = "digits", !.frame = CodeIn(TRUE)]
    /\ Looks

\* One input for each digit, if the page has them; Enter is pressed once, and
\* counts as a submission even when it fails.
TypeDigits ==
    /\ At("digits")
    /\ \/ GoesOn("input") /\ UNCHANGED site
       \/ /\ CodeIn(login.frame)
          /\ site' = [site EXCEPT !.typed = {"code"}]
          /\ GoesOn("digitsEnter")
    /\ UNCHANGED <<sent, moves, calls, submits, lost>>

CodeHit == CodeIn(login.frame) /\ "code" \in site.typed
PressedCode == IF CodeHit THEN SiteGetsCode ELSE UNCHANGED <<site, sent, submits>>

PressDigitsEnter ==
    /\ At("digitsEnter")
    /\ PressedCode \/ UNCHANGED <<site, sent, submits>>
    /\ login' = Submitted("snapshot")
    /\ UNCHANGED <<moves, calls, lost>>

\* One input for the code: without it the call throws, the session is over.
TypeCode ==
    /\ At("input")
    /\ \/ Ends("error") /\ UNCHANGED site
       \/ /\ CodeIn(login.frame)
          /\ site' = [site EXCEPT !.typed = {"code"}]
          /\ GoesOn("codeButton")
    /\ UNCHANGED <<sent, moves, calls, submits, lost>>

PressCodeButton ==
    /\ At("codeButton")
    /\ Strikes(CodeHit, PressedCode, Submitted("snapshot"), "codeEnter")
    /\ UNCHANGED <<moves, calls>>

PressCodeEnter ==
    /\ At("codeEnter")
    /\ IF CodeIn(login.frame)
       THEN Strikes(CodeHit, PressedCode, Submitted("snapshot"), "snapshot")
       ELSE GoesOn("snapshot") /\ UNCHANGED <<site, sent, submits, lost>>
    /\ UNCHANGED <<moves, calls>>

LoginNext ==
    \/ /\ At("idle")
       /\ \E vault \in [{"host", "alias"} -> {"none", "password", "passwordless"}],
             candidates \in {<<>>, <<"alias">>}, x \in BOOLEAN :
                BeginLogin(vault, candidates, {"host"}, x)
    \/ LookForIdentifier \/ PressEntry \/ LookAgain \/ LookInFrames
    \/ FillIdentifier \/ LookForPassword \/ FillPassword
    \/ SubmitNearest \/ PressEnter \/ PressButton \/ PressSelector \/ Probe \/ SnapshotAfter
    \/ (\E code \in 0 .. sent : BeginMfa(code)) \/ BeginMfaWithout
    \/ LookForCodeFrame \/ TypeDigits \/ PressDigitsEnter \/ TypeCode \/ PressCodeButton \/ PressCodeEnter
    \/ SiteAnswers \/ SiteMoves

LoginSpec == LoginInit /\ [][LoginNext]_loginVars

-----------------------------------------------------------------------------
(* Properties.                                                             *)

\* What a finished call says is true of the site, whatever the page did meanwhile.
\* Unless a key or click took effect although its await failed, the form or the
\* code was submitted at most once, the report says so or calls it unconfirmed,
\* and a call that threw before the final snapshot has submitted nothing, so
\* that it can be made again.  A login that wants a code, or says that a
\* passwordless sign-in was submitted, met a site that has sent a code, although
\* what it pressed may have been a button of another view.
LoginReportIsTrue ==
    At("idle") =>
        /\ ~ lost /\ submits > 0 =>
              /\ submits = 1
              /\ login.outcome \in {"ok", "unseen"}
              /\ login.submitted \/ login.mode = "passwordless"
        /\ login.op = "login" /\ login.outcome = "ok" =>
              /\ login.mfa => sent > 0
              /\ login.mode = "passwordless" /\ login.submitted => login.mfa
=============================================================================

----------------------------- MODULE CodexSignIn -----------------------------
(***************************************************************************)
(* Signing in to openai-codex from the dashboard: the page                 *)
(* (ui/app-setup.ts) asks the server (web/dashboard.ts) to start a login   *)
(* job and then polls its status, while the login of the library goes on   *)
(* by itself: it outlives the request that started it, the job, and a page *)
(* that has lost interest.  The user may reset the form at any moment and  *)
(* begin again, with requests and polls of earlier jobs still under way.   *)
(***************************************************************************)
EXTENDS Naturals

CONSTANTS
    MaxJobs,        \* bound on the jobs started
    MaxPolls,       \* polls of a job before the page gives up (240 in the code)
    MaxRestarts,    \* bound on restarts of the server
    Reachable       \* the login's callback can be reached by the user's browser

ASSUME SignInAssumption ==
    /\ MaxJobs \in Nat \ {0} /\ MaxPolls \in Nat \ {0} /\ MaxRestarts \in Nat
    /\ Reachable \in BOOLEAN

VARIABLES
    job,          \* server: CodexOAuthJob of each job
    known,        \* server: jobs in codexOAuthJobs
    login,        \* server: loginOpenAICodex of each job: "none", "running", "over"
    request,      \* start request of each job, as far as it got
    saved,        \* openai-codex.json has credentials
    oauth,        \* page: setupOAuthStatus
    oauthJob,     \* page: setupOAuthJobId; 0 for ""
    poll,         \* page: the polling loop of each job
    begun,        \* jobs begun
    restarts,
    configured,   \* the configuration has openai-codex, as its users want it
    listed        \* page: setupProviders shows it

signInVars == <<job, known, login, request, saved, oauth, oauthJob, poll, begun, restarts,
                configured, listed>>
providerList == <<configured, listed>>

Jobs == 1..MaxJobs
JobStates == {"starting", "awaiting_signin", "done", "error"}
Settled == {"done", "error"}
NoJob == [status |-> "starting", url |-> FALSE, code |-> FALSE, read |-> FALSE]
NoPoll == [at |-> "off", left |-> 0, answer |-> "none"]

SignInInit ==
    /\ job = [j \in Jobs |-> NoJob]
    /\ known = {}
    /\ login = [j \in Jobs |-> "none"]
    /\ request = [j \in Jobs |-> "none"]
    /\ saved = FALSE
    /\ oauth = "idle" /\ oauthJob = 0
    /\ poll = [j \in Jobs |-> NoPoll]
    /\ begun = 0 /\ restarts = 0
    /\ configured = FALSE /\ listed = FALSE

-----------------------------------------------------------------------------
(* The page.                                                               *)

\* startCodexOAuth up to its request, and handleStartCodexOAuth up to its wait:
\* the login runs in the background.
StartSignIn ==
    /\ oauth \notin {"starting", "awaiting_signin"}
    /\ begun < MaxJobs
    /\ begun' = begun + 1
    /\ oauth' = "starting" /\ oauthJob' = 0
    /\ request' = [request EXCEPT ![begun + 1] = "waiting"]
    /\ known' = known \cup {begun + 1}
    /\ login' = [login EXCEPT ![begun + 1] = "running"]
    /\ UNCHANGED <<job, saved, poll, restarts, providerList>>

\* The response to the start request: a job to poll, or a failure.
StartAnswered(j) ==
    /\ request[j] \in {"started", "failed"}
    /\ request' = [request EXCEPT ![j] = "over"]
    /\ \/ /\ request[j] = "started"
          /\ oauth' = "awaiting_signin" /\ oauthJob' = j
          /\ poll' = [poll EXCEPT ![j] = [at |-> "asleep", left |-> MaxPolls,
                                          answer |-> "none"]]
       \/ /\ request[j] = "failed"
          /\ oauth' = "error"
          /\ UNCHANGED <<oauthJob, poll>>
    /\ UNCHANGED <<job, known, login, saved, begun, restarts, providerList>>

\* reset-codex-oauth, and the other buttons that leave the form.
ResetForm ==
    /\ oauth # "idle"
    /\ oauth' = "idle" /\ oauthJob' = 0
    /\ UNCHANGED <<job, known, login, request, saved, poll, begun, restarts, providerList>>

\* submitCodexOAuthCode and handleCodexOAuthCode: the pasted redirect URL.
SubmitCode ==
    /\ oauthJob \in known
    /\ ~ job[oauthJob].code
    /\ job' = [job EXCEPT ![oauthJob].code = TRUE]
    /\ UNCHANGED <<known, login, request, saved, oauth, oauthJob, poll, begun, restarts,
                   providerList>>

\* Mutant: the loop of a job goes on without counting its rounds.
PollForever(j) ==
    /\ poll[j].at = "asleep"
    /\ poll' = [poll EXCEPT ![j] = IF oauthJob = j
                                   THEN [@ EXCEPT !.at = "asking"] ELSE NoPoll]
    /\ UNCHANGED <<job, known, login, request, saved, oauth, oauthJob, begun, restarts,
                   providerList>>

\* pollCodexOAuthStatus wakes up: it asks again, unless the page has moved on to
\* another job.
PollWakes(j) ==
    /\ poll[j].at = "asleep"
    /\ poll' = [poll EXCEPT ![j] = IF oauthJob = j
                                   THEN [@ EXCEPT !.at = "asking", !.left = @ - 1]
                                   ELSE NoPoll]
    /\ UNCHANGED <<job, known, login, request, saved, oauth, oauthJob, begun, restarts,
                   providerList>>

\* A poll's answer is applied whatever the page shows by now.
PollAnswered(j) ==
    /\ poll[j].at = "answered"
    /\ \/ /\ poll[j].answer = "done"
          /\ oauth' = "done" /\ oauthJob' = 0
          /\ poll' = [poll EXCEPT ![j] = [NoPoll EXCEPT !.at = "reloading"]]
       \/ /\ poll[j].answer = "error"
          /\ oauth' = "error"
          /\ poll' = [poll EXCEPT ![j] = NoPoll]
          /\ UNCHANGED oauthJob
       \/ /\ poll[j].answer \notin Settled /\ poll[j].left > 0
          /\ poll' = [poll EXCEPT ![j].at = "asleep", ![j].answer = "none"]
          /\ UNCHANGED <<oauth, oauthJob>>
       \/ /\ poll[j].answer \notin Settled /\ poll[j].left = 0
          /\ oauth' = "error"
          /\ poll' = [poll EXCEPT ![j] = NoPoll]
          /\ UNCHANGED oauthJob
    /\ UNCHANGED <<job, known, login, request, saved, begun, restarts, providerList>>

\* After "done" the page loads the setup again: the providers of the config.
ReloadSetup(j) ==
    /\ poll[j].at = "reloading"
    /\ poll' = [poll EXCEPT ![j] = NoPoll]
    /\ listed' = configured
    /\ UNCHANGED <<job, known, login, request, saved, oauth, oauthJob, begun, restarts,
                   configured>>

-----------------------------------------------------------------------------
(* The server.                                                             *)

\* onAuth: the library has a URL for the user.
LoginHasUrl(j) ==
    /\ login[j] = "running" /\ ~ job[j].url
    /\ job' = [job EXCEPT ![j].url = TRUE, ![j].status = "awaiting_signin"]
    /\ UNCHANGED <<known, login, request, saved, oauth, oauthJob, poll, begun, restarts,
                   providerList>>

\* Mutant: the job is done when the login is, credentials saved or not.
LoginSucceedsFirst(j) ==
    /\ login[j] = "running" /\ job[j].url /\ (Reachable \/ job[j].code)
    /\ login' = [login EXCEPT ![j] = "over"]
    /\ job' = [job EXCEPT ![j].status = "done"]
    /\ \/ saved' = TRUE
       \/ UNCHANGED saved
    /\ UNCHANGED <<known, request, oauth, oauthJob, poll, begun, restarts, providerList>>

\* The user signs in, through the callback or the pasted URL.  The credentials
\* are saved, and only then the job is done; if saving throws it is an error.
LoginSucceeds(j) ==
    /\ login[j] = "running" /\ job[j].url /\ (Reachable \/ job[j].code)
    /\ login' = [login EXCEPT ![j] = "over"]
    /\ \/ saved' = TRUE /\ job' = [job EXCEPT ![j].status = "done"]
       \/ UNCHANGED saved /\ job' = [job EXCEPT ![j].status = "error"]
    /\ UNCHANGED <<known, request, oauth, oauthJob, poll, begun, restarts, providerList>>

LoginFails(j) ==
    /\ login[j] = "running"
    /\ login' = [login EXCEPT ![j] = "over"]
    /\ job' = [job EXCEPT ![j].status = "error"]
    /\ UNCHANGED <<known, request, saved, oauth, oauthJob, poll, begun, restarts,
                   providerList>>

\* The wait of handleStartCodexOAuth ends: with a URL, with an error, or after
\* eight seconds without either; without a URL the job is forgotten, but its
\* login goes on.
AnswerStart(j) ==
    /\ request[j] = "waiting"
    /\ \/ /\ job[j].url
          /\ request' = [request EXCEPT ![j] = "started"]
          /\ UNCHANGED known
       \/ /\ ~ job[j].url
          /\ request' = [request EXCEPT ![j] = "failed"]
          /\ known' = known \ {j}
    /\ UNCHANGED <<job, login, saved, oauth, oauthJob, poll, begun, restarts, providerList>>

\* handleCodexOAuthStatus; a response that is lost, or that the job is not there,
\* brings no news.
AnswerPoll(j) ==
    /\ poll[j].at = "asking"
    /\ \E answer \in {IF j \in known THEN job[j].status ELSE "missing", "missing"} :
          poll' = [poll EXCEPT ![j].at = "answered", ![j].answer = answer]
    /\ job' = [job EXCEPT ![j].read = @ \/ (j \in known /\ job[j].status \in Settled)]
    /\ UNCHANGED <<known, login, request, saved, oauth, oauthJob, begun, restarts,
                   providerList>>

\* Thirty seconds after a status that was final was read.
ForgetJob(j) ==
    /\ j \in known /\ job[j].read
    /\ known' = known \ {j}
    /\ UNCHANGED <<job, login, request, saved, oauth, oauthJob, poll, begun, restarts,
                   providerList>>

\* The server's process ends: jobs and logins are gone, open requests fail.
ServerLost ==
    /\ restarts < MaxRestarts
    /\ restarts' = restarts + 1
    /\ known' = {}
    /\ login' = [j \in Jobs |-> IF login[j] = "running" THEN "over" ELSE login[j]]
    /\ request' = [j \in Jobs |-> IF request[j] = "waiting" THEN "failed" ELSE request[j]]
    /\ poll' = [j \in Jobs |-> IF poll[j].at = "asking"
                               THEN [poll[j] EXCEPT !.at = "answered", !.answer = "missing"]
                               ELSE poll[j]]
    /\ UNCHANGED <<job, saved, oauth, oauthJob, begun, providerList>>

PollStep(j) == PollWakes(j) \/ AnswerPoll(j) \/ PollAnswered(j)

SignInNext ==
    \/ StartSignIn \/ ResetForm \/ SubmitCode \/ ServerLost
    \/ \E j \in Jobs :
          \/ StartAnswered(j) \/ AnswerStart(j) \/ PollStep(j) \/ ReloadSetup(j)
          \/ LoginHasUrl(j) \/ LoginSucceeds(j) \/ LoginFails(j) \/ ForgetJob(j)

SignInSpec == SignInInit /\ [][SignInNext]_signInVars

-----------------------------------------------------------------------------
(* Properties.                                                             *)

\* The page reports a sign-in only if credentials were saved: not for a login
\* that failed, a job that was forgotten, or a later attempt over a stale poll.
DoneMeansSaved == oauth = "done" => saved

\* A sign-in comes to an end on the page by itself, whatever becomes of the
\* user, the login, the job, the server and the polls of earlier attempts.
SignInSettles == (oauth \in {"starting", "awaiting_signin"})
                    ~> (oauth \notin {"starting", "awaiting_signin"})

\* The page then says "Signed in successfully. The openai-codex provider is now
\* active." and reloads the setup "so the new provider appears".
SignedInIsActive ==
    oauth = "done" /\ (\A j \in Jobs : poll[j].at # "reloading") => configured /\ listed
=============================================================================
